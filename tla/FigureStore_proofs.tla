-------------------------- MODULE FigureStore_proofs ---------------------------
(***************************************************************************)
(* Proofs about FigureStore, for every number of figures and requests.     *)
(***************************************************************************)
EXTENDS FigureStore, FiniteSetTheorems, SequenceTheorems, TLAPS

-----------------------------------------------------------------------------
(***************************************************************************)
(* What a request carries, and what is made of it.                         *)
(***************************************************************************)
LEMMA DocsAreNotMarks == \A doc \in Doc : doc # Unborn /\ doc # Deleted
BY ValueAssumption

LEMMA RequestParts ==
  ASSUME NEW request \in Request
  PROVE  /\ request.op = "create" => request.body \in NewBodies
         /\ request.op = "update" => /\ request.figure \in Figures
                                     /\ request.copy \in Doc
                                     /\ request.body \in EditBodies
         /\ request.op = "delete" => request.figure \in Figures
         /\ request.op = "upsert" => request.body \in Reports
BY DEF Request, Idle

LEMMA TextType ==
  ASSUME NEW doc \in Doc \cup {Unborn, Deleted}
  PROVE  Text(doc) \in Entry
BY DEF Text, Entry, Doc

LEMMA NewDocType ==
  ASSUME NEW body \in NewBodies, NEW name \in NameAfterScrape(body), Given(name)
  PROVE  NewDoc(body, name) \in Doc
<1>1. body \in Body
  BY BodyAssumption DEF NewBody
<1>2. name \in Names
  BY <1>1 DEF NameAfterScrape, ScrapedNames, Body, Given
<1> QED BY <1>1, <1>2, ValueAssumption DEF NewDoc, OrNone, Body, Doc, Given

LEMMA EditedType ==
  ASSUME NEW now \in Doc, NEW copy \in Doc, NEW body \in EditBodies,
         NEW name \in NameAfterScrape(body)
  PROVE  Edited(now, copy, body, name) \in Doc
<1>1. body \in Body
  BY BodyAssumption
<1>2. name \in Names \cup {None, Unnamed}
  BY <1>1 DEF NameAfterScrape, ScrapedNames, Body
<1> QED BY <1>1, <1>2, ValueAssumption DEF Edited, Sent, Body, Doc, Given

LEMMA MergedType ==
  ASSUME NEW now \in Doc, NEW report \in Reports
  PROVE  Merged(now, report) \in Doc
BY BodyAssumption DEF Merged, Body, Doc, Given

LEMMA NoDocType == NoDoc \in Doc
BY ValueAssumption DEF NoDoc, Doc

-----------------------------------------------------------------------------
(***************************************************************************)
(* The steps, by what they do to figures and index.                        *)
(***************************************************************************)
Shaped ==
  /\ figures \in [Figures -> Doc \cup {Unborn, Deleted}]
  /\ index \in [Figures -> Entry]
  /\ writes \in [Figures -> Seq(Entry)]
  /\ disordered \subseteq Figures

\* A figure is inserted under a new id, changed, or deleted.
Stored(f, doc) ==
  /\ Store(f, doc)
  /\ \/ doc \in Doc /\ figures[f] # Deleted
     \/ doc = Deleted

LEMMA Steps ==
  ASSUME FigureTypeOK, [Next]_vars
  PROVE  \/ Untouched
         \/ \E f \in Figures, doc \in Doc \cup {Deleted} : Stored(f, doc)
         \/ \E f \in Figures : \E i \in 1 .. Len(writes[f]) : ApplyWrite(f, i) \/ FailWrite(f, i)
<1>1. ASSUME NEW r \in Slots, Finish(r)
      PROVE  \/ Untouched
             \/ \E f \in Figures, doc \in Doc \cup {Deleted} : Stored(f, doc)
  <2>0. requests[r] \in Request
    BY DEF FigureTypeOK
  <2>1. CASE InsertFigure(r)
    <3>1. PICK name \in NameAfterScrape(requests[r].body), f \in Figures :
            /\ Given(name) /\ figures[f] = Unborn
            /\ Store(f, NewDoc(requests[r].body, name))
      BY <2>1 DEF InsertFigure
    <3>2. NewDoc(requests[r].body, name) \in Doc
      BY <2>0, <2>1, <3>1, RequestParts, NewDocType DEF InsertFigure
    <3> QED BY <3>1, <3>2, ValueAssumption DEF Stored
  <2>2. CASE UpdateFigure(r)
    <3>1. CASE requests[r].figure \in Live
      <4>1. PICK name \in NameAfterScrape(requests[r].body) :
              Store(requests[r].figure, Edited(figures[requests[r].figure], requests[r].copy,
                                               requests[r].body, name))
        BY <2>2, <3>1 DEF UpdateFigure
      <4>2. figures[requests[r].figure] \in Doc
        BY <3>1 DEF Live, FigureTypeOK
      <4>3. Edited(figures[requests[r].figure], requests[r].copy, requests[r].body, name) \in Doc
        BY <2>0, <2>2, <4>1, <4>2, RequestParts, EditedType DEF UpdateFigure
      <4>4. requests[r].figure \in Figures
        BY <3>1 DEF Live
      <4> QED BY <4>1, <4>2, <4>3, <4>4, DocsAreNotMarks DEF Stored
    <3>2. CASE requests[r].figure \notin Live
      BY <2>2, <3>2 DEF UpdateFigure
    <3> QED BY <3>1, <3>2
  <2>3. CASE DeleteFigure(r)
    BY <2>0, <2>3, RequestParts DEF DeleteFigure, Stored
  <2>4. CASE InsertReported(r)
    <3>1. PICK f \in Figures : /\ figures[f] = Unborn
                               /\ Store(f, Merged(NoDoc, requests[r].body))
      BY <2>4 DEF InsertReported
    <3>2. Merged(NoDoc, requests[r].body) \in Doc
      BY <2>0, <2>4, RequestParts, MergedType, NoDocType DEF InsertReported
    <3> QED BY <3>1, <3>2, ValueAssumption DEF Stored
  <2> QED BY <1>1, <2>1, <2>2, <2>3, <2>4 DEF Finish
<1>2. ASSUME NEW r \in WebhookSlots, NEW report \in Reports, ReportKnownItem(r, report)
      PROVE  \E f \in Figures, doc \in Doc \cup {Deleted} : Stored(f, doc)
  <2>1. PICK f \in Live : Store(f, Merged(figures[f], report))
    BY <1>2 DEF ReportKnownItem
  <2>2. f \in Figures /\ figures[f] \in Doc
    BY <2>1 DEF Live, FigureTypeOK
  <2>3. Merged(figures[f], report) \in Doc
    BY <2>2, MergedType
  <2> QED BY <2>1, <2>2, <2>3, DocsAreNotMarks DEF Stored
<1>3. ASSUME NEW r \in UserSlots, UserRequest(r)
      PROVE  Untouched
  BY <1>3 DEF UserRequest, CreateFigure, ReadFigure, FindFigureToDelete
<1>4. ASSUME NEW r \in WebhookSlots, NEW report \in Reports, ReportNewItem(r, report)
      PROVE  Untouched
  BY <1>4 DEF ReportNewItem
<1>5. ASSUME NEW r \in Slots, Abandon(r)
      PROVE  Untouched
  BY <1>5 DEF Abandon
<1>6. CASE UNCHANGED vars
  BY <1>6 DEF vars, Untouched
<1> QED BY <1>1, <1>2, <1>3, <1>4, <1>5, <1>6 DEF Next, SettleWrite

LEMMA WithoutType ==
  ASSUME NEW S, NEW seq \in Seq(S), NEW i \in 1 .. Len(seq)
  PROVE  /\ Without(seq, i) \in Seq(S)
         /\ Len(Without(seq, i)) = Len(seq) - 1
         /\ i # Len(seq) => Without(seq, i)[Len(seq) - 1] = seq[Len(seq)]
<1> DEFINE front == SubSeq(seq, 1, i - 1)
           back == SubSeq(seq, i + 1, Len(seq))
<1>1. front \in Seq(S) /\ Len(front) = i - 1
  OBVIOUS
<1>2. back \in Seq(S) /\ Len(back) = Len(seq) - i
  <2>1. \A j \in i + 1 .. Len(seq) : seq[j] \in S
    OBVIOUS
  <2>2. i + 1 \in Int /\ Len(seq) \in Nat /\ i <= Len(seq)
    OBVIOUS
  <2>3. /\ back \in Seq(S)
        /\ Len(back) = IF i + 1 <= Len(seq) THEN Len(seq) - (i + 1) + 1 ELSE 0
    BY <2>1, <2>2, SubSeqProperties
  <2> HIDE DEF back
  <2> QED BY <2>2, <2>3
<1>3. front \o back \in Seq(S) /\ Len(front \o back) = Len(seq) - 1
  <2>1. i \in Int /\ Len(seq) \in Int
    OBVIOUS
  <2> HIDE DEF front, back
  <2> QED BY <1>1, <1>2, <2>1, ConcatProperties
<1>4. ASSUME i # Len(seq)
      PROVE  (front \o back)[Len(seq) - 1] = seq[Len(seq)]
  <2>1. back[Len(seq) - i] = seq[Len(seq)]
    BY <1>4, SubSeqProperties
  <2>2. (front \o back)[Len(seq) - 1] = back[Len(seq) - i]
    <3> HIDE DEF front, back
    <3> QED BY <1>1, <1>2, <1>4
  <2> QED BY <2>1, <2>2
<1> QED BY <1>3, <1>4 DEF Without

LEMMA ShapedNext ==
  ASSUME FigureTypeOK, [Next]_vars
  PROVE  Shaped'
<1>0. Shaped
  BY DEF FigureTypeOK, Shaped
<1>1. CASE Untouched
  BY <1>0, <1>1 DEF Untouched, Shaped
<1>2. ASSUME NEW f \in Figures, NEW doc \in Doc \cup {Deleted}, Stored(f, doc)
      PROVE  Shaped'
  <2>1. Text(doc) \in Entry
    BY TextType
  <2> QED BY <1>0, <1>2, <2>1 DEF Stored, Store, Shaped
<1>3. ASSUME NEW f \in Figures, NEW i \in 1 .. Len(writes[f]),
             ApplyWrite(f, i) \/ FailWrite(f, i)
      PROVE  Shaped'
  <2>1. writes[f] \in Seq(Entry) /\ writes[f][i] \in Entry
    BY <1>0 DEF Shaped
  <2>2. Without(writes[f], i) \in Seq(Entry)
    BY <2>1, WithoutType
  <2> QED BY <1>0, <1>3, <2>1, <2>2 DEF ApplyWrite, FailWrite, Shaped
<1> QED BY <1>1, <1>2, <1>3, Steps

LEMMA RequestsNext ==
  ASSUME FigureTypeOK, [Next]_vars
  PROVE  requests' \in [Slots -> Request] /\ served' \in 0 .. MaxRequests
<1>0. Idle \in Request /\ requests \in [Slots -> Request] /\ served \in 0 .. MaxRequests
  BY DEF Request, FigureTypeOK
<1>1. ASSUME NEW r \in Slots, NEW request \in Request, Begin(r, request)
      PROVE  requests' \in [Slots -> Request] /\ served' \in 0 .. MaxRequests
  BY <1>0, <1>1, SlotAssumption DEF Begin
<1>2. ASSUME NEW r \in UserSlots, UserRequest(r)
      PROVE  \E request \in Request : Begin(r, request)
  <2>1. ASSUME NEW body \in NewBodies, CreateFigure(r, body)
        PROVE  \E request \in Request : Begin(r, request)
    BY <2>1 DEF CreateFigure, Request
  <2>2. ASSUME NEW f \in Figures, NEW body \in EditBodies, ReadFigure(r, f, body)
        PROVE  \E request \in Request : Begin(r, request)
    BY <2>2 DEF ReadFigure, Request, Live, FigureTypeOK
  <2>3. ASSUME NEW f \in Figures, FindFigureToDelete(r, f)
        PROVE  \E request \in Request : Begin(r, request)
    BY <2>3 DEF FindFigureToDelete, Request
  <2> QED BY <1>2, <2>1, <2>2, <2>3 DEF UserRequest
<1>3. ASSUME NEW r \in WebhookSlots, NEW report \in Reports,
             ReportKnownItem(r, report) \/ ReportNewItem(r, report)
      PROVE  \E request \in Request : Begin(r, request)
  BY <1>0, <1>3 DEF ReportKnownItem, ReportNewItem, Request
<1>4. ASSUME NEW r \in Slots, Finish(r) \/ Abandon(r)
      PROVE  requests' \in [Slots -> Request] /\ served' \in 0 .. MaxRequests
  BY <1>0, <1>4 DEF Finish, InsertFigure, UpdateFigure, DeleteFigure, InsertReported, Abandon, End
<1>5. ASSUME NEW f \in Figures, SettleWrite(f)
      PROVE  UNCHANGED <<requests, served>>
  BY <1>5 DEF SettleWrite, ApplyWrite, FailWrite
<1> QED BY <1>0, <1>1, <1>2, <1>3, <1>4, <1>5 DEF Next, vars, Slots

-----------------------------------------------------------------------------
\* Figures, index, index writes and requests keep their shape in every
\* behaviour.
THEOREM FiguresTypeCorrect == Spec => []FigureTypeOK
<1>1. Init => FigureTypeOK
  BY SlotAssumption DEF Init, FigureTypeOK, Request, Entry
<1>2. FigureTypeOK /\ [Next]_vars => FigureTypeOK'
  BY ShapedNext, RequestsNext DEF FigureTypeOK, Shaped
<1> QED BY <1>1, <1>2, PTL DEF Spec

LEMMA FollowsNext ==
  ASSUME FigureTypeOK, IndexFollows, [Next]_vars
  PROVE  IndexFollows'
<1>0. Shaped
  BY DEF FigureTypeOK, Shaped
<1>1. CASE Untouched
  BY <1>1 DEF Untouched, IndexFollows, Newest
<1>2. ASSUME NEW f \in Figures, NEW doc \in Doc \cup {Deleted}, Stored(f, doc)
      PROVE  IndexFollows'
  <2>1. Store(f, doc)
    BY <1>2 DEF Stored
  <2>2. ASSUME NEW g \in Figures, g # f
        PROVE  Newest(g)' = Newest(g) /\ figures'[g] = figures[g]
    BY <1>0, <2>1, <2>2 DEF Store, Newest, Shaped
  <2>3. writes[f] \in Seq(Entry) /\ Text(doc) \in Entry /\ writes'[f] = Append(writes[f], Text(doc))
    BY <1>0, <2>1, TextType DEF Store, Shaped
  <2>4. Newest(f)' = Text(doc) /\ figures'[f] = doc
    BY <1>0, <2>1, <2>3 DEF Store, Newest, Shaped
  <2> QED BY <2>1, <2>2, <2>4 DEF Store, IndexFollows
<1>3. ASSUME NEW f \in Figures, NEW i \in 1 .. Len(writes[f]),
             ApplyWrite(f, i) \/ FailWrite(f, i)
      PROVE  IndexFollows'
  <2>1. ASSUME NEW g \in Figures, g # f
        PROVE  Newest(g)' = Newest(g)
    BY <1>0, <1>3, <2>1 DEF ApplyWrite, FailWrite, Newest, Shaped
  <2>2. writes[f] \in Seq(Entry) /\ writes'[f] = Without(writes[f], i)
    BY <1>0, <1>3 DEF ApplyWrite, FailWrite, Shaped
  <2>3. ASSUME f \notin disordered'
        PROVE  f \notin disordered /\ Newest(f)' = Newest(f)
    <3>1. CASE i # Len(writes[f])
      BY <1>3, <2>2, <2>3, <3>1, WithoutType DEF Newest, ApplyWrite, FailWrite
    <3>2. CASE i = 1 /\ 1 = Len(writes[f]) /\ ApplyWrite(f, i)
      <4>1. writes'[f] = <<>>
        BY <2>2, <3>2, WithoutType
      <4>2. index'[f] = writes[f][1]
        BY <1>0, <3>2 DEF ApplyWrite, Shaped
      <4> QED BY <2>2, <2>3, <3>2, <4>1, <4>2 DEF Newest, ApplyWrite
    <3>3. i = Len(writes[f]) /\ ~(1 < i) => i = 1 /\ 1 = Len(writes[f])
      <4> DEFINE n == Len(writes[f])
      <4>1. n \in Nat
        BY <2>2
      <4>2. i \in 1 .. n
        OBVIOUS
      <4> HIDE DEF n
      <4>3. i = n /\ ~(1 < i) => i = 1 /\ 1 = n
        BY <4>1, <4>2
      <4> QED BY <4>3 DEF n
    <3>4. ~FailWrite(f, i) \/ i # Len(writes[f])
      BY <2>3 DEF FailWrite
    <3>5. ~ApplyWrite(f, i) \/ i # Len(writes[f]) \/ ~(1 < i)
      BY <2>3 DEF ApplyWrite
    <3> QED BY <1>3, <3>1, <3>2, <3>3, <3>4, <3>5
  <2>4. figures' = figures /\ \A g \in Figures \ {f} : g \notin disordered' => g \notin disordered
    BY <1>3 DEF ApplyWrite, FailWrite
  <2> QED BY <2>1, <2>3, <2>4 DEF IndexFollows
<1> QED BY <1>1, <1>2, <1>3, Steps

\* The index follows the figures, whatever overlaps.
THEOREM FiguresIndexed == Spec => []IndexFollows
<1>1. Init => IndexFollows
  BY DEF Init, IndexFollows, Newest, Text
<1>2. FigureTypeOK /\ IndexFollows /\ [Next]_vars => IndexFollows'
  BY FollowsNext
<1> QED BY <1>1, <1>2, FiguresTypeCorrect, PTL DEF Spec

-----------------------------------------------------------------------------
\* No request or report brings a deleted figure back.
THEOREM FiguresStayDeleted == Spec => DeletedStaysDeleted
<1>1. ASSUME FigureTypeOK, [Next]_vars, NEW f \in Figures, figures[f] = Deleted
      PROVE  figures'[f] = Deleted
  <2>1. ASSUME NEW g \in Figures, NEW doc \in Doc \cup {Deleted}, Stored(g, doc)
        PROVE  figures'[f] = Deleted
    BY <1>1, <2>1 DEF Stored, Store, FigureTypeOK
  <2> QED BY <1>1, <2>1, Steps DEF Untouched, ApplyWrite, FailWrite
<1>2. FigureTypeOK /\ [Next]_vars
        => [\A f \in Figures : figures[f] = Deleted => figures'[f] = Deleted]_vars
  BY <1>1
<1> QED BY <1>2, FiguresTypeCorrect, PTL DEF Spec, DeletedStaysDeleted

\* The update of a figure that is still there, by its request.
LEMMA UpdateOfRequest ==
  ASSUME FigureTypeOK, [Next]_vars, NEW r \in UserSlots,
         requests[r].op = "update", requests'[r] = Idle, requests[r].figure \in Live
  PROVE  figures' = figures
         \/ \E name \in NameAfterScrape(requests[r].body) :
               figures' = [figures EXCEPT ![requests[r].figure] =
                             Edited(figures[requests[r].figure], requests[r].copy,
                                    requests[r].body, name)]
<1>0. requests[r] # Idle /\ requests \in [Slots -> Request]
  BY DEF Idle, FigureTypeOK
<1>1. CASE UpdateFigure(r)
  BY <1>1 DEF UpdateFigure, Store
<1>2. CASE Abandon(r)
  BY <1>2 DEF Abandon, Untouched
<1>3. ASSUME NEW s \in Slots, s # r, Finish(s) \/ Abandon(s)
      PROVE  FALSE
  BY <1>0, <1>3 DEF Finish, InsertFigure, UpdateFigure, DeleteFigure, InsertReported, Abandon,
                    End, Slots
<1>4. ASSUME NEW s \in Slots, NEW request, Begin(s, request)
      PROVE  FALSE
  BY <1>0, <1>4 DEF Begin, Slots
<1>5. ASSUME NEW s \in UserSlots, UserRequest(s)
      PROVE  \E request : Begin(s, request)
  BY <1>5 DEF UserRequest, CreateFigure, ReadFigure, FindFigureToDelete
<1>6. ASSUME NEW s \in WebhookSlots, NEW report \in Reports,
             ReportKnownItem(s, report) \/ ReportNewItem(s, report)
      PROVE  \E request : Begin(s, request)
  BY <1>6 DEF ReportKnownItem, ReportNewItem
<1>7. ASSUME (\E f \in Figures : SettleWrite(f)) \/ UNCHANGED vars
      PROVE  FALSE
  BY <1>0, <1>7 DEF SettleWrite, ApplyWrite, FailWrite, vars
<1>8. Finish(r) => UpdateFigure(r)
  BY DEF Finish, InsertFigure, DeleteFigure, InsertReported
<1> QED BY <1>1, <1>2, <1>3, <1>4, <1>5, <1>6, <1>7, <1>8 DEF Next, Slots

LEMMA EditedFields ==
  ASSUME NEW now \in Doc, NEW copy \in Doc, NEW body \in EditBodies,
         NEW name \in NameAfterScrape(body), NEW doc, doc = Edited(now, copy, body, name)
  PROVE  /\ \A field \in Field \ {"name"} :
              ~Given(body[field]) => doc[field] \in {now[field], copy[field]}
         /\ body.name = Unnamed /\ body.item = Unnamed => doc.name = now.name
         /\ now.origin # None => doc.origin # None
<1>1. body \in Body
  BY BodyAssumption
<1>2. /\ doc.item = IF Given(body.item) THEN body.item ELSE copy.item
      /\ doc.name = IF name = Unnamed THEN now.name ELSE name
      /\ doc.origin = Sent(IF body.origin = Unnamed THEN copy.origin ELSE body.origin, now.origin)
      /\ doc.tags = IF body.tags = Unnamed THEN copy.tags ELSE Sent(body.tags, now.tags)
      /\ doc.status = IF body.status = Unnamed THEN copy.status ELSE body.status
  BY DEF Edited
<1>3. body.status # None
  BY <1>1, ValueAssumption DEF Body
<1>4. ASSUME NEW field \in Field \ {"name"}, ~Given(body[field])
      PROVE  doc[field] \in {now[field], copy[field]}
  BY <1>2, <1>3, <1>4, ValueAssumption DEF Field, Given, Sent
<1>5. body.name = Unnamed /\ body.item = Unnamed => doc.name = now.name
  BY <1>2 DEF NameAfterScrape, Given
<1>6. now.origin # None => doc.origin # None
  BY <1>1, <1>2, ValueAssumption DEF Sent, Body
<1> QED BY <1>4, <1>5, <1>6

\* An update changes only what it names, or puts back what it had read.
THEOREM EditsAreLocal == Spec => EditsOnlyWhatItNames
<1>1. ASSUME FigureTypeOK, [Next]_vars, NEW r \in UserSlots, Edits(r)
      PROVE  ChangesOnlyNamed(requests[r], requests[r].figure)
  <2> DEFINE f == requests[r].figure
  <2>0. requests[r].copy \in Doc /\ requests[r].body \in EditBodies
    BY <1>1, RequestParts DEF FigureTypeOK, Slots, Edits
  <2>1. figures[f] \in Doc /\ f \in Figures
    BY <1>1 DEF Live, FigureTypeOK, Edits
  <2>2. CASE figures' = figures
    BY <2>2 DEF ChangesOnlyNamed
  <2>3. ASSUME NEW name \in NameAfterScrape(requests[r].body),
               figures' = [figures EXCEPT ![f] =
                             Edited(figures[f], requests[r].copy, requests[r].body, name)]
        PROVE  ChangesOnlyNamed(requests[r], f)
    <3>1. figures'[f] = Edited(figures[f], requests[r].copy, requests[r].body, name)
      BY <1>1, <2>1, <2>3 DEF FigureTypeOK
    <3>2. \A g \in Figures \ {f} : figures'[g] = figures[g]
      BY <1>1, <2>1, <2>3 DEF FigureTypeOK
    <3> HIDE DEF f
    <3> QED BY <2>0, <2>1, <3>1, <3>2, EditedFields DEF ChangesOnlyNamed
  <2> QED BY <1>1, <2>2, <2>3, UpdateOfRequest DEF Edits
<1>2. FigureTypeOK /\ [Next]_vars
        => [\A r \in UserSlots :
              Edits(r) => ChangesOnlyNamed(requests[r], requests[r].figure)]_vars
  BY <1>1
<1> QED BY <1>2, FiguresTypeCorrect, PTL DEF Spec, EditsOnlyWhatItNames

-----------------------------------------------------------------------------
(***************************************************************************)
(* Duplicates: who found no figure may insert one as long as others who    *)
(* found none have not, so figures and those requests together are no more *)
(* than there are slots.                                                   *)
(***************************************************************************)
Room(found, pending, slots) ==
  IsFiniteSet(found) /\ Cardinality(found) + Cardinality(pending) <= Cardinality(slots)

LEMMA RoomParts ==
  ASSUME NEW slots, IsFiniteSet(slots), NEW pending \in SUBSET slots
  PROVE  /\ IsFiniteSet(pending) /\ Cardinality(pending) \in Nat
         /\ Cardinality(slots) \in Nat /\ Cardinality(pending) <= Cardinality(slots)
BY FS_Subset, FS_CardinalityType

LEMMA RoomOfNone ==
  ASSUME NEW slots, IsFiniteSet(slots), NEW pending \in SUBSET slots
  PROVE  Room({}, pending, slots)
<1>1. IsFiniteSet({}) /\ Cardinality({}) = 0
  BY FS_EmptySet
<1> QED BY <1>1, RoomParts DEF Room

LEMMA RoomShrinks ==
  ASSUME NEW slots, IsFiniteSet(slots), NEW pending \in SUBSET slots, NEW found,
         Room(found, pending, slots), NEW fewer \in SUBSET found, NEW less \in SUBSET pending
  PROVE  Room(fewer, less, slots)
<1>1. /\ IsFiniteSet(fewer) /\ Cardinality(fewer) \in Nat /\ Cardinality(found) \in Nat
      /\ Cardinality(fewer) <= Cardinality(found)
  BY FS_Subset, FS_CardinalityType DEF Room
<1>2. IsFiniteSet(pending) /\ Cardinality(pending) \in Nat /\ Cardinality(slots) \in Nat
  BY RoomParts
<1>3. Cardinality(less) \in Nat /\ Cardinality(less) <= Cardinality(pending)
  BY <1>2, FS_Subset, FS_CardinalityType
<1> QED BY <1>1, <1>2, <1>3 DEF Room

LEMMA RoomMoves ==
  ASSUME NEW slots, IsFiniteSet(slots), NEW pending \in SUBSET slots, NEW found,
         Room(found, pending, slots), NEW r \in pending, NEW f
  PROVE  Room(found \cup {f}, pending \ {r}, slots)
<1>1. IsFiniteSet(pending) /\ Cardinality(pending) \in Nat /\ Cardinality(slots) \in Nat
  BY RoomParts
<1>2. Cardinality(pending \ {r}) = Cardinality(pending) - 1
  BY <1>1, FS_RemoveElement
<1>3. IsFiniteSet(found) /\ Cardinality(found) \in Nat
  BY FS_CardinalityType DEF Room
<1>4. /\ IsFiniteSet(found \cup {f})
      /\ Cardinality(found \cup {f}) = Cardinality(found)
           \/ Cardinality(found \cup {f}) = Cardinality(found) + 1
  BY <1>3, FS_AddElement
<1>5. Cardinality(found) + Cardinality(pending) <= Cardinality(slots)
  BY DEF Room
<1>6. Cardinality(found \cup {f}) + Cardinality(pending \ {r}) <= Cardinality(slots)
  BY <1>1, <1>2, <1>3, <1>4, <1>5
<1> QED BY <1>4, <1>6 DEF Room

-----------------------------------------------------------------------------
Of(item) == {f \in Live : figures[f].item = item}

Called(name) == {f \in Live : figures[f].name = name}

Upserting(item) ==
  {r \in WebhookSlots : requests[r].op = "upsert" /\ requests[r].body.item = item}

Creating(name) ==
  {r \in UserSlots : requests[r].op = "create" /\ requests[r].body.name = name}

Unreported(name) == \A report \in Reports : report.name # name

PlaceInv ==
  \A r \in Slots : /\ requests[r].op = "upsert" => r \in WebhookSlots
                   /\ requests[r].op = "create" => r \in UserSlots

\* A figure keeps its item as long as it is there.
ItemInv ==
  \A r \in Slots : requests[r].op = "update" =>
    /\ figures[requests[r].figure] # Unborn
    /\ requests[r].figure \in Live => requests[r].copy.item = figures[requests[r].figure].item

RoomInv ==
  /\ \A item \in Items : Room(Of(item), Upserting(item), WebhookSlots)
  /\ \A name \in Names : Unreported(name) => Room(Called(name), Creating(name), UserSlots)

DuplicateInv == PlaceInv /\ ItemInv /\ RoomInv

\* No figure that is there changes its item or takes a name of the user's.
Tame(f, doc) ==
  \/ doc = Deleted
  \/ /\ f \in Live /\ doc \in Doc /\ doc.item = figures[f].item
     /\ \A name \in Names : Unreported(name) /\ doc.name = name => figures[f].name = name

Steady ==
  \A f \in Figures : figures[f] # Unborn =>
    /\ figures'[f] # Unborn
    /\ f \in Live' => f \in Live /\ figures'[f].item = figures[f].item

FewerOf == \A item \in Items : Of(item)' \subseteq Of(item)

FewerCalled == \A name \in Names : Unreported(name) => Called(name)' \subseteq Called(name)

LEMMA StoredSets ==
  ASSUME FigureTypeOK, NEW f \in Figures, NEW doc, Store(f, doc)
  PROVE  /\ figures'[f] = doc /\ \A g \in Figures \ {f} : figures'[g] = figures[g]
         /\ \A g \in Figures \ {f} : g \in Live' <=> g \in Live
         /\ f \in Live' <=> doc \notin {Unborn, Deleted}
BY DEF Store, FigureTypeOK, Live

LEMMA TameSets ==
  ASSUME FigureTypeOK, NEW f \in Figures, NEW doc, Store(f, doc), Tame(f, doc)
  PROVE  Steady /\ FewerOf /\ FewerCalled
<1>1. doc # Unborn /\ (f \in Live' => f \in Live /\ doc \in Doc)
  BY StoredSets, DocsAreNotMarks, ValueAssumption DEF Tame
<1>2. Steady
  BY <1>1, StoredSets, ValueAssumption DEF Steady, Tame
<1>3. FewerOf
  BY <1>1, StoredSets, DocsAreNotMarks DEF FewerOf, Of, Tame, Live
<1>4. FewerCalled
  BY <1>1, StoredSets, DocsAreNotMarks DEF FewerCalled, Called, Tame, Live
<1> QED BY <1>2, <1>3, <1>4

LEMMA NewSets ==
  ASSUME FigureTypeOK, NEW f \in Figures, NEW doc \in Doc, Store(f, doc), figures[f] = Unborn
  PROVE  /\ Steady
         /\ \A item : Of(item)' \subseteq Of(item) \cup (IF doc.item = item THEN {f} ELSE {})
         /\ \A name : Called(name)' \subseteq Called(name) \cup (IF doc.name = name THEN {f} ELSE {})
BY StoredSets, DocsAreNotMarks DEF Steady, Of, Called, Live

LEMMA SameSets ==
  ASSUME figures' = figures
  PROVE  Steady /\ FewerOf /\ FewerCalled
BY DEF Steady, FewerOf, FewerCalled, Of, Called, Live

\* What a slot turns to.
LEMMA TurnedSlot ==
  ASSUME FigureTypeOK, NEW r \in Slots, NEW request, requests' = [requests EXCEPT ![r] = request]
  PROVE  requests'[r] = request /\ \A s \in Slots \ {r} : requests'[s] = requests[s]
BY DEF FigureTypeOK

LEMMA TurnedSets ==
  ASSUME FigureTypeOK, NEW r \in Slots, NEW request, requests' = [requests EXCEPT ![r] = request]
  PROVE  /\ \A item : request.op # "upsert" \/ request.body.item # item =>
              Upserting(item)' \subseteq Upserting(item) \ {r}
         /\ \A name : request.op # "create" \/ request.body.name # name =>
              Creating(name)' \subseteq Creating(name) \ {r}
<1>1. requests'[r] = request /\ \A s \in Slots \ {r} : requests'[s] = requests[s]
  BY TurnedSlot
<1>2. WebhookSlots \subseteq Slots /\ UserSlots \subseteq Slots
  BY DEF Slots
<1>3. ASSUME NEW item, request.op # "upsert" \/ request.body.item # item, NEW s \in Upserting(item)'
      PROVE  s \in Upserting(item) \ {r}
  <2>1. s \in WebhookSlots /\ requests'[s].op = "upsert" /\ requests'[s].body.item = item
    BY <1>3 DEF Upserting
  <2> QED BY <1>1, <1>2, <1>3, <2>1 DEF Upserting
<1>4. ASSUME NEW name, request.op # "create" \/ request.body.name # name, NEW s \in Creating(name)'
      PROVE  s \in Creating(name) \ {r}
  <2>1. s \in UserSlots /\ requests'[s].op = "create" /\ requests'[s].body.name = name
    BY <1>4 DEF Creating
  <2> QED BY <1>1, <1>2, <1>4, <2>1 DEF Creating
<1> QED BY <1>3, <1>4

LEMMA TurnedPlace ==
  ASSUME FigureTypeOK, PlaceInv, NEW r \in Slots, NEW request,
         requests' = [requests EXCEPT ![r] = request],
         request.op = "upsert" => r \in WebhookSlots,
         request.op = "create" => r \in UserSlots
  PROVE  PlaceInv'
BY TurnedSlot DEF PlaceInv

LEMMA TurnedItem ==
  ASSUME FigureTypeOK, ItemInv, Steady, NEW r \in Slots, NEW request,
         requests' = [requests EXCEPT ![r] = request],
         request.op = "update" =>
           /\ figures' = figures /\ request.figure \in Live
           /\ request.copy = figures[request.figure]
  PROVE  ItemInv'
<1> SUFFICES ASSUME NEW s \in Slots, requests'[s].op = "update"
             PROVE  /\ figures'[requests'[s].figure] # Unborn
                    /\ requests'[s].figure \in Live' =>
                         requests'[s].copy.item = figures'[requests'[s].figure].item
  BY DEF ItemInv
<1>1. CASE s = r
  BY <1>1, TurnedSlot DEF Live
<1>2. CASE s # r
  <2>1. requests'[s] = requests[s]
    BY <1>2, TurnedSlot
  <2>2. requests[s] \in Request
    BY DEF FigureTypeOK
  <2>3. requests[s].figure \in Figures
    BY <2>1, <2>2, RequestParts
  <2>4. /\ figures[requests[s].figure] # Unborn
        /\ requests[s].figure \in Live => requests[s].copy.item = figures[requests[s].figure].item
    BY <2>1 DEF ItemInv
  <2> QED BY <2>1, <2>3, <2>4 DEF Steady
<1> QED BY <1>1, <1>2

LEMMA PendingSlots ==
  /\ IsFiniteSet(WebhookSlots) /\ IsFiniteSet(UserSlots)
  /\ \A item : Upserting(item) \in SUBSET WebhookSlots /\ Upserting(item)' \in SUBSET WebhookSlots
  /\ \A name : Creating(name) \in SUBSET UserSlots /\ Creating(name)' \in SUBSET UserSlots
BY SlotAssumption DEF Upserting, Creating

LEMMA RoomOfItem ==
  ASSUME RoomInv, NEW item \in Items, Of(item)' \subseteq Of(item),
         Upserting(item)' \subseteq Upserting(item)
  PROVE  Room(Of(item)', Upserting(item)', WebhookSlots)
BY PendingSlots, RoomShrinks DEF RoomInv

LEMMA RoomOfName ==
  ASSUME RoomInv, NEW name \in Names, Unreported(name), Called(name)' \subseteq Called(name),
         Creating(name)' \subseteq Creating(name)
  PROVE  Room(Called(name)', Creating(name)', UserSlots)
BY PendingSlots, RoomShrinks DEF RoomInv

\* A step that neither inserts nor finds nothing.
LEMMA QuietStep ==
  ASSUME FigureTypeOK, DuplicateInv, Steady, FewerOf, FewerCalled, NEW r \in Slots, NEW request,
         requests' = [requests EXCEPT ![r] = request], request.op \notin {"upsert", "create"},
         request.op = "update" =>
           /\ figures' = figures /\ request.figure \in Live
           /\ request.copy = figures[request.figure]
  PROVE  DuplicateInv'
<1>1. PlaceInv' /\ ItemInv'
  BY TurnedPlace, TurnedItem DEF DuplicateInv
<1>2. /\ \A item : Upserting(item)' \subseteq Upserting(item)
      /\ \A name : Creating(name)' \subseteq Creating(name)
  BY TurnedSets
<1>3. \A item \in Items : Room(Of(item)', Upserting(item)', WebhookSlots)
  BY <1>2, RoomOfItem DEF FewerOf, DuplicateInv
<1>4. \A name \in Names : Unreported(name) => Room(Called(name)', Creating(name)', UserSlots)
  BY <1>2, RoomOfName DEF FewerCalled, DuplicateInv
<1>5. RoomInv'
  BY <1>3, <1>4 DEF RoomInv, Unreported
<1> QED BY <1>1, <1>5 DEF DuplicateInv

LEMMA CreateRoom ==
  ASSUME FigureTypeOK, DuplicateInv, NamesAreCreatedOnly, NEW r \in UserSlots,
         NEW body \in NewBodies, CreateFigure(r, body)
  PROVE  DuplicateInv'
<1> DEFINE request == [op |-> "create", body |-> body]
<1>1. request.op = "create" /\ request.body = body
  OBVIOUS
<1>2. requests' = [requests EXCEPT ![r] = request] /\ figures' = figures /\ requests[r] = Idle
  BY DEF CreateFigure, Begin, Untouched
<1> HIDE DEF request
<1>3. r \in Slots
  BY DEF Slots
<1>4. Steady /\ FewerOf /\ FewerCalled
  BY <1>2, SameSets
<1>5. PlaceInv' /\ ItemInv'
  BY <1>1, <1>2, <1>3, <1>4, TurnedPlace, TurnedItem DEF DuplicateInv
<1>6. \A item \in Items : Room(Of(item)', Upserting(item)', WebhookSlots)
  <2>1. \A item : Upserting(item)' \subseteq Upserting(item)
    BY <1>1, <1>2, <1>3, TurnedSets
  <2> QED BY <1>4, <2>1, RoomOfItem DEF FewerOf, DuplicateInv
<1>7. ASSUME NEW name \in Names, Unreported(name)
      PROVE  Room(Called(name)', Creating(name)', UserSlots)
  <2>1. CASE body.name = name
    <3>1. Given(body.name)
      BY <2>1, ValueAssumption DEF Given
    <3>2. Called(name)' = {}
      BY <1>2, <2>1, <3>1 DEF CreateFigure, Called, Live
    <3> QED BY <3>2, PendingSlots, RoomOfNone
  <2>2. CASE body.name # name
    <3>1. Creating(name)' \subseteq Creating(name)
      BY <1>1, <1>2, <1>3, <2>2, TurnedSets
    <3> QED BY <1>4, <1>7, <3>1, RoomOfName DEF FewerCalled, DuplicateInv
  <2> QED BY <2>1, <2>2
<1>8. RoomInv'
  BY <1>6, <1>7 DEF RoomInv, Unreported
<1> QED BY <1>5, <1>8 DEF DuplicateInv

LEMMA NewItemRoom ==
  ASSUME FigureTypeOK, DuplicateInv, NEW r \in WebhookSlots, NEW report \in Reports,
         ReportNewItem(r, report)
  PROVE  DuplicateInv'
<1> DEFINE request == [op |-> "upsert", body |-> report]
<1>1. request.op = "upsert" /\ request.body = report
  OBVIOUS
<1>2. requests' = [requests EXCEPT ![r] = request] /\ figures' = figures
  BY DEF ReportNewItem, Begin, Untouched
<1> HIDE DEF request
<1>3. r \in Slots
  BY DEF Slots
<1>4. Steady /\ FewerOf /\ FewerCalled
  BY <1>2, SameSets
<1>5. PlaceInv' /\ ItemInv'
  BY <1>1, <1>2, <1>3, <1>4, TurnedPlace, TurnedItem DEF DuplicateInv
<1>6. \A name \in Names : Unreported(name) => Room(Called(name)', Creating(name)', UserSlots)
  <2>1. \A name : Creating(name)' \subseteq Creating(name)
    BY <1>1, <1>2, <1>3, TurnedSets
  <2> QED BY <1>4, <2>1, RoomOfName DEF FewerCalled, DuplicateInv
<1>7. ASSUME NEW item \in Items
      PROVE  Room(Of(item)', Upserting(item)', WebhookSlots)
  <2>1. CASE report.item = item
    <3>1. Of(item)' = {}
      BY <1>2, <2>1 DEF ReportNewItem, Of, Live
    <3> QED BY <3>1, PendingSlots, RoomOfNone
  <2>2. CASE report.item # item
    <3>1. Upserting(item)' \subseteq Upserting(item)
      BY <1>1, <1>2, <1>3, <2>2, TurnedSets
    <3> QED BY <1>4, <3>1, RoomOfItem DEF FewerOf, DuplicateInv
  <2> QED BY <2>1, <2>2
<1>8. RoomInv'
  BY <1>6, <1>7 DEF RoomInv, Unreported
<1> QED BY <1>5, <1>8 DEF DuplicateInv

LEMMA InsertRoom ==
  ASSUME FigureTypeOK, DuplicateInv, NamesAreCreatedOnly, NEW r \in Slots, InsertFigure(r)
  PROVE  DuplicateInv'
<1> DEFINE body == requests[r].body
<1>1. requests[r].op = "create" /\ body \in NewBodies /\ r \in UserSlots
  BY RequestParts DEF InsertFigure, FigureTypeOK, DuplicateInv, PlaceInv
<1>2. body.item = Unnamed /\ NameAfterScrape(body) = {body.name}
  BY <1>1 DEF NamesAreCreatedOnly, NameAfterScrape, Given
<1>3. PICK f \in Figures : /\ Given(body.name) /\ figures[f] = Unborn
                           /\ Store(f, NewDoc(body, body.name))
  BY <1>2 DEF InsertFigure
<1> DEFINE doc == NewDoc(body, body.name)
<1>4. doc \in Doc
  BY <1>1, <1>2, <1>3, NewDocType
<1>5. doc.item = None /\ doc.name = body.name
  BY <1>2 DEF NewDoc, OrNone, Given
<1>6. requests' = [requests EXCEPT ![r] = Idle] /\ Idle.op = "idle"
  BY DEF InsertFigure, End, Idle
<1> HIDE DEF body, doc
<1>7. /\ Steady
      /\ \A item : Of(item)' \subseteq Of(item) \cup (IF doc.item = item THEN {f} ELSE {})
      /\ \A name : Called(name)' \subseteq Called(name) \cup (IF doc.name = name THEN {f} ELSE {})
  BY <1>3, <1>4, NewSets DEF doc
<1>8. PlaceInv' /\ ItemInv'
  BY <1>6, <1>7, TurnedPlace, TurnedItem DEF DuplicateInv
<1>9. \A item : Upserting(item)' \subseteq Upserting(item) \ {r}
  BY <1>6, TurnedSets
<1>10. \A name : Creating(name)' \subseteq Creating(name) \ {r}
  BY <1>6, TurnedSets
<1>11. ASSUME NEW item \in Items
       PROVE  Room(Of(item)', Upserting(item)', WebhookSlots)
  <2>1. doc.item # item
    BY <1>5, ValueAssumption
  <2> QED BY <1>7, <1>9, <2>1, RoomOfItem DEF DuplicateInv
<1>12. ASSUME NEW name \in Names, Unreported(name)
       PROVE  Room(Called(name)', Creating(name)', UserSlots)
  <2>1. CASE doc.name # name
    BY <1>7, <1>10, <1>12, <2>1, RoomOfName DEF DuplicateInv
  <2>2. CASE doc.name = name
    <3> DEFINE moved == Called(name) \cup {f}
               left == Creating(name) \ {r}
    <3>1. r \in Creating(name)
      BY <1>1, <1>5, <2>2 DEF Creating, body
    <3>2. Room(Called(name), Creating(name), UserSlots)
      BY <1>12 DEF DuplicateInv, RoomInv
    <3>3. Room(moved, left, UserSlots)
      BY <3>1, <3>2, PendingSlots, RoomMoves
    <3>4. Called(name)' \subseteq moved /\ Creating(name)' \subseteq left
      BY <1>7, <1>10, <2>2
    <3>5. left \in SUBSET UserSlots
      BY PendingSlots
    <3> HIDE DEF moved, left
    <3> QED BY <3>3, <3>4, <3>5, PendingSlots, RoomShrinks
  <2> QED BY <2>1, <2>2
<1>13. RoomInv'
  BY <1>11, <1>12 DEF RoomInv, Unreported
<1> QED BY <1>8, <1>13 DEF DuplicateInv

LEMMA ReportedRoom ==
  ASSUME FigureTypeOK, DuplicateInv, NEW r \in Slots, InsertReported(r)
  PROVE  DuplicateInv'
<1> DEFINE body == requests[r].body
           doc == Merged(NoDoc, body)
<1>1. requests[r].op = "upsert" /\ body \in Reports /\ r \in WebhookSlots
  BY RequestParts DEF InsertReported, FigureTypeOK, DuplicateInv, PlaceInv
<1>2. PICK f \in Figures : figures[f] = Unborn /\ Store(f, doc)
  BY DEF InsertReported
<1>3. doc \in Doc
  BY <1>1, MergedType, NoDocType
<1>4. doc.item = body.item /\ doc.name \in {body.name, None}
  BY DEF Merged, NoDoc
<1>5. requests' = [requests EXCEPT ![r] = Idle] /\ Idle.op = "idle"
  BY DEF InsertReported, End, Idle
<1> HIDE DEF body, doc
<1>6. /\ Steady
      /\ \A item : Of(item)' \subseteq Of(item) \cup (IF doc.item = item THEN {f} ELSE {})
      /\ \A name : Called(name)' \subseteq Called(name) \cup (IF doc.name = name THEN {f} ELSE {})
  BY <1>2, <1>3, NewSets
<1>7. PlaceInv' /\ ItemInv'
  BY <1>5, <1>6, TurnedPlace, TurnedItem DEF DuplicateInv
<1>8. \A item : Upserting(item)' \subseteq Upserting(item) \ {r}
  BY <1>5, TurnedSets
<1>9. \A name : Creating(name)' \subseteq Creating(name) \ {r}
  BY <1>5, TurnedSets
<1>10. ASSUME NEW name \in Names, Unreported(name)
       PROVE  Room(Called(name)', Creating(name)', UserSlots)
  <2>1. doc.name # name
    BY <1>1, <1>4, <1>10, ValueAssumption DEF Unreported
  <2> QED BY <1>6, <1>9, <1>10, <2>1, RoomOfName DEF DuplicateInv
<1>11. ASSUME NEW item \in Items
       PROVE  Room(Of(item)', Upserting(item)', WebhookSlots)
  <2>1. CASE doc.item # item
    BY <1>6, <1>8, <2>1, RoomOfItem DEF DuplicateInv
  <2>2. CASE doc.item = item
    <3> DEFINE moved == Of(item) \cup {f}
               left == Upserting(item) \ {r}
    <3>1. r \in Upserting(item)
      BY <1>1, <1>4, <2>2 DEF Upserting, body
    <3>2. Room(Of(item), Upserting(item), WebhookSlots)
      BY DEF DuplicateInv, RoomInv
    <3>3. Room(moved, left, WebhookSlots)
      BY <3>1, <3>2, PendingSlots, RoomMoves
    <3>4. Of(item)' \subseteq moved /\ Upserting(item)' \subseteq left
      BY <1>6, <1>8, <2>2
    <3>5. left \in SUBSET WebhookSlots
      BY PendingSlots
    <3> HIDE DEF moved, left
    <3> QED BY <3>3, <3>4, <3>5, PendingSlots, RoomShrinks
  <2> QED BY <2>1, <2>2
<1>12. RoomInv'
  BY <1>10, <1>11 DEF RoomInv, Unreported
<1> QED BY <1>7, <1>12 DEF DuplicateInv

\* An update names no item and no name, and its copy has the item of the figure.
LEMMA UpdateRoom ==
  ASSUME FigureTypeOK, DuplicateInv, NamesAreCreatedOnly, NEW r \in Slots, UpdateFigure(r)
  PROVE  DuplicateInv'
<1> DEFINE f == requests[r].figure
           copy == requests[r].copy
           body == requests[r].body
           doc == Edited(figures[f], copy, body, Unnamed)
<1>1. /\ requests[r].op = "update" /\ f \in Figures /\ copy \in Doc /\ body \in EditBodies
  BY RequestParts DEF UpdateFigure, FigureTypeOK
<1>2. requests' = [requests EXCEPT ![r] = Idle] /\ Idle.op = "idle"
  BY DEF UpdateFigure, End, Idle
<1>3. CASE f \notin Live
  <2>1. figures' = figures
    BY <1>3 DEF UpdateFigure, Untouched
  <2> QED BY <1>2, <2>1, SameSets, QuietStep
<1>4. CASE f \in Live
  <2>1. body.item = Unnamed /\ body.name = Unnamed
    BY <1>1 DEF NamesAreCreatedOnly
  <2>2. NameAfterScrape(body) = {Unnamed}
    BY <2>1 DEF NameAfterScrape, Given
  <2>3. Store(f, doc)
    BY <1>4, <2>2 DEF UpdateFigure
  <2>4. figures[f] \in Doc
    BY <1>1, <1>4 DEF Live, FigureTypeOK
  <2>5. doc \in Doc
    BY <1>1, <2>2, <2>4, EditedType
  <2>6. copy.item = figures[f].item
    BY <1>1, <1>4 DEF DuplicateInv, ItemInv
  <2>7. doc.item = figures[f].item /\ doc.name = figures[f].name
    BY <2>1, <2>6 DEF Edited, Given, Sent
  <2> HIDE DEF doc, f
  <2>8. Tame(f, doc)
    BY <1>4, <2>5, <2>7 DEF Tame
  <2> QED BY <1>1, <1>2, <2>3, <2>8, TameSets, QuietStep
<1> QED BY <1>3, <1>4

LEMMA KnownItemRoom ==
  ASSUME FigureTypeOK, DuplicateInv, NEW r \in WebhookSlots, NEW report \in Reports,
         ReportKnownItem(r, report)
  PROVE  DuplicateInv'
<1>1. PICK f \in Live : figures[f].item = report.item /\ Store(f, Merged(figures[f], report))
  BY DEF ReportKnownItem
<1> DEFINE doc == Merged(figures[f], report)
<1>2. f \in Figures /\ figures[f] \in Doc
  BY DEF Live, FigureTypeOK
<1>3. doc \in Doc
  BY <1>2, MergedType
<1>4. doc.item = figures[f].item /\ doc.name \in {report.name, figures[f].name}
  BY <1>1 DEF Merged
<1>5. requests' = [requests EXCEPT ![r] = Idle] /\ Idle.op = "idle" /\ r \in Slots
  BY DEF ReportKnownItem, Begin, Idle, Slots
<1> HIDE DEF doc
<1>6. Tame(f, doc)
  BY <1>3, <1>4 DEF Tame, Unreported
<1> QED BY <1>1, <1>2, <1>5, <1>6, TameSets, QuietStep DEF doc

LEMMA DuplicatesNext ==
  ASSUME FigureTypeOK, DuplicateInv, NamesAreCreatedOnly, [Next]_vars
  PROVE  DuplicateInv'
<1>0. Idle.op = "idle"
  BY DEF Idle
<1>1. ASSUME NEW r \in UserSlots, NEW f \in Figures, NEW body \in EditBodies, ReadFigure(r, f, body)
      PROVE  DuplicateInv'
  <2> DEFINE request == [op |-> "update", figure |-> f, copy |-> figures[f], body |-> body]
  <2>1. request.op = "update" /\ request.figure = f /\ request.copy = figures[f]
    OBVIOUS
  <2>2. /\ requests' = [requests EXCEPT ![r] = request] /\ figures' = figures
        /\ r \in Slots /\ f \in Live
    BY <1>1 DEF ReadFigure, Begin, Untouched, Slots
  <2> HIDE DEF request
  <2> QED BY <2>1, <2>2, SameSets, QuietStep
<1>2. ASSUME NEW r \in UserSlots, NEW f \in Figures, FindFigureToDelete(r, f)
      PROVE  DuplicateInv'
  <2> DEFINE request == [op |-> "delete", figure |-> f]
  <2>1. request.op = "delete"
    OBVIOUS
  <2>2. requests' = [requests EXCEPT ![r] = request] /\ figures' = figures /\ r \in Slots
    BY <1>2 DEF FindFigureToDelete, Begin, Untouched, Slots
  <2> HIDE DEF request
  <2> QED BY <2>1, <2>2, SameSets, QuietStep
<1>3. ASSUME NEW r \in Slots, DeleteFigure(r)
      PROVE  DuplicateInv'
  <2>1. requests[r].figure \in Figures
    BY <1>3, RequestParts DEF DeleteFigure, FigureTypeOK
  <2>2. Store(requests[r].figure, Deleted) /\ Tame(requests[r].figure, Deleted)
    BY <1>3 DEF DeleteFigure, Tame
  <2>3. requests' = [requests EXCEPT ![r] = Idle]
    BY <1>3 DEF DeleteFigure, End
  <2> QED BY <1>0, <2>1, <2>2, <2>3, TameSets, QuietStep
<1>4. ASSUME NEW r \in Slots, Abandon(r)
      PROVE  DuplicateInv'
  BY <1>0, <1>4, SameSets, QuietStep DEF Abandon, End, Untouched
<1>5. CASE (\E f \in Figures : SettleWrite(f)) \/ UNCHANGED vars
  <2>1. UNCHANGED <<figures, requests>>
    BY <1>5 DEF SettleWrite, ApplyWrite, FailWrite, vars
  <2> QED BY <2>1 DEF DuplicateInv, PlaceInv, ItemInv, RoomInv, Of, Called, Upserting, Creating,
                      Live, Unreported
<1>6. ASSUME NEW r \in Slots, Finish(r)
      PROVE  DuplicateInv'
  BY <1>3, <1>6, InsertRoom, UpdateRoom, ReportedRoom DEF Finish
<1>7. ASSUME NEW r \in UserSlots, UserRequest(r)
      PROVE  DuplicateInv'
  BY <1>1, <1>2, <1>7, CreateRoom DEF UserRequest
<1> QED BY <1>4, <1>5, <1>6, <1>7, NewItemRoom, KnownItemRoom DEF Next

LEMMA DuplicatesInit == Init => DuplicateInv
<1> SUFFICES ASSUME Init PROVE DuplicateInv
  OBVIOUS
<1>1. \A r \in Slots : requests[r].op = "idle"
  BY DEF Init, Idle
<1>2. Live = {}
  BY DEF Init, Live
<1>3. RoomInv
  <2>1. /\ \A item : Of(item) = {}
        /\ \A name : Called(name) = {}
    BY <1>2 DEF Of, Called
  <2> QED BY <2>1, PendingSlots, RoomOfNone DEF RoomInv
<1> QED BY <1>1, <1>3 DEF DuplicateInv, PlaceInv, ItemInv

\* However many requests and reports come and whatever is deleted in between,
\* an item that is reported has no more figures than there are reports served
\* at a time, and a name no more than there are requests of the user: the
\* search and the insert are two steps, with no unique index behind them.
THEOREM DuplicatesBounded == Spec => []DuplicatesAreBounded
<1>1. CASE NamesAreCreatedOnly
  <2>1. FigureTypeOK /\ DuplicateInv /\ [Next]_vars => DuplicateInv'
    BY <1>1, DuplicatesNext
  <2>2. DuplicateInv => DuplicatesAreBounded
    <3> SUFFICES ASSUME DuplicateInv PROVE DuplicatesAreBounded
      OBVIOUS
    <3>1. ASSUME NEW found, NEW pending, NEW slots, IsFiniteSet(slots), pending \subseteq slots,
                 Room(found, pending, slots)
          PROVE  Cardinality(found) <= Cardinality(slots)
      <4>1. Cardinality(pending) \in Nat /\ Cardinality(slots) \in Nat
        BY <3>1, RoomParts
      <4>2. Cardinality(found) \in Nat
        BY <3>1, FS_CardinalityType DEF Room
      <4> QED BY <3>1, <4>1, <4>2 DEF Room
    <3>2. \A item \in Items : Cardinality(Of(item)) <= Cardinality(WebhookSlots)
      BY <3>1, PendingSlots DEF DuplicateInv, RoomInv
    <3>3. \A name \in Names : Unreported(name) => Cardinality(Called(name)) <= Cardinality(UserSlots)
      BY <3>1, PendingSlots DEF DuplicateInv, RoomInv
    <3> QED BY <3>2, <3>3 DEF DuplicatesAreBounded, Of, Called, Unreported
  <2> QED BY <2>1, <2>2, DuplicatesInit, FiguresTypeCorrect, PTL DEF Spec
<1>2. CASE ~NamesAreCreatedOnly
  <2>1. DuplicatesAreBounded
    BY <1>2 DEF DuplicatesAreBounded
  <2> QED BY <2>1, PTL
<1> QED BY <1>1, <1>2
=============================================================================
