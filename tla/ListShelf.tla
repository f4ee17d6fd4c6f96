------------------------------- MODULE ListShelf ------------------------------
(***************************************************************************)
(* A user's lists to those who change them, without the stored counts:     *)
(* what is asked for is done at one moment between question and answer, to *)
(* the list that was found and on top of what others have done to it by    *)
(* then, or not at all.  Only the lists of a sync come one by one.         *)
(***************************************************************************)
EXTENDS Naturals, Sequences

CONSTANTS
  Lists,
  Items,
  Unnamed,     (* A field that a body does not name.                       *)
  NewLists,    (* Bodies of lists to create,                               *)
  Puts,        (* of updates,                                              *)
  Syncs,       (* and of syncs.                                            *)
  Slots        (* Requests served at the same time.                        *)

VARIABLES
  shelf,       (* Each list: its id, its name, its members and how often   *)
               (* an update replaced them; Gone when there is none.        *)
  asked,       (* What each slot is still to do.                           *)
  born         (* Lists made so far.                                       *)

shelfVars == <<shelf, asked, born>>

-----------------------------------------------------------------------------
Gone == [gone |-> TRUE]

Nothing == [op |-> "nothing"]

Set(r, request) == asked' = [asked EXCEPT ![r] = request]

Put(l, list) == shelf' = [shelf EXCEPT ![l] = list]

NewList(name, items) == [id |-> born, edits |-> 0, name |-> name, items |-> items]

Create(r, l, body) ==
  /\ asked[r] = Nothing /\ shelf[l] = Gone
  /\ Put(l, NewList(body.name, IF body.items = Unnamed THEN {} ELSE body.items))
  /\ born' = born + 1
  /\ UNCHANGED asked

Ask(r, op, l, change) ==
  /\ asked[r] = Nothing /\ shelf[l] # Gone
  /\ Set(r, [op |-> op, list |-> l, found |-> shelf[l], change |-> change])
  /\ UNCHANGED <<shelf, born>>

AskSync(r, sync) ==
  /\ asked[r] = Nothing
  /\ Set(r, [op |-> "sync", rest |-> sync])
  /\ UNCHANGED <<shelf, born>>

\* To name what was found is to leave the field alone.
Kept(value, found) == value \in {Unnamed, found}

Renamed(request, now) ==
  [now EXCEPT !.name = IF Kept(request.change.name, request.found.name)
                         THEN @ ELSE request.change.name]

\* An update that names other members is refused when another one has replaced
\* those that were found.
Refused(request, now) ==
  /\ request.op = "put"
  /\ ~Kept(request.change.items, request.found.items)
  /\ now.edits # request.found.edits

Updated(request, now) ==
  IF Kept(request.change.items, request.found.items)
    THEN Renamed(request, now)
    ELSE [Renamed(request, now) EXCEPT !.items = request.change.items, !.edits = @ + 1]

After(request, now) ==
  CASE request.op = "add"    -> [now EXCEPT !.items = @ \cup request.change]
    [] request.op = "remove" -> [now EXCEPT !.items = @ \ request.change]
    [] request.op = "put"    -> Updated(request, now)
    [] request.op = "delete" -> Gone

Act(r) ==
  LET request == asked[r]  now == shelf[request.list] IN
    /\ request.op \in {"add", "remove", "put", "delete"}
    /\ now # Gone /\ now.id = request.found.id /\ ~Refused(request, now)
    /\ Put(request.list, After(request, now))
    /\ Set(r, Nothing)
    /\ UNCHANGED born

\* A list of a sync without members keeps those it has.
Replaced(list, entry) ==
  [list EXCEPT !.name = entry.name, !.items = IF entry.items = Unnamed THEN @ ELSE entry.items]

SyncOne(r) ==
  /\ asked[r].op = "sync" /\ asked[r].rest # <<>>
  /\ LET entry == Head(asked[r].rest)  l == entry.list
         list == IF shelf[l] = Gone THEN NewList(entry.name, {}) ELSE shelf[l]
     IN /\ Put(l, Replaced(list, entry))
        /\ born' = IF shelf[l] = Gone THEN born + 1 ELSE born
  /\ Set(r, [op |-> "sync", rest |-> Tail(asked[r].rest)])

\* The sync is through, or what is left is not done.
GiveUp(r) == asked[r] # Nothing /\ Set(r, Nothing) /\ UNCHANGED <<shelf, born>>

-----------------------------------------------------------------------------
ShelfInit ==
  /\ shelf = [l \in Lists |-> Gone]
  /\ asked = [r \in Slots |-> Nothing]
  /\ born = 0

Question(r) ==
  \/ \E l \in Lists, body \in NewLists : Create(r, l, body)
  \/ \E l \in Lists, op \in {"add", "remove"}, items \in SUBSET Items : Ask(r, op, l, items)
  \/ \E l \in Lists, put \in Puts : Ask(r, "put", l, put)
  \/ \E l \in Lists : Ask(r, "delete", l, {})
  \/ \E sync \in Syncs : AskSync(r, sync)

Answer(r) ==
  \/ Act(r)
  \/ SyncOne(r)
  \/ GiveUp(r)

ShelfSpec == ShelfInit /\ [][\E r \in Slots : Question(r) \/ Answer(r)]_shelfVars
=============================================================================
