---------------------------- MODULE FigureQueries -----------------------------
(***************************************************************************)
(* A client that looks at a collection: the statistics of the dashboard    *)
(* (statsController.ts), and then, page by page, the figures of a status,  *)
(* with chosen values and credits (getFigures and filterFigures of         *)
(* figureController.ts).  Each of these requests is several queries, one   *)
(* after the other, and figures are written in between.                    *)
(*                                                                         *)
(* Of a figure: key is the field that is sorted by; value stands for       *)
(* scale, origin, category and classification, which are filtered and      *)
(* counted alike; credits for the distributors, sculptors or illustrators  *)
(* among its roles: how many of them have a name.  The filters of          *)
(* manufacturer and tags are left out, and so is the case of letters,      *)
(* which no query tells apart.                                             *)
(***************************************************************************)
EXTENDS Naturals, FiniteSets

CONSTANTS
  Ids,           (* The figures there may be.                              *)
  Statuses,
  Owned,         (* The status of a figure without one.                    *)
  AnyStatus,     (* No status is asked for.                                *)
  Values,
  Unspecified,   (* "__unspecified__".                                     *)
  Missing,       (* A field that is not there.                             *)
  Empty,         (* ''.                                                    *)
  Credits,
  Docs,          (* The figures that are written.                          *)
  Queries,       (* What the client asks for.                              *)
  Limit,         (* Figures on a page.                                     *)
  MaxWrites      (* Bound: writes.                                         *)

\* A missing key is sorted as 0.
Doc == [key : Nat, status : Statuses \cup {Missing}, value : Values \cup {Missing, Empty},
        credits : [Credits -> Nat]]

Query == [status : Statuses \cup {AnyStatus}, values : SUBSET (Values \cup {Unspecified}),
          credits : SUBSET Credits, ascending : BOOLEAN]

ASSUME QueryAssumption ==
  /\ IsFiniteSet(Ids)
  /\ Owned \in Statuses /\ AnyStatus \notin Statuses
  /\ Missing # Empty /\ {Missing, Empty} \cap (Statuses \cup Values) = {}
  /\ Unspecified \notin Values
  /\ Docs \subseteq Doc /\ Queries \subseteq Query
  /\ Limit \in Nat \ {0} /\ MaxWrites \in Nat

VARIABLES
  figures,     (* The figures that are stored.                             *)
  walk,        (* Where the client is, and how often it has seen each.     *)
  stats,       (* The statistics it has read.                              *)
  since,       (* What matched when it began.                              *)
  marks,       (* What has happened to the figures meanwhile.              *)
  writes       (* Writes so far.                                           *)

vars == <<figures, walk, stats, since, marks, writes>>

-----------------------------------------------------------------------------
StatusOf(doc) == IF doc.status = Missing THEN Owned ELSE doc.status

InStatus(doc, query) == query.status = AnyStatus \/ StatusOf(doc) = query.status

Group(doc) == IF doc.value \in {Missing, Empty} THEN Unspecified ELSE doc.value

\* One of the values that are chosen, unless none is; and so with credits.
Chosen(doc, query) == query.values = {} \/ Group(doc) \in query.values

Credited(doc, query) == query.credits = {} \/ \E c \in query.credits : doc.credits[c] > 0

Matches(store, query) ==
  {id \in DOMAIN store : InStatus(store[id], query) /\ Chosen(store[id], query)
                                                    /\ Credited(store[id], query)}

\* Keys that are the same come in any order, another with every query.
Sorted(ids, query) ==
  {order \in [1 .. Cardinality(ids) -> ids] :
     \A i, j \in DOMAIN order : i < j =>
       /\ order[i] # order[j]
       /\ IF query.ascending THEN figures[order[i]].key <= figures[order[j]].key
                             ELSE figures[order[i]].key >= figures[order[j]].key}

\* Faulty: a page that is not full is not counted.
FaultyPages(total) == total \div Limit

Pages(total) == (total + Limit - 1) \div Limit

OnPage(i, page) == (page - 1) * Limit < i /\ i <= page * Limit

-----------------------------------------------------------------------------
NoStats == [statuses |-> [s \in Statuses |-> 0], total |-> 0,
            groups |-> [v \in Values \cup {Unspecified} |-> 0], credits |-> [c \in Credits |-> 0]]

\* The client asks for the statistics first.
StartWalk(query) ==
  /\ walk.step = "idle"
  /\ walk' = [step |-> "statuses", query |-> query, page |-> 1, pages |-> 0,
              seen |-> [id \in Ids |-> 0]]
  /\ since' = Matches(figures, query)
  /\ UNCHANGED <<figures, stats, marks, writes>>

Step(from, to) == walk.step = from /\ walk' = [walk EXCEPT !.step = to]

\* All three, whatever is asked for.
ReadStatuses ==
  /\ Step("statuses", "total")
  /\ stats' = [stats EXCEPT !.statuses =
                 [s \in Statuses |-> Cardinality({id \in DOMAIN figures : StatusOf(figures[id]) = s})]]
  /\ UNCHANGED <<figures, since, marks, writes>>

\* The figures of the status, which is all that statistics are asked for.
Base == {id \in DOMAIN figures : InStatus(figures[id], walk.query)}

ReadTotal ==
  /\ Step("total", "groups")
  /\ stats' = [stats EXCEPT !.total = Cardinality(Base)]
  /\ UNCHANGED <<figures, since, marks, writes>>

\* $toLower makes '' of a field that is missing.
ReadGroups ==
  /\ Step("groups", "credits")
  /\ stats' = [stats EXCEPT !.groups =
                 [v \in Values \cup {Unspecified} |->
                    Cardinality({id \in Base : Group(figures[id]) = v})]]
  /\ UNCHANGED <<figures, since, marks, writes>>

\* $unwind makes one of every role: a figure that has a name twice counts twice.
Unwound(c) == UNION {{id} \X (1 .. figures[id].credits[c]) : id \in Base}

ReadCredits ==
  /\ Step("credits", "count")
  /\ stats' = [stats EXCEPT !.credits = [c \in Credits |-> Cardinality(Unwound(c))]]
  /\ UNCHANGED <<figures, since, marks, writes>>

-----------------------------------------------------------------------------
\* A page beyond the last one is refused, and the client gives up.
CountPage ==
  /\ walk.step = "count"
  /\ LET total == Cardinality(Matches(figures, walk.query))
         beyond == walk.page > Pages(total) /\ total > 0
     IN walk' = [walk EXCEPT !.pages = Pages(total), !.step = IF beyond THEN "done" ELSE "find"]
  /\ UNCHANGED <<figures, stats, since, marks, writes>>

Tied(ids) == \E one, other \in ids : one # other /\ figures[one].key = figures[other].key

\* The client goes on until the number of pages it was told.
FindPage ==
  /\ walk.step = "find"
  /\ LET ids == Matches(figures, walk.query) IN
       /\ \E order \in Sorted(ids, walk.query) :
            LET shown == {order[i] : i \in {j \in DOMAIN order : OnPage(j, walk.page)}} IN
              walk' = [walk EXCEPT
                         !.seen = [id \in Ids |-> IF id \in shown THEN @[id] + 1 ELSE @[id]],
                         !.page = @ + 1,
                         !.step = IF walk.page >= walk.pages THEN "done" ELSE "count"]
       /\ marks' = IF Tied(ids) THEN marks \cup {"tied"} ELSE marks
  /\ UNCHANGED <<figures, stats, since, writes>>

-----------------------------------------------------------------------------
Moved(store, id) ==
  id \in DOMAIN figures \cap DOMAIN store /\ figures[id].key # store[id].key

\* A write, and what it does to the walk that is under way.  Init stands for the
\* writes before it.
Write(store) ==
  /\ walk.step \notin {"idle", "done"}
  /\ writes < MaxWrites /\ writes' = writes + 1
  /\ figures' = store
  /\ LET before == Matches(figures, walk.query)
         after == Matches(store, walk.query)
         moved == {id \in before \cap after : Moved(store, id)}
         came == (after \ before) \cup moved # {}
         left == (before \ after) \cup moved # {}
     IN marks' = marks \cup {"written"}
                   \cup (IF came THEN {"came"} ELSE {})
                   \cup (IF left THEN {"left"} ELSE {})
                   \cup (IF came /\ walk.step = "find" /\ walk.page >= walk.pages
                           THEN {"late"} ELSE {})
  /\ UNCHANGED <<walk, stats, since>>

Put(id, doc) == [i \in DOMAIN figures \cup {id} |-> IF i = id THEN doc ELSE figures[i]]

InsertFigure(id, doc) == id \notin DOMAIN figures /\ Write(Put(id, doc))

UpdateFigure(id, doc) == id \in DOMAIN figures /\ Write(Put(id, doc))

DeleteFigure(id) ==
  id \in DOMAIN figures /\ Write([i \in DOMAIN figures \ {id} |-> figures[i]])

Init ==
  /\ \E ids \in SUBSET Ids : figures \in [ids -> Docs]
  /\ walk = [step |-> "idle", query |-> CHOOSE query \in Queries : TRUE, page |-> 1, pages |-> 0,
             seen |-> [id \in Ids |-> 0]]
  /\ stats = NoStats
  /\ since = {} /\ marks = {}
  /\ writes = 0

Next ==
  \/ \E query \in Queries : StartWalk(query)
  \/ ReadStatuses \/ ReadTotal \/ ReadGroups \/ ReadCredits
  \/ CountPage \/ FindPage
  \/ \E id \in Ids, doc \in Docs : InsertFigure(id, doc) \/ UpdateFigure(id, doc)
  \/ \E id \in Ids : DeleteFigure(id)

Spec == Init /\ [][Next]_vars

-----------------------------------------------------------------------------
Seen == {id \in Ids : walk.seen[id] > 0}

\* The statistics promised as many figures as the client has seen, in all or of
\* each value that it chose, but for the names that a figure has twice.
Promised ==
  LET query == walk.query  n == Cardinality(Seen) IN
    /\ query.values = {} /\ query.credits = {} =>
         n = stats.total /\ (query.status # AnyStatus => n = stats.statuses[query.status])
    /\ query.values # {} /\ query.credits = {} =>
         \A v \in query.values :
           stats.groups[v] = Cardinality({id \in Seen : Group(figures[id]) = v})
    /\ \A c \in Credits :
         query.values = {} /\ query.credits = {c} =>
           /\ n <= stats.credits[c]
           /\ (\A id \in since : figures[id].credits[c] <= 1) => n = stats.credits[c]

\* What a client gets that asks for page after page.  If nothing is written it
\* sees each matching figure once, and as many as the statistics said.  A figure
\* that was there all the time is missed only if another left what is asked for
\* or moved in it, or if one came between the count and the find of the last
\* page; one is seen twice only if another came or moved.  All of this holds
\* only while no two keys are the same: the sort has nothing to tell them apart.
WalksAreExplained ==
  walk.step = "done" /\ "tied" \notin marks =>
    /\ {"left", "late"} \cap marks = {} => since \subseteq Seen
    /\ "came" \notin marks => \A id \in Ids : walk.seen[id] <= 1
    /\ marks = {} => Seen = since /\ Promised
=============================================================================
