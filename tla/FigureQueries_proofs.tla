------------------------- MODULE FigureQueries_proofs -------------------------
(***************************************************************************)
(* WalksAreExplained, for every collection, every query and every size of  *)
(* a page.                                                                 *)
(*                                                                         *)
(* The argument is about the place that a figure has in what is asked for: *)
(* how many matching figures come before it.  While nothing leaves and     *)
(* nothing moves, places only rise, so a figure that was not seen yet is   *)
(* still on a page to come (NotMissed); while nothing comes and nothing    *)
(* moves, they only fall, so a figure that was seen is on a page already   *)
(* asked for (NotTwice).  The walk may stop since the last count covers    *)
(* all that matches (Counted).  And while nothing is written at all, what  *)
(* was read of the statistics is what could be read now (Quiet).           *)
(***************************************************************************)
EXTENDS FigureQueries, FiniteSetTheorems, TLAPS

Steps == {"idle", "statuses", "total", "groups", "credits", "count", "find", "done"}

Stats == [statuses : [Statuses -> Nat], total : Nat,
          groups : [Values \cup {Unspecified} -> Nat], credits : [Credits -> Nat]]

WalkType ==
  /\ DOMAIN figures \subseteq Ids /\ figures \in [DOMAIN figures -> Docs]
  /\ walk \in [step : Steps, query : {walk.query}, page : Nat \ {0}, pages : Nat,
               seen : [Ids -> Nat]]
  /\ walk.step # "idle" => walk.query \in Queries
  /\ stats \in Stats
  /\ since \subseteq Ids
  /\ writes \in Nat

Matching == Matches(figures, walk.query)

\* What comes before a figure in the order that is asked for, whatever the ties.
Before(store, query, id) ==
  {other \in Matches(store, query) :
     IF query.ascending THEN store[other].key < store[id].key
                        ELSE store[other].key > store[id].key}

Place(store, query, id) == Cardinality(Before(store, query, id))

\* How many figures the pages asked for have.
Passed(page) == (page - 1) * Limit

NotMissed ==
  {"left", "late", "tied"} \cap marks = {} =>
    /\ walk.step \notin {"idle", "done"} =>
         /\ since \subseteq Matching
         /\ \A id \in since : walk.seen[id] > 0
                                \/ Passed(walk.page) <= Place(figures, walk.query, id)
    /\ walk.step = "done" => since \subseteq Seen

Counted ==
  walk.step = "find" /\ "late" \notin marks /\ walk.pages <= walk.page =>
    Cardinality(Matching) <= walk.pages * Limit

NotTwice ==
  {"came", "tied"} \cap marks = {} =>
    \A id \in Ids :
      /\ walk.seen[id] <= 1
      /\ walk.seen[id] = 1 /\ id \in Matching =>
           Place(figures, walk.query, id) < Passed(walk.page)

StatusCount(s) == Cardinality({id \in DOMAIN figures : StatusOf(figures[id]) = s})

GroupCount(v) == Cardinality({id \in Base : Group(figures[id]) = v})

StatsAreTrue ==
  /\ walk.step # "statuses" => \A s \in Statuses : stats.statuses[s] = StatusCount(s)
  /\ walk.step \notin {"statuses", "total"} => stats.total = Cardinality(Base)
  /\ walk.step \notin {"statuses", "total", "groups"} =>
       \A v \in Values \cup {Unspecified} : stats.groups[v] = GroupCount(v)
  /\ walk.step \notin {"statuses", "total", "groups", "credits"} =>
       \A c \in Credits : stats.credits[c] = Cardinality(Unwound(c))

Quiet ==
  marks = {} /\ walk.step # "idle" =>
    since = Matching /\ Seen \subseteq since /\ StatsAreTrue

WalkInv == WalkType /\ NotMissed /\ Counted /\ NotTwice /\ Quiet

-----------------------------------------------------------------------------
\* What matches, and what comes before a figure, are finite sets of figures.
LEMMA MatchesSubset ==
  ASSUME NEW store, NEW query
  PROVE  Matches(store, query) \in SUBSET DOMAIN store
BY DEF Matches

LEMMA FiguresFinite ==
  ASSUME NEW ids \in SUBSET Ids
  PROVE  IsFiniteSet(ids) /\ Cardinality(ids) \in Nat
BY QueryAssumption, FS_Subset, FS_CardinalityType

LEMMA PlaceNat ==
  ASSUME NEW store, DOMAIN store \in SUBSET Ids, NEW query, NEW id
  PROVE  Before(store, query, id) \in SUBSET Ids /\ Place(store, query, id) \in Nat
<1>1. Before(store, query, id) \in SUBSET Ids
  BY MatchesSubset DEF Before
<1>2. QED
  BY <1>1, FiguresFinite DEF Place

\* A figure's key is a number.
LEMMA KeyNat ==
  ASSUME NEW store, store \in [DOMAIN store -> Docs], NEW id \in DOMAIN store
  PROVE  store[id].key \in Nat
BY QueryAssumption DEF Doc

\* If all that matches one still matches the other, with the same key, then no
\* place is lower in the other.
LEMMA PlacesRise ==
  ASSUME NEW one, NEW two, DOMAIN one \in SUBSET Ids, DOMAIN two \in SUBSET Ids, NEW query,
         Matches(one, query) \subseteq Matches(two, query),
         \A id \in Matches(one, query) : one[id].key = two[id].key,
         NEW id \in Matches(one, query)
  PROVE  Place(one, query, id) <= Place(two, query, id)
<1>1. Before(one, query, id) \in SUBSET Before(two, query, id)
  BY DEF Before
<1>2. IsFiniteSet(Before(two, query, id))
  BY PlaceNat, FiguresFinite
<1>3. QED
  BY <1>1, <1>2, FS_Subset DEF Place

\* Nothing that matches has as many before it as match.
LEMMA PlaceBelowTotal ==
  ASSUME NEW store, DOMAIN store \in SUBSET Ids, store \in [DOMAIN store -> Docs], NEW query,
         NEW id \in Matches(store, query)
  PROVE  Place(store, query, id) < Cardinality(Matches(store, query))
<1> DEFINE total == Matches(store, query)  before == Before(store, query, id)
<1>1. total \in SUBSET Ids
  BY MatchesSubset
<1>2. IsFiniteSet(total) /\ Cardinality(total) \in Nat
  BY <1>1, FiguresFinite
<1>3. store[id].key \in Nat
  BY MatchesSubset, KeyNat
<1>4. before \in SUBSET total /\ id \notin before
  BY <1>3 DEF Before
<1>5. Cardinality(before) <= Cardinality(total) /\ Cardinality(before) # Cardinality(total)
  BY <1>2, <1>4, FS_Subset
<1>6. Cardinality(before) \in Nat
  BY <1>1, <1>4, FiguresFinite
<1>7. QED
  BY <1>2, <1>5, <1>6 DEF Place

-----------------------------------------------------------------------------
\* Without ties the sort puts each figure where its place says.
LEMMA SortedPlaces ==
  ASSUME WalkType, NEW query, NEW ids, ids = Matches(figures, query), ~Tied(ids),
         NEW order \in Sorted(ids, query)
  PROVE  /\ \A i \in 1 .. Cardinality(ids) :
              order[i] \in ids /\ Place(figures, query, order[i]) = i - 1
         /\ \A id \in ids : \E i \in 1 .. Cardinality(ids) : order[i] = id
<1> DEFINE n == Cardinality(ids)
<1>1. ids \in SUBSET DOMAIN figures /\ DOMAIN figures \in SUBSET Ids
  BY MatchesSubset DEF WalkType
<1>2. IsFiniteSet(ids) /\ n \in Nat
  BY <1>1, FiguresFinite
<1>3. \A id \in ids : figures[id].key \in Nat
  BY <1>1, KeyNat DEF WalkType
<1>4. order \in [1 .. n -> ids] /\ DOMAIN order = 1 .. n
  BY DEF Sorted
<1>5. \A i, j \in 1 .. n : i < j => order[i] # order[j]
  BY <1>4 DEF Sorted
<1>6. order \in Injection(1 .. n, ids)
  BY <1>2, <1>4, <1>5 DEF Injection, IsInjective
<1>7. order \in Surjection(1 .. n, ids)
  <2>1. IsFiniteSet(1 .. n) /\ Cardinality(1 .. n) = n
    BY <1>2, FS_Interval
  <2>2. QED
    BY <1>2, <1>6, <2>1, FS_Injection
<1>8. ASSUME NEW i \in 1 .. n
      PROVE  Place(figures, query, order[i]) = i - 1
  <2> DEFINE before == Before(figures, query, order[i])
             head == [j \in 1 .. i - 1 |-> order[j]]
  <2>1. \A j \in 1 .. n : order[j] \in before <=> j < i
    <3>1. ASSUME NEW j \in 1 .. n, j < i
          PROVE  order[j] \in before
      <4>1. order[i] \in ids /\ order[j] \in ids /\ order[j] # order[i]
        BY <1>4, <1>5, <3>1
      <4>2. figures[order[j]].key # figures[order[i]].key
        BY <4>1 DEF Tied
      <4>3. IF query.ascending THEN figures[order[j]].key <= figures[order[i]].key
                               ELSE figures[order[j]].key >= figures[order[i]].key
        BY <1>4, <3>1 DEF Sorted
      <4>4. QED
        BY <1>3, <4>1, <4>2, <4>3 DEF Before
    <3>2. ASSUME NEW j \in 1 .. n, i < j
          PROVE  order[j] \notin before
      <4>1. order[i] \in ids /\ order[j] \in ids
        BY <1>4
      <4>2. IF query.ascending THEN figures[order[i]].key <= figures[order[j]].key
                               ELSE figures[order[i]].key >= figures[order[j]].key
        BY <1>4, <3>2 DEF Sorted
      <4>3. QED
        BY <1>3, <4>1, <4>2 DEF Before
    <3>3. order[i] \notin before
      BY <1>3, <1>4 DEF Before
    <3>4. QED
      BY <1>2, <3>1, <3>2, <3>3
  <2>2. before \in SUBSET ids
    BY DEF Before
  <2>3. head \in Injection(1 .. i - 1, before)
    BY <1>2, <1>4, <1>5, <2>1 DEF Injection, IsInjective
  <2>4. \A id \in before : \E j \in 1 .. i - 1 : head[j] = id
    <3> SUFFICES ASSUME NEW id \in before PROVE \E j \in 1 .. i - 1 : head[j] = id
      OBVIOUS
    <3>1. PICK j \in 1 .. n : order[j] = id
      BY <1>7, <2>2 DEF Surjection
    <3>2. j < i
      BY <2>1, <3>1
    <3>3. j \in 1 .. i - 1
      BY <1>2, <3>2
    <3>4. QED
      BY <3>1, <3>3
  <2>5. head \in Bijection(1 .. i - 1, before)
    BY <2>3, <2>4 DEF Bijection, Surjection, Injection
  <2>6. ExistsBijection(1 .. i - 1, before)
    BY <2>5 DEF ExistsBijection
  <2>7. i - 1 \in Nat
    BY <1>2
  <2>8. Cardinality(before) = i - 1
    <3> HIDE DEF before
    <3>1. QED
      BY <2>6, <2>7, FS_CountingElements
  <2>9. QED
    BY <2>8 DEF Place
<1>9. QED
  BY <1>4, <1>7, <1>8 DEF Surjection

\* A page shows the figures with the places that it stands for.
LEMMA ShownByPlace ==
  ASSUME WalkType, NEW query, NEW ids, ids = Matches(figures, query), ~Tied(ids),
         NEW order \in Sorted(ids, query), NEW page \in Nat \ {0},
         NEW id \in Ids
  PROVE  id \in {order[i] : i \in {j \in DOMAIN order : OnPage(j, page)}}
           <=> /\ id \in ids
               /\ Passed(page) <= Place(figures, query, id)
               /\ Place(figures, query, id) < Passed(page + 1)
<1> DEFINE n == Cardinality(ids)
<1>1. ids \in SUBSET Ids
  BY MatchesSubset DEF WalkType
<1>2. n \in Nat
  BY <1>1, FiguresFinite
<1>3. DOMAIN order = 1 .. n
  BY DEF Sorted
<1>4. Passed(page) \in Nat /\ Passed(page + 1) = page * Limit /\ page * Limit \in Nat
  BY QueryAssumption DEF Passed
<1>5. \A i \in 1 .. n : OnPage(i, page) <=> Passed(page) <= i - 1 /\ i - 1 < Passed(page + 1)
  <2>1. \A i \in 1 .. n : OnPage(i, page) <=> Passed(page) < i /\ i <= Passed(page + 1)
    BY <1>4 DEF OnPage, Passed
  <2>2. QED
    BY <1>2, <1>4, <2>1
<1>6. /\ \A i \in 1 .. n : order[i] \in ids /\ Place(figures, query, order[i]) = i - 1
      /\ \A x \in ids : \E i \in 1 .. n : order[i] = x
  BY SortedPlaces
<1>7. QED
  BY <1>3, <1>5, <1>6

\* The roles of some figures are finite in number, and no fewer than the figures
\* that have one; they are as many when no figure has two.
LEMMA UnwoundFinite ==
  ASSUME WalkType, NEW c \in Credits
  PROVE  IsFiniteSet(Unwound(c)) /\ Cardinality(Unwound(c)) \in Nat
<1> DEFINE roles == [id \in Base |-> {id} \X (1 .. figures[id].credits[c])]
           all == {roles[id] : id \in Base}
<1>1. IsFiniteSet(Base)
  <2>1. Base \in SUBSET Ids
    BY DEF WalkType, Base
  <2>2. QED
    BY <2>1, FiguresFinite
<1>2. \A id \in Base : figures[id].credits[c] \in Nat
  BY QueryAssumption DEF WalkType, Base, Doc
<1>3. \A id \in Base : IsFiniteSet(roles[id])
  <2> TAKE id \in Base
  <2>1. IsFiniteSet({id})
    BY FS_Singleton
  <2>2. IsFiniteSet(1 .. figures[id].credits[c])
    BY <1>2, FS_Interval
  <2>3. QED
    BY <2>1, <2>2, FS_Product
<1>4. roles \in Surjection(Base, all)
  BY DEF Surjection
<1>5. Unwound(c) = UNION all
  BY DEF Unwound
<1>6. \A one \in all : IsFiniteSet(one)
  BY <1>3
<1> HIDE DEF roles, all
<1>7. IsFiniteSet(all)
  BY <1>1, <1>4, FS_Surjection
<1>8. QED
  BY <1>5, <1>6, <1>7, FS_UNION, FS_CardinalityType

LEMMA UnwoundCount ==
  ASSUME WalkType, NEW c \in Credits,
         NEW some, some = {id \in Base : figures[id].credits[c] > 0}
  PROVE  /\ Cardinality(some) <= Cardinality(Unwound(c))
         /\ (\A id \in some : figures[id].credits[c] <= 1) =>
              Cardinality(some) = Cardinality(Unwound(c))
<1> DEFINE first == [id \in some |-> <<id, 1>>]
<1>1. \A id \in Base : figures[id].credits[c] \in Nat
  BY QueryAssumption DEF WalkType, Base, Doc
<1>2. \A id \in some : <<id, 1>> \in Unwound(c)
  <2> SUFFICES ASSUME NEW id \in some PROVE <<id, 1>> \in Unwound(c)
    OBVIOUS
  <2>1. 1 \in 1 .. figures[id].credits[c]
    BY <1>1
  <2>2. <<id, 1>> \in {id} \X (1 .. figures[id].credits[c])
    BY <2>1
  <2>3. QED
    BY <2>2 DEF Unwound
<1>3. first \in Injection(some, Unwound(c))
  BY <1>2 DEF Injection, IsInjective
<1>4. ASSUME \A id \in some : figures[id].credits[c] <= 1
      PROVE  first \in Surjection(some, Unwound(c))
  <2>1. \A role \in Unwound(c) : \E id \in some : first[id] = role
    <3> SUFFICES ASSUME NEW role \in Unwound(c) PROVE \E id \in some : first[id] = role
      OBVIOUS
    <3>1. PICK id \in Base : role \in {id} \X (1 .. figures[id].credits[c])
      BY DEF Unwound
    <3>2. PICK k \in 1 .. figures[id].credits[c] : role = <<id, k>>
      BY <3>1
    <3>3. id \in some /\ k = 1
      BY <1>1, <1>4, <3>2
    <3>4. QED
      BY <3>2, <3>3
  <2>2. QED
    BY <1>3, <2>1 DEF Surjection, Injection
<1> HIDE DEF first
<1>5. QED
  BY <1>3, <1>4, UnwoundFinite, FS_Injection

-----------------------------------------------------------------------------
\* Every write stores figures.
WriteStep ==
  \E store : /\ DOMAIN store \in SUBSET Ids /\ store \in [DOMAIN store -> Docs]
             /\ Write(store)

ReadStep == ReadStatuses \/ ReadTotal \/ ReadGroups \/ ReadCredits

\* The steps of a walk and the writes are all there is.
LEMMA Cases ==
  ASSUME WalkType, Next
  PROVE  \/ \E query \in Queries : StartWalk(query)
         \/ ReadStep
         \/ CountPage
         \/ FindPage
         \/ WriteStep
<1>1. ASSUME NEW id \in Ids, NEW doc \in Docs, InsertFigure(id, doc) \/ UpdateFigure(id, doc)
      PROVE  WriteStep
  <2>1. /\ DOMAIN Put(id, doc) \in SUBSET Ids
        /\ Put(id, doc) \in [DOMAIN Put(id, doc) -> Docs]
    BY DEF Put, WalkType
  <2>2. Write(Put(id, doc))
    BY <1>1 DEF InsertFigure, UpdateFigure
  <2>3. QED
    BY <2>1, <2>2 DEF WriteStep
<1>2. ASSUME NEW id \in Ids, DeleteFigure(id)
      PROVE  WriteStep
  <2> DEFINE store == [i \in DOMAIN figures \ {id} |-> figures[i]]
  <2>1. DOMAIN store \in SUBSET Ids /\ store \in [DOMAIN store -> Docs]
    BY DEF WalkType
  <2>2. Write(store)
    BY <1>2 DEF DeleteFigure
  <2> HIDE DEF store
  <2>3. QED
    BY <2>1, <2>2 DEF WriteStep
<1>3. QED
  BY <1>1, <1>2 DEF Next, ReadStep

LEMMA TypeInit == Init => WalkType
BY QueryAssumption DEF Init, WalkType, Steps, Stats, NoStats

LEMMA PagesNat ==
  ASSUME NEW total \in Nat
  PROVE  Pages(total) \in Nat /\ total <= Pages(total) * Limit
<1> DEFINE top == total + Limit - 1
<1>1. Limit \in Nat /\ Limit > 0 /\ top \in Nat
  BY QueryAssumption
<1>2. top \div Limit \in Nat /\ top % Limit \in 0 .. Limit - 1
      /\ top = Limit * (top \div Limit) + (top % Limit)
  BY <1>1
<1>3. QED
  BY <1>1, <1>2 DEF Pages

\* What a page does that shows some figures.
Shows(shown) ==
  walk' = [step |-> IF walk.page >= walk.pages THEN "done" ELSE "count",
           query |-> walk.query, page |-> walk.page + 1, pages |-> walk.pages,
           seen |-> [id \in Ids |-> IF id \in shown THEN walk.seen[id] + 1 ELSE walk.seen[id]]]

\* A page shows figures that match, and without ties those with its places.
LEMMA FindShows ==
  ASSUME WalkType, FindPage
  PROVE  \E shown \in SUBSET Ids :
           /\ Shows(shown)
           /\ shown \subseteq Matching
           /\ ~Tied(Matching) =>
                \A id \in Ids :
                  id \in shown <=> /\ id \in Matching
                                   /\ Passed(walk.page) <= Place(figures, walk.query, id)
                                   /\ Place(figures, walk.query, id) < Passed(walk.page + 1)
<1> DEFINE On(order) == {order[i] : i \in {j \in DOMAIN order : OnPage(j, walk.page)}}
<1>1. PICK order \in Sorted(Matching, walk.query) :
        walk' = [walk EXCEPT
                   !.seen = [id \in Ids |-> IF id \in On(order) THEN @[id] + 1 ELSE @[id]],
                   !.page = @ + 1,
                   !.step = IF walk.page >= walk.pages THEN "done" ELSE "count"]
  BY DEF FindPage, Matching
<1> DEFINE shown == On(order)
<1>2. shown \in SUBSET Matching
  BY DEF Sorted
<1>3. Matching \in SUBSET Ids
  BY MatchesSubset DEF WalkType, Matching
<1>4. Shows(shown)
  <2> HIDE DEF On
  <2>1. QED
    BY <1>1 DEF WalkType, Shows
<1>5. ASSUME ~Tied(Matching), NEW id \in Ids
      PROVE  id \in shown <=> /\ id \in Matching
                              /\ Passed(walk.page) <= Place(figures, walk.query, id)
                              /\ Place(figures, walk.query, id) < Passed(walk.page + 1)
  <2>1. walk.page \in Nat \ {0}
    BY DEF WalkType
  <2>2. QED
    BY <1>5, <2>1, ShownByPlace DEF Matching
<1> HIDE DEF shown, On
<1>6. shown \in SUBSET Ids
  BY <1>2, <1>3
<1>7. QED
  BY <1>2, <1>4, <1>5, <1>6

LEMMA TypeStep ==
  ASSUME WalkType, [Next]_vars
  PROVE  WalkType'
<1>1. ASSUME NEW query \in Queries, StartWalk(query)
      PROVE  WalkType'
  <2>1. Matches(figures, query) \in SUBSET Ids
    BY MatchesSubset DEF WalkType
  <2>2. QED
    BY <1>1, <2>1 DEF StartWalk, WalkType, Steps
<1>2. CASE ReadStep
  <2>1. CASE ReadStatuses
    <3>1. \A s \in Statuses :
            Cardinality({id \in DOMAIN figures : StatusOf(figures[id]) = s}) \in Nat
      <4> TAKE s \in Statuses
      <4>1. {id \in DOMAIN figures : StatusOf(figures[id]) = s} \in SUBSET Ids
        BY DEF WalkType
      <4>2. QED
        BY <4>1, FiguresFinite
    <3>2. stats' \in Stats
      BY <2>1, <3>1 DEF ReadStatuses, Stats, WalkType
    <3>3. QED
      BY <2>1, <3>2 DEF ReadStatuses, Step, WalkType, Steps
  <2>2. CASE ReadTotal
    <3>1. Base \in SUBSET Ids
      BY DEF WalkType, Base
    <3>2. stats' \in Stats
      BY <2>2, <3>1, FiguresFinite DEF ReadTotal, Stats, WalkType
    <3>3. QED
      BY <2>2, <3>2 DEF ReadTotal, Step, WalkType, Steps
  <2>3. CASE ReadGroups
    <3>1. \A v \in Values \cup {Unspecified} :
            Cardinality({id \in Base : Group(figures[id]) = v}) \in Nat
      <4> TAKE v \in Values \cup {Unspecified}
      <4>1. {id \in Base : Group(figures[id]) = v} \in SUBSET Ids
        BY DEF WalkType, Base
      <4>2. QED
        BY <4>1, FiguresFinite
    <3>2. stats' \in Stats
      BY <2>3, <3>1 DEF ReadGroups, Stats, WalkType
    <3>3. QED
      BY <2>3, <3>2 DEF ReadGroups, Step, WalkType, Steps
  <2>4. CASE ReadCredits
    <3>1. \A c \in Credits : Cardinality(Unwound(c)) \in Nat
      BY UnwoundFinite
    <3>2. stats' \in Stats
      BY <2>4, <3>1 DEF ReadCredits, Stats, WalkType
    <3>3. QED
      BY <2>4, <3>2 DEF ReadCredits, Step, WalkType, Steps
  <2>5. QED
    BY <1>2, <2>1, <2>2, <2>3, <2>4 DEF ReadStep
<1>3. CASE CountPage
  <2>1. Cardinality(Matches(figures, walk.query)) \in Nat
    BY MatchesSubset, FiguresFinite DEF WalkType
  <2>2. QED
    BY <1>3, <2>1, PagesNat DEF CountPage, WalkType, Steps
<1>4. CASE FindPage
  <2>1. PICK shown \in SUBSET Ids : Shows(shown)
    BY <1>4, FindShows
  <2>2. walk' \in [step : Steps, query : {walk.query}, page : Nat \ {0}, pages : Nat,
                   seen : [Ids -> Nat]]
    BY <2>1 DEF Shows, WalkType, Steps
  <2>3. walk'.query = walk.query /\ walk.step = "find"
    BY <1>4, <2>2 DEF FindPage
  <2>4. UNCHANGED <<figures, stats, since, writes>>
    BY <1>4 DEF FindPage
  <2>5. QED
    BY <2>2, <2>3, <2>4 DEF WalkType
<1>5. CASE WriteStep
  BY <1>5 DEF WriteStep, Write, WalkType
<1>6. CASE UNCHANGED vars
  BY <1>6 DEF vars, WalkType
<1>7. QED
  BY <1>1, <1>2, <1>3, <1>4, <1>5, <1>6, Cases

-----------------------------------------------------------------------------
\* What the marks tell of a write: without "left" nothing left or moved, without
\* "came" nothing came or moved.
LEMMA WriteMarks ==
  ASSUME WalkType, WriteStep
  PROVE  /\ walk.step \notin {"idle", "done"} /\ UNCHANGED <<walk, stats, since>>
         /\ "written" \in marks' /\ marks \subseteq marks'
         /\ "left" \notin marks' =>
              /\ Matching \subseteq Matching'
              /\ \A id \in Matching : figures[id].key = figures'[id].key
         /\ "came" \notin marks' =>
              /\ Matching' \subseteq Matching
              /\ \A id \in Matching' : figures'[id].key = figures[id].key
         /\ "late" \notin marks' /\ walk.step = "find" /\ walk.pages <= walk.page =>
              Matching' \subseteq Matching
<1> PICK store : Write(store)
  BY DEF WriteStep
<1> DEFINE before == Matches(figures, walk.query)  after == Matches(store, walk.query)
           moved == {id \in before \cap after : Moved(store, id)}
           came == (after \ before) \cup moved # {}
           left == (before \ after) \cup moved # {}
<1>1. /\ walk.step \notin {"idle", "done"} /\ UNCHANGED <<walk, stats, since>>
      /\ figures' = store
      /\ "written" \in marks' /\ marks \subseteq marks'
      /\ came => "came" \in marks'
      /\ left => "left" \in marks'
      /\ came /\ walk.step = "find" /\ walk.pages <= walk.page => "late" \in marks'
  <2>1. marks' = marks \cup {"written"} \cup (IF came THEN {"came"} ELSE {})
                   \cup (IF left THEN {"left"} ELSE {})
                   \cup (IF came /\ walk.step = "find" /\ walk.page >= walk.pages
                           THEN {"late"} ELSE {})
    BY DEF Write
  <2>2. walk.page >= walk.pages <=> walk.pages <= walk.page
    BY DEF WalkType
  <2> HIDE DEF came, left
  <2>3. QED
    BY <2>1, <2>2 DEF Write
<1>2. Matching = before /\ Matching' = after
  BY <1>1 DEF Matching
<1>3. \A id \in before \cap after : id \notin moved => figures[id].key = store[id].key
  BY MatchesSubset DEF Moved
<1>4. ~left => before \subseteq after /\ \A id \in before : figures[id].key = store[id].key
  BY <1>3
<1>5. ~came => after \subseteq before /\ \A id \in after : store[id].key = figures[id].key
  BY <1>3
<1> HIDE DEF before, after, moved, came, left
<1>6. QED
  BY <1>1, <1>2, <1>4, <1>5

\* Pages are a number of figures.
LEMMA PassedNat ==
  ASSUME NEW page \in Nat \ {0}
  PROVE  /\ Passed(page) \in Nat /\ Passed(page + 1) = Passed(page) + Limit
         /\ Passed(page + 1) = page * Limit
BY QueryAssumption DEF Passed

LEMMA PagesMonotone ==
  ASSUME NEW one \in Nat, NEW two \in Nat, one <= two
  PROVE  one * Limit <= two * Limit
<1>1. PICK more \in Nat : two = one + more
  <2>1. two - one \in Nat /\ two = one + (two - one)
    OBVIOUS
  <2>2. QED
    BY <2>1
<1>2. two * Limit = one * Limit + more * Limit /\ more * Limit \in Nat /\ one * Limit \in Nat
  BY <1>1, QueryAssumption
<1>3. QED
  BY <1>2

LEMMA CountedStep ==
  ASSUME WalkType, WalkType', Counted, [Next]_vars
  PROVE  Counted'
<1> SUFFICES ASSUME walk'.step = "find", "late" \notin marks', walk'.pages <= walk'.page
             PROVE  Cardinality(Matching') <= walk'.pages * Limit
  BY DEF Counted
<1>1. ASSUME NEW query \in Queries, StartWalk(query)
      PROVE  FALSE
  BY <1>1 DEF StartWalk
<1>2. CASE ReadStep
  BY <1>2 DEF ReadStep, ReadStatuses, ReadTotal, ReadGroups, ReadCredits, Step, WalkType
<1>3. CASE CountPage
  <2>1. Matching \in SUBSET Ids
    BY MatchesSubset DEF WalkType, Matching
  <2>2. Cardinality(Matching) <= Pages(Cardinality(Matching)) * Limit
    BY <2>1, FiguresFinite, PagesNat
  <2>3. walk'.pages = Pages(Cardinality(Matching)) /\ walk'.query = walk.query
        /\ figures' = figures
    BY <1>3 DEF CountPage, WalkType, Matching
  <2>4. Matching' = Matching
    BY <2>3 DEF Matching
  <2>5. QED
    BY <2>2, <2>3, <2>4
<1>4. CASE FindPage
  BY <1>4, FindShows DEF Shows
<1>5. CASE WriteStep
  <2>1. walk' = walk /\ "late" \notin marks /\ Matching' \subseteq Matching
    BY <1>5, WriteMarks
  <2>2. Matching \in SUBSET Ids
    BY MatchesSubset DEF WalkType, Matching
  <2>3. Cardinality(Matching') <= Cardinality(Matching)
    BY <2>1, <2>2, FiguresFinite, FS_Subset
  <2>4. Cardinality(Matching) <= walk.pages * Limit
    BY <2>1 DEF Counted
  <2>5. Matching' \in SUBSET Ids
    BY <2>1, <2>2
  <2>6. Cardinality(Matching) \in Nat /\ Cardinality(Matching') \in Nat
        /\ walk.pages * Limit \in Nat
    BY <2>2, <2>5, FiguresFinite, QueryAssumption DEF WalkType
  <2>7. QED
    BY <2>1, <2>3, <2>4, <2>6
<1>6. CASE UNCHANGED vars
  <2>1. UNCHANGED <<figures, walk, marks>>
    BY <1>6 DEF vars
  <2>2. QED
    BY <2>1 DEF Counted, Matching
<1>7. QED
  BY <1>1, <1>2, <1>3, <1>4, <1>5, <1>6, Cases

-----------------------------------------------------------------------------
\* The steps that only read.
LEMMA ReadFrame ==
  ASSUME WalkType, ReadStep
  PROVE  /\ UNCHANGED <<figures, since, marks>>
         /\ walk'.seen = walk.seen /\ walk'.page = walk.page /\ walk'.query = walk.query
         /\ walk.step \notin {"idle", "done"} /\ walk'.step \notin {"idle", "done"}
         /\ Matching' = Matching /\ Seen' = Seen
<1>1. /\ UNCHANGED <<figures, since, marks>>
      /\ walk'.seen = walk.seen /\ walk'.page = walk.page /\ walk'.query = walk.query
      /\ walk.step \notin {"idle", "done"} /\ walk'.step \notin {"idle", "done"}
  BY DEF ReadStep, ReadStatuses, ReadTotal, ReadGroups, ReadCredits, Step, WalkType
<1>2. QED
  BY <1>1 DEF Matching, Seen

LEMMA CountFrame ==
  ASSUME WalkType, CountPage
  PROVE  /\ UNCHANGED <<figures, stats, since, marks>>
         /\ walk'.seen = walk.seen /\ walk'.page = walk.page /\ walk'.query = walk.query
         /\ walk.step = "count" /\ walk'.step \in {"find", "done"}
         /\ walk'.step = "done" =>
              Pages(Cardinality(Matching)) < walk.page /\ 0 < Cardinality(Matching)
         /\ Matching' = Matching /\ Seen' = Seen
<1>1. Cardinality(Matching) \in Nat /\ Pages(Cardinality(Matching)) \in Nat
  BY MatchesSubset, FiguresFinite, PagesNat DEF WalkType, Matching
<1>2. /\ UNCHANGED <<figures, stats, since, marks>>
      /\ walk.step = "count"
      /\ walk' = [walk EXCEPT !.pages = Pages(Cardinality(Matching)),
                    !.step = IF walk.page > Pages(Cardinality(Matching))
                                  /\ Cardinality(Matching) > 0 THEN "done" ELSE "find"]
  BY DEF CountPage, Matching
<1>3. /\ walk'.seen = walk.seen /\ walk'.page = walk.page /\ walk'.query = walk.query
      /\ walk'.step \in {"find", "done"}
      /\ walk'.step = "done" =>
           Pages(Cardinality(Matching)) < walk.page /\ 0 < Cardinality(Matching)
  BY <1>1, <1>2 DEF WalkType
<1>4. QED
  BY <1>2, <1>3 DEF Matching, Seen

\* Nothing that was there all the time is missed.
LEMMA NotMissedStep ==
  ASSUME WalkType, WalkType', NotMissed, Counted, [Next]_vars
  PROVE  NotMissed'
<1> SUFFICES ASSUME {"left", "late", "tied"} \cap marks' = {}
             PROVE  /\ walk'.step \notin {"idle", "done"} =>
                         /\ since' \subseteq Matching'
                         /\ \A id \in since' :
                              walk'.seen[id] > 0
                                \/ Passed(walk'.page) <= Place(figures', walk'.query, id)
                    /\ walk'.step = "done" => since' \subseteq Seen'
  BY DEF NotMissed
<1> DEFINE Ahead(id) == Passed(walk.page) <= Place(figures, walk.query, id)
<1>1. ASSUME NEW query \in Queries, StartWalk(query)
      PROVE  NotMissed'
  <2>1. /\ walk'.step = "statuses" /\ walk'.page = 1 /\ walk'.query = query
        /\ figures' = figures /\ since' = Matches(figures, query)
    BY <1>1 DEF StartWalk
  <2>2. Passed(1) = 0
    BY QueryAssumption DEF Passed
  <2>3. \A id : Place(figures, query, id) \in Nat
    BY PlaceNat DEF WalkType
  <2>4. QED
    BY <2>1, <2>2, <2>3 DEF NotMissed, Matching
<1>2. CASE ReadStep
  BY <1>2, ReadFrame DEF NotMissed
<1>3. CASE CountPage
  <2>1. CASE walk'.step = "find"
    BY <1>3, <2>1, CountFrame DEF NotMissed
  <2>2. CASE walk'.step = "done"
    <3>1. Pages(Cardinality(Matching)) < walk.page /\ UNCHANGED <<figures, since, marks>>
          /\ walk.step = "count" /\ Seen' = Seen
      BY <1>3, <2>2, CountFrame
    <3>2. since \subseteq Matching /\ \A id \in since : walk.seen[id] > 0 \/ Ahead(id)
      BY <3>1 DEF NotMissed
    <3>3. ASSUME NEW id \in since
          PROVE  ~Ahead(id)
      <4>1. Place(figures, walk.query, id) < Cardinality(Matching)
        BY <3>2, PlaceBelowTotal DEF WalkType, Matching
      <4>2. Matching \in SUBSET Ids
        BY MatchesSubset DEF WalkType, Matching
      <4>3. Cardinality(Matching) \in Nat /\ Pages(Cardinality(Matching)) \in Nat
            /\ Cardinality(Matching) <= Pages(Cardinality(Matching)) * Limit
        BY <4>2, FiguresFinite, PagesNat
      <4>4. walk.page \in Nat \ {0} /\ walk.page - 1 \in Nat
            /\ Pages(Cardinality(Matching)) <= walk.page - 1
        BY <3>1, <4>3 DEF WalkType
      <4>5. Pages(Cardinality(Matching)) * Limit <= Passed(walk.page)
        BY <4>3, <4>4, PagesMonotone DEF Passed
      <4>6. Passed(walk.page) \in Nat /\ Pages(Cardinality(Matching)) * Limit \in Nat
            /\ Place(figures, walk.query, id) \in Nat
        BY <4>3, <4>4, PassedNat, PlaceNat, QueryAssumption DEF WalkType
      <4>7. QED
        BY <4>1, <4>3, <4>5, <4>6
    <3>4. since \subseteq Seen
      BY <3>2, <3>3 DEF Seen, WalkType
    <3>5. QED
      BY <2>2, <3>1, <3>4
  <2>3. QED
    BY <1>3, <2>1, <2>2, CountFrame
<1>4. CASE FindPage
  <2>1. PICK shown \in SUBSET Ids :
          /\ Shows(shown)
          /\ shown \subseteq Matching
          /\ ~Tied(Matching) =>
               \A id \in Ids :
                 id \in shown <=> /\ id \in Matching
                                  /\ Passed(walk.page) <= Place(figures, walk.query, id)
                                  /\ Place(figures, walk.query, id) < Passed(walk.page + 1)
    BY <1>4, FindShows
  <2>2. ~Tied(Matching) /\ marks' = marks /\ walk.step = "find"
        /\ UNCHANGED <<figures, since>>
    BY <1>4 DEF FindPage, Matching
  <2>3. since \subseteq Matching /\ \A id \in since : walk.seen[id] > 0 \/ Ahead(id)
    BY <2>2 DEF NotMissed
  <2>4. walk'.page = walk.page + 1 /\ walk'.query = walk.query
        /\ walk'.step = (IF walk.page >= walk.pages THEN "done" ELSE "count")
        /\ walk'.seen = [id \in Ids |-> IF id \in shown THEN walk.seen[id] + 1
                                                        ELSE walk.seen[id]]
    BY <2>1 DEF Shows
  <2>5. Matching' = Matching
    BY <2>2, <2>4 DEF Matching
  <2>6. Matching \in SUBSET Ids
    BY MatchesSubset DEF WalkType, Matching
  <2>7. ASSUME NEW id \in since
        PROVE  walk'.seen[id] > 0 \/ Passed(walk.page + 1) <= Place(figures, walk.query, id)
    <3>1. id \in Ids /\ id \in Matching /\ walk.seen[id] \in Nat
      BY <2>3, <2>6 DEF WalkType
    <3>2. Place(figures, walk.query, id) \in Nat /\ Passed(walk.page + 1) \in Nat
      BY PlaceNat, PassedNat, QueryAssumption DEF WalkType
    <3>3. CASE walk.seen[id] > 0
      BY <2>4, <3>1, <3>3
    <3>4. CASE Ahead(id) /\ Place(figures, walk.query, id) < Passed(walk.page + 1)
      <4>1. id \in shown
        BY <2>1, <2>2, <3>1, <3>4
      <4>2. QED
        BY <2>4, <3>1, <4>1
    <3>5. QED
      BY <2>3, <3>2, <3>3, <3>4
  <2>8. CASE walk.page < walk.pages
    <3>1. walk'.step = "count"
      BY <2>4, <2>8 DEF WalkType
    <3>2. QED
      BY <2>2, <2>3, <2>4, <2>5, <2>7, <3>1
  <2>9. CASE walk.pages <= walk.page
    <3>1. walk'.step = "done"
      BY <2>4, <2>9 DEF WalkType
    <3>2. ASSUME NEW id \in since
          PROVE  walk'.seen[id] > 0
      <4>1. Place(figures, walk.query, id) < Cardinality(Matching)
        BY <2>3, PlaceBelowTotal DEF WalkType, Matching
      <4>2. Cardinality(Matching) <= walk.pages * Limit
        BY <2>2, <2>9 DEF Counted
      <4>3. walk.pages * Limit <= walk.page * Limit
        BY <2>9, PagesMonotone DEF WalkType
      <4>4. Passed(walk.page + 1) = walk.page * Limit
        BY PassedNat DEF WalkType
      <4>5. Cardinality(Matching) \in Nat /\ walk.pages * Limit \in Nat
            /\ walk.page * Limit \in Nat /\ Place(figures, walk.query, id) \in Nat
        BY <2>6, FiguresFinite, PlaceNat, QueryAssumption DEF WalkType
      <4>6. Place(figures, walk.query, id) < Passed(walk.page + 1)
        BY <4>1, <4>2, <4>3, <4>4, <4>5
      <4>7. QED
        BY <2>7, <4>4, <4>5, <4>6
    <3>3. since' \subseteq Seen'
      BY <2>2, <2>3, <2>6, <3>2 DEF Seen
    <3>4. QED
      BY <3>1, <3>3
  <2>10. QED
    BY <2>8, <2>9 DEF WalkType
<1>5. CASE WriteStep
  <2>1. /\ walk.step \notin {"idle", "done"} /\ UNCHANGED <<walk, since>>
        /\ {"left", "late", "tied"} \cap marks = {}
        /\ Matching \subseteq Matching'
        /\ \A id \in Matching : figures[id].key = figures'[id].key
    BY <1>5, WriteMarks
  <2>2. since \subseteq Matching /\ \A id \in since : walk.seen[id] > 0 \/ Ahead(id)
    BY <2>1 DEF NotMissed
  <2>3. Matching' = Matches(figures', walk.query)
    BY <2>1 DEF Matching
  <2>4. \A id \in Matching :
          Place(figures, walk.query, id) <= Place(figures', walk.query, id)
    BY <2>1, <2>3, PlacesRise DEF Matching, WalkType
  <2>5. /\ Passed(walk.page) \in Nat
        /\ \A id : /\ Place(figures, walk.query, id) \in Nat
                   /\ Place(figures', walk.query, id) \in Nat
    BY PassedNat, PlaceNat DEF WalkType
  <2>6. QED
    BY <2>1, <2>2, <2>4, <2>5
<1>6. CASE UNCHANGED vars
  <2>1. UNCHANGED <<figures, walk, since, marks>>
    BY <1>6 DEF vars
  <2>2. QED
    BY <2>1 DEF NotMissed, Matching, Seen
<1>7. QED
  BY <1>1, <1>2, <1>3, <1>4, <1>5, <1>6, Cases DEF NotMissed

\* Nothing is seen twice.
LEMMA NotTwiceStep ==
  ASSUME WalkType, WalkType', NotTwice, [Next]_vars
  PROVE  NotTwice'
<1> SUFFICES ASSUME {"came", "tied"} \cap marks' = {}, NEW id \in Ids
             PROVE  /\ walk'.seen[id] <= 1
                    /\ walk'.seen[id] = 1 /\ id \in Matching' =>
                         Place(figures', walk'.query, id) < Passed(walk'.page)
  BY DEF NotTwice
<1> DEFINE Behind == Place(figures, walk.query, id) < Passed(walk.page)
<1>1. ASSUME NEW query \in Queries, StartWalk(query)
      PROVE  walk'.seen[id] = 0
  BY <1>1 DEF StartWalk
<1>2. CASE ReadStep
  BY <1>2, ReadFrame DEF NotTwice
<1>3. CASE CountPage
  BY <1>3, CountFrame DEF NotTwice
<1>4. CASE FindPage
  <2>1. PICK shown \in SUBSET Ids :
          /\ Shows(shown)
          /\ shown \subseteq Matching
          /\ ~Tied(Matching) =>
               (id \in shown <=> /\ id \in Matching
                                 /\ Passed(walk.page) <= Place(figures, walk.query, id)
                                 /\ Place(figures, walk.query, id) < Passed(walk.page + 1))
    BY <1>4, FindShows
  <2>2. ~Tied(Matching) /\ marks' = marks /\ UNCHANGED figures
    BY <1>4 DEF FindPage, Matching
  <2>3. walk.seen[id] <= 1 /\ (walk.seen[id] = 1 /\ id \in Matching => Behind)
    BY <2>2 DEF NotTwice
  <2>4. walk'.page = walk.page + 1 /\ walk'.query = walk.query
        /\ walk'.seen[id] = (IF id \in shown THEN walk.seen[id] + 1 ELSE walk.seen[id])
    BY <2>1 DEF Shows
  <2>5. Matching' = Matching
    BY <2>2, <2>4 DEF Matching
  <2>6. /\ Passed(walk.page) \in Nat /\ Passed(walk.page + 1) \in Nat
        /\ Passed(walk.page) < Passed(walk.page + 1)
        /\ Place(figures, walk.query, id) \in Nat /\ walk.seen[id] \in Nat
    BY PassedNat, PlaceNat, QueryAssumption DEF WalkType
  <2>7. CASE id \in shown
    BY <2>1, <2>2, <2>3, <2>4, <2>5, <2>6, <2>7
  <2>8. CASE id \notin shown
    BY <2>2, <2>3, <2>4, <2>5, <2>6, <2>8
  <2>9. QED
    BY <2>7, <2>8
<1>5. CASE WriteStep
  <2>1. /\ walk' = walk /\ {"came", "tied"} \cap marks = {}
        /\ Matching' \subseteq Matching
        /\ \A other \in Matching' : figures'[other].key = figures[other].key
    BY <1>5, WriteMarks
  <2>2. walk.seen[id] <= 1 /\ (walk.seen[id] = 1 /\ id \in Matching => Behind)
    BY <2>1 DEF NotTwice
  <2>3. Matching' = Matches(figures', walk.query)
    BY <2>1 DEF Matching
  <2>4. id \in Matching' =>
          Place(figures', walk.query, id) <= Place(figures, walk.query, id)
    BY <2>1, <2>3, PlacesRise DEF Matching, WalkType
  <2>5. Passed(walk.page) \in Nat /\ Place(figures, walk.query, id) \in Nat
        /\ Place(figures', walk.query, id) \in Nat
    BY PassedNat, PlaceNat DEF WalkType
  <2>6. QED
    BY <2>1, <2>2, <2>4, <2>5
<1>6. CASE UNCHANGED vars
  <2>1. UNCHANGED <<figures, walk, marks>>
    BY <1>6 DEF vars
  <2>2. QED
    BY <2>1 DEF NotTwice, Matching
<1>7. QED
  BY <1>1, <1>2, <1>3, <1>4, <1>5, <1>6, Cases

-----------------------------------------------------------------------------
\* What there is to count depends on the figures and on the query.
LEMMA SameCounts ==
  ASSUME UNCHANGED figures, walk'.query = walk.query
  PROVE  /\ Base' = Base
         /\ \A s \in Statuses : StatusCount(s)' = StatusCount(s)
         /\ \A v \in Values \cup {Unspecified} : GroupCount(v)' = GroupCount(v)
         /\ \A c \in Credits : Unwound(c)' = Unwound(c)
<1>1. Base' = Base
  BY DEF Base
<1>2. QED
  BY <1>1 DEF StatusCount, GroupCount, Unwound

\* Without writes the statistics that were read stay true, and only what matched
\* from the start is seen.
LEMMA QuietStep ==
  ASSUME WalkType, WalkType', Quiet, [Next]_vars
  PROVE  Quiet'
<1> SUFFICES ASSUME marks' = {}, walk'.step # "idle"
             PROVE  since' = Matching' /\ Seen' \subseteq since' /\ StatsAreTrue'
  BY DEF Quiet
<1>1. ASSUME NEW query \in Queries, StartWalk(query)
      PROVE  Quiet'
  <2>1. /\ walk'.step = "statuses" /\ walk'.query = query /\ figures' = figures
        /\ since' = Matches(figures, query) /\ \A id \in Ids : walk'.seen[id] = 0
    BY <1>1 DEF StartWalk
  <2>2. Seen' = {}
    BY <2>1 DEF Seen
  <2>3. QED
    BY <2>1, <2>2 DEF Quiet, Matching, StatsAreTrue
<1>2. CASE ReadStep
  <2>1. /\ UNCHANGED <<figures, since, marks>> /\ walk'.query = walk.query
        /\ walk.step \notin {"idle", "done"} /\ Matching' = Matching /\ Seen' = Seen
    BY <1>2, ReadFrame
  <2>2. since = Matching /\ Seen \subseteq since /\ StatsAreTrue
    BY <2>1 DEF Quiet
  <2>3. /\ Base' = Base
        /\ \A s \in Statuses : StatusCount(s)' = StatusCount(s)
        /\ \A v \in Values \cup {Unspecified} : GroupCount(v)' = GroupCount(v)
        /\ \A c \in Credits : Unwound(c)' = Unwound(c)
    BY <2>1, SameCounts
  <2>4. StatsAreTrue'
    <3>1. CASE ReadStatuses
      <4>1. walk'.step = "total"
        BY <3>1 DEF ReadStatuses, Step, WalkType
      <4>2. \A s \in Statuses : stats'.statuses[s] = StatusCount(s)
        BY <3>1 DEF ReadStatuses, StatusCount, WalkType, Stats
      <4>3. QED
        BY <2>3, <4>1, <4>2 DEF StatsAreTrue
    <3>2. CASE ReadTotal
      <4>1. walk.step = "total" /\ walk'.step = "groups"
        BY <3>2 DEF ReadTotal, Step, WalkType
      <4>2. stats'.total = Cardinality(Base) /\ stats'.statuses = stats.statuses
        BY <3>2 DEF ReadTotal, WalkType, Stats
      <4>3. QED
        BY <2>2, <2>3, <4>1, <4>2 DEF StatsAreTrue
    <3>3. CASE ReadGroups
      <4>1. walk.step = "groups" /\ walk'.step = "credits"
        BY <3>3 DEF ReadGroups, Step, WalkType
      <4>2. /\ stats'.total = stats.total /\ stats'.statuses = stats.statuses
            /\ \A v \in Values \cup {Unspecified} : stats'.groups[v] = GroupCount(v)
        BY <3>3 DEF ReadGroups, GroupCount, WalkType, Stats
      <4>3. QED
        BY <2>2, <2>3, <4>1, <4>2 DEF StatsAreTrue
    <3>4. CASE ReadCredits
      <4>1. walk.step = "credits" /\ walk'.step = "count"
        BY <3>4 DEF ReadCredits, Step, WalkType
      <4>2. /\ stats'.total = stats.total /\ stats'.statuses = stats.statuses
            /\ stats'.groups = stats.groups
            /\ \A c \in Credits : stats'.credits[c] = Cardinality(Unwound(c))
        BY <3>4 DEF ReadCredits, WalkType, Stats
      <4>3. QED
        BY <2>2, <2>3, <4>1, <4>2 DEF StatsAreTrue
    <3>5. QED
      BY <1>2, <3>1, <3>2, <3>3, <3>4 DEF ReadStep
  <2>5. QED
    BY <2>1, <2>2, <2>4
<1>3. CASE CountPage
  <2>1. /\ UNCHANGED <<figures, stats, since, marks>> /\ walk'.query = walk.query
        /\ walk.step = "count" /\ walk'.step \in {"find", "done"}
        /\ Matching' = Matching /\ Seen' = Seen
    BY <1>3, CountFrame
  <2>2. since = Matching /\ Seen \subseteq since /\ StatsAreTrue
    BY <2>1 DEF Quiet
  <2>3. StatsAreTrue'
    BY <2>1, <2>2, SameCounts DEF StatsAreTrue
  <2>4. QED
    BY <2>1, <2>2, <2>3
<1>4. CASE FindPage
  <2>1. PICK shown \in SUBSET Ids : Shows(shown) /\ shown \subseteq Matching
    BY <1>4, FindShows
  <2>2. marks = {} /\ walk.step = "find" /\ UNCHANGED <<figures, stats, since>>
    BY <1>4 DEF FindPage
  <2>3. since = Matching /\ Seen \subseteq since /\ StatsAreTrue
    BY <2>2 DEF Quiet
  <2>4. /\ walk'.query = walk.query /\ walk'.step \in {"count", "done"}
        /\ \A id \in Ids \ shown : walk'.seen[id] = walk.seen[id]
    BY <2>1 DEF Shows
  <2>5. Matching' = Matching
    BY <2>2, <2>4 DEF Matching
  <2>6. Seen' \subseteq Seen \cup shown
    BY <2>4 DEF Seen
  <2>7. StatsAreTrue'
    BY <2>2, <2>3, <2>4, SameCounts DEF StatsAreTrue
  <2>8. QED
    BY <2>1, <2>2, <2>3, <2>5, <2>6, <2>7
<1>5. CASE WriteStep
  BY <1>5, WriteMarks
<1>6. CASE UNCHANGED vars
  <2>1. UNCHANGED <<figures, walk, stats, since, marks>>
    BY <1>6 DEF vars
  <2>2. since = Matching /\ Seen \subseteq since /\ StatsAreTrue
    BY <2>1 DEF Quiet
  <2>3. Matching' = Matching /\ Seen' = Seen
    BY <2>1 DEF Matching, Seen
  <2>4. StatsAreTrue'
    BY <2>1, <2>2, SameCounts DEF StatsAreTrue
  <2>5. QED
    BY <2>1, <2>2, <2>3, <2>4
<1>7. QED
  BY <1>1, <1>2, <1>3, <1>4, <1>5, <1>6, Cases DEF Quiet

-----------------------------------------------------------------------------
\* The statistics keep what they promised to a walk without writes.
LEMMA QuietPromise ==
  ASSUME WalkType, walk.step = "done", Seen = Matching, since = Matching, StatsAreTrue
  PROVE  Promised
<1> DEFINE query == walk.query
<1>1. query \in Query
  BY QueryAssumption DEF WalkType
<1>2. /\ \A s \in Statuses : stats.statuses[s] = StatusCount(s)
      /\ stats.total = Cardinality(Base)
      /\ \A v \in Values \cup {Unspecified} : stats.groups[v] = GroupCount(v)
      /\ \A c \in Credits : stats.credits[c] = Cardinality(Unwound(c))
  BY DEF StatsAreTrue
<1>3. Matching = {id \in Base : Chosen(figures[id], query) /\ Credited(figures[id], query)}
  BY DEF Matching, Matches, Base
<1>4. ASSUME query.values = {}, query.credits = {}
      PROVE  /\ Cardinality(Seen) = stats.total
             /\ query.status # AnyStatus => Cardinality(Seen) = stats.statuses[query.status]
  <2>1. Seen = Base
    BY <1>3, <1>4 DEF Chosen, Credited
  <2>2. ASSUME query.status # AnyStatus
        PROVE  /\ query.status \in Statuses
               /\ Base = {id \in DOMAIN figures : StatusOf(figures[id]) = query.status}
    BY <1>1, <2>2 DEF Query, Base, InStatus
  <2>3. QED
    BY <1>2, <2>1, <2>2 DEF StatusCount
<1>5. ASSUME query.credits = {}, NEW v \in query.values
      PROVE  stats.groups[v] = Cardinality({id \in Seen : Group(figures[id]) = v})
  <2>1. v \in Values \cup {Unspecified}
    BY <1>1 DEF Query
  <2>2. {id \in Seen : Group(figures[id]) = v} = {id \in Base : Group(figures[id]) = v}
    BY <1>3, <1>5 DEF Chosen, Credited
  <2>3. QED
    BY <1>2, <2>1, <2>2 DEF GroupCount
<1>6. ASSUME NEW c \in Credits, query.values = {}, query.credits = {c}
      PROVE  /\ Cardinality(Seen) <= stats.credits[c]
             /\ (\A id \in since : figures[id].credits[c] <= 1) =>
                  Cardinality(Seen) = stats.credits[c]
  <2>1. Seen = {id \in Base : figures[id].credits[c] > 0}
    BY <1>3, <1>6 DEF Chosen, Credited
  <2>2. QED
    BY <1>2, <2>1, UnwoundCount
<1>7. QED
  BY <1>4, <1>5, <1>6 DEF Promised

LEMMA InvInit == Init => WalkInv
<1> SUFFICES ASSUME Init PROVE WalkInv
  OBVIOUS
<1>1. walk.step = "idle" /\ \A id \in Ids : walk.seen[id] = 0
  BY DEF Init
<1>2. QED
  BY <1>1, TypeInit DEF WalkInv, NotMissed, Counted, NotTwice, Quiet

LEMMA InvStep == WalkInv /\ [Next]_vars => WalkInv'
BY TypeStep, NotMissedStep, CountedStep, NotTwiceStep, QuietStep DEF WalkInv

\* The walk, the statistics and what is counted of them have their types.
THEOREM WalkTyped == Spec => []WalkType
<1>1. WalkInv => WalkType
  BY DEF WalkInv
<1>2. QED
  BY <1>1, InvInit, InvStep, PTL DEF Spec

\* Whatever the collection, the query and the writes: what a client misses or
\* sees twice is explained by one of them, and without writes the statistics
\* promised what the pages show.
THEOREM WalksExplained == Spec => []WalksAreExplained
<1>1. WalkInv => WalksAreExplained
  <2> SUFFICES ASSUME WalkInv, walk.step = "done", "tied" \notin marks
               PROVE  /\ {"left", "late"} \cap marks = {} => since \subseteq Seen
                      /\ "came" \notin marks => \A id \in Ids : walk.seen[id] <= 1
                      /\ marks = {} => Seen = since /\ Promised
    BY DEF WalksAreExplained
  <2>1. {"left", "late"} \cap marks = {} => since \subseteq Seen
    BY DEF WalkInv, NotMissed
  <2>2. "came" \notin marks => \A id \in Ids : walk.seen[id] <= 1
    BY DEF WalkInv, NotTwice
  <2>3. marks = {} => Seen = since /\ Promised
    <3>1. marks = {} => since = Matching /\ Seen \subseteq since /\ StatsAreTrue
      BY DEF WalkInv, Quiet
    <3>2. QED
      BY <2>1, <3>1, QuietPromise DEF WalkInv
  <2>4. QED
    BY <2>1, <2>2, <2>3
<1>2. QED
  BY <1>1, InvInit, InvStep, PTL DEF Spec
=============================================================================
