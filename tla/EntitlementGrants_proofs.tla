----------------------- MODULE EntitlementGrants_proofs -----------------------
(***************************************************************************)
(* Proofs about EntitlementGrants, for every set of subjects and callers   *)
(* and every choice of lifetimes.  A moment is a natural number, and what  *)
(* an answer rests on is followed from the Check through the cache to the  *)
(* caller.                                                                 *)
(***************************************************************************)
EXTENDS EntitlementGrants, FiniteSetTheorems, TLAPS

-----------------------------------------------------------------------------
(***************************************************************************)
(* The cache.                                                              *)
(***************************************************************************)
CacheType ==
  /\ DOMAIN cache \subseteq Subjects
  /\ cache \in [DOMAIN cache -> Entry]

\* What one write leaves: the new entry, and others with their verdicts and
\* lifetimes untouched.
LEMMA CacheSetFacts ==
  ASSUME NEW s \in Subjects, NEW allow \in BOOLEAN, NEW ttl \in Nat,
         NEW nowMs \in Nat, CacheType, CacheSet(s, allow, ttl, nowMs)
  PROVE  /\ CacheType'
         /\ s \in DOMAIN cache'
         /\ cache'[s].allow = allow
         /\ cache'[s].expiresAt = nowMs + ttl
         /\ \A r \in DOMAIN cache' \ {s} :
              /\ r \in DOMAIN cache
              /\ cache'[r].allow = cache[r].allow
              /\ cache'[r].expiresAt = cache[r].expiresAt
<1> DEFINE others == Kept(nowMs) \ {s}
<1>1. others \subseteq DOMAIN cache
  BY DEF Kept
<1> HIDE DEF others
<1>2. cache' = [r \in others \cup {s} |->
        IF r = s THEN [allow |-> allow, expiresAt |-> nowMs + ttl, older |-> others]
        ELSE [cache[r] EXCEPT !.older = @ \cap others]]
  BY DEF CacheSet, others
<1>3. DOMAIN cache' = others \cup {s}
  BY <1>2
<1>4. [allow |-> allow, expiresAt |-> nowMs + ttl, older |-> others] \in Entry
  BY <1>1 DEF CacheType, Entry
<1>5. ASSUME NEW r \in others
      PROVE  /\ cache[r] \in Entry
             /\ [cache[r] EXCEPT !.older = @ \cap others] \in Entry
             /\ [cache[r] EXCEPT !.older = @ \cap others].allow = cache[r].allow
             /\ [cache[r] EXCEPT !.older = @ \cap others].expiresAt = cache[r].expiresAt
  <2>1. cache[r] \in Entry
    BY <1>1, <1>5 DEF CacheType
  <2> QED BY <2>1 DEF Entry
<1>6. \A r \in others \cup {s} : cache'[r] \in Entry
  BY <1>2, <1>4, <1>5
<1>7. cache' \in [DOMAIN cache' -> Entry]
  BY <1>2, <1>3, <1>6
<1>8. CacheType'
  BY <1>1, <1>3, <1>7 DEF CacheType
<1> QED BY <1>1, <1>2, <1>3, <1>5, <1>8

-----------------------------------------------------------------------------
(***************************************************************************)
(* Types.                                                                  *)
(***************************************************************************)
LEMMA InitTypeOK == Init => TypeOK
BY SubjectsAssumption, NeverAssumption DEF Init, GraphInit, TypeOK

LEMMA TellType ==
  ASSUME TypeOK, NEW c \in Callers, NEW s \in Subjects, NEW grant \in BOOLEAN,
         Tell(c, s, grant)
  PROVE  requests' \in [Callers -> Request \cup {NoRequest}]
BY DEF Tell, Request, TypeOK

LEMMA WaitType ==
  ASSUME TypeOK, NEW c \in Callers, NEW s \in Subjects, Wait(c, s)
  PROVE  requests' \in [Callers -> Request \cup {NoRequest}]
BY DEF Wait, Request, TypeOK

LEMMA WakeType ==
  ASSUME TypeOK, NEW s \in Subjects, NEW grant \in BOOLEAN, Wake(s, grant)
  PROVE  requests' \in [Callers -> Request \cup {NoRequest}]
<1>1. ASSUME NEW c \in Waiting(s)
      PROVE  [requests[c] EXCEPT !.state = "answered", !.grant = grant] \in Request
  <2>1. c \in Callers /\ requests[c] \in Request
    BY <1>1 DEF Waiting, TypeOK
  <2> QED BY <2>1 DEF Request
<1> QED BY <1>1 DEF Wake, TypeOK

LEMMA EndCheckType ==
  ASSUME TypeOK, NEW s \in Subjects, EndCheck(s)
  PROVE  /\ DOMAIN inflight' \subseteq WellFormed
         /\ inflight' \in [DOMAIN inflight' -> Check]
BY DEF EndCheck, TypeOK

LEMMA NextTypeOK == TypeOK /\ [Next]_vars => TypeOK'
<1> SUFFICES ASSUME TypeOK, [Next]_vars
             PROVE  TypeOK'
  OBVIOUS
<1> USE SubjectsAssumption, DurationsAssumption
<1>1. CASE UNCHANGED vars
  BY <1>1 DEF TypeOK, vars, graph
<1>2. ASSUME NEW c \in Callers, NEW s \in Subjects, RejectSubject(c, s)
      PROVE  TypeOK'
  BY <1>2, TellType DEF RejectSubject, TypeOK, graph
<1>3. ASSUME NEW c \in Callers, NEW s \in Subjects, AnswerFromCache(c, s)
      PROVE  TypeOK'
  <2>1. cache[s].allow \in BOOLEAN
    BY <1>3 DEF AnswerFromCache, Hit, TypeOK, Entry
  <2> QED BY <1>3, <2>1, TellType DEF AnswerFromCache, TypeOK, graph
<1>4. ASSUME NEW c \in Callers, NEW s \in Subjects, Coalesce(c, s)
      PROVE  TypeOK'
  BY <1>4, WaitType DEF Coalesce, TypeOK, graph
<1>5. ASSUME NEW c \in Callers, NEW s \in Subjects, StartCheck(c, s)
      PROVE  TypeOK'
  <2>1. [asked |-> now, verdict |-> "open"] \in Check
    BY DEF TypeOK, Check
  <2>2. /\ DOMAIN inflight' \subseteq WellFormed
        /\ inflight' \in [DOMAIN inflight' -> Check]
    BY <1>5, <2>1 DEF StartCheck, TypeOK
  <2> QED BY <1>5, <2>2, WaitType DEF StartCheck, TypeOK, graph
<1>6. ASSUME NEW s \in Subjects, Decide(s)
      PROVE  TypeOK'
  <2>1. /\ DOMAIN inflight' \subseteq WellFormed
        /\ inflight' \in [DOMAIN inflight' -> Check]
    BY <1>6 DEF Decide, TypeOK, Check
  <2> QED BY <1>6, <2>1 DEF Decide, TypeOK, graph
<1>7. ASSUME NEW s \in Subjects, ReceiveVerdict(s)
      PROVE  TypeOK'
  <2> DEFINE allow == inflight[s].verdict = "allow"
  <2>1. inflight[s].asked \in Nat /\ allow \in BOOLEAN
    BY <1>7 DEF ReceiveVerdict, TypeOK, Check
  <2>2. CacheSet(s, allow, CacheTtl, inflight[s].asked) /\ Wake(s, allow)
    BY <1>7 DEF ReceiveVerdict
  <2> HIDE DEF allow
  <2>3. CacheType'
    BY <2>1, <2>2, CacheSetFacts DEF CacheType, TypeOK
  <2> QED BY <1>7, <2>1, <2>2, <2>3, WakeType, EndCheckType
          DEF ReceiveVerdict, CacheType, TypeOK, graph
<1>8. ASSUME NEW s \in Subjects, FailCheck(s)
      PROVE  TypeOK'
  <2>1. inflight[s].asked \in Nat
    BY <1>8 DEF FailCheck, TypeOK, Check
  <2>2. CacheType'
    BY <1>8, <2>1, CacheSetFacts DEF FailCheck, CacheType, TypeOK
  <2>3. lastFailed' \in [Subjects -> Int]
    BY <1>8 DEF FailCheck, TypeOK
  <2> QED BY <1>8, <2>2, <2>3, WakeType, EndCheckType DEF FailCheck, CacheType, TypeOK, graph
<1>9. ASSUME NEW c \in Callers, Leave(c)
      PROVE  TypeOK'
  BY <1>9 DEF Leave, TypeOK, graph
<1>10. ASSUME NEW s \in WellFormed, Grant(s) \/ Revoke(s),
              UNCHANGED <<cache, inflight, requests, lastFailed>>
       PROVE  TypeOK'
  BY <1>10 DEF Grant, Revoke, TypeOK
<1>11. CASE Tick
  BY <1>11 DEF Tick, PassTime, TypeOK
<1> QED BY <1>1, <1>2, <1>3, <1>4, <1>5, <1>6, <1>7, <1>8, <1>9, <1>10, <1>11 DEF Next

\* Only well-formed subjects are ever asked about, and the Maps and requests
\* keep their shape.
THEOREM TypeCorrect == Spec => []TypeOK
BY InitTypeOK, NextTypeOK, PTL DEF Spec


-----------------------------------------------------------------------------
(***************************************************************************)
(* What answers rest on.                                                   *)
(***************************************************************************)
\* The marks of the graph: a subject was granted, or was not, no later than
\* now, and is one of the two at this moment.
MarksCurrent ==
  \A s \in Subjects :
    /\ lastGranted[s] <= now /\ lastRefused[s] <= now
    /\ s \in granted => lastGranted[s] = now
    /\ s \notin granted => lastRefused[s] = now

\* A Check is not older than its timeout; its verdict held at some moment since
\* it was put.
ChecksGrounded ==
  \A s \in DOMAIN inflight :
    /\ inflight[s].asked <= now /\ now <= inflight[s].asked + Timeout
    /\ inflight[s].verdict = "allow" => inflight[s].asked <= lastGranted[s]
    /\ inflight[s].verdict = "refuse" => inflight[s].asked <= lastRefused[s]

\* A cached entry expires before its ground is older than its TTL.
EntriesGrounded ==
  \A s \in DOMAIN cache :
    IF cache[s].allow
      THEN cache[s].expiresAt <= lastGranted[s] + CacheTtl
      ELSE \/ cache[s].expiresAt <= lastRefused[s] + CacheTtl
           \/ cache[s].expiresAt <= lastFailed[s] + ErrorTtl

\* Who waits joined a Check that is still under way.
WaitersJoined ==
  \A c \in Callers :
    requests[c] # NoRequest /\ requests[c].state = "waiting" =>
      /\ requests[c].sub \in DOMAIN inflight
      /\ inflight[requests[c].sub].asked <= requests[c].at
      /\ requests[c].at <= now

Staleness == MaxOf(CacheTtl, Timeout + 1)

\* A caller that was told yes asked about a subject that had the grant.
YesGrounded ==
  \A c \in Callers :
    Answered(c) /\ requests[c].grant =>
      requests[c].at < lastGranted[requests[c].sub] + Staleness

GroundInv ==
  /\ TypeOK
  /\ MarksCurrent
  /\ ChecksGrounded
  /\ EntriesGrounded
  /\ WaitersJoined
  /\ YesGrounded

LEMMA StalenessFacts == /\ Staleness \in Nat
                        /\ CacheTtl <= Staleness
                        /\ Timeout + 1 <= Staleness
BY DurationsAssumption DEF Staleness, MaxOf

LEMMA InitGround == Init => GroundInv
<1> SUFFICES ASSUME Init
             PROVE  GroundInv
  OBVIOUS
<1>1. TypeOK
  BY InitTypeOK
<1>2. MarksCurrent
  <2>1. now = 0
    BY DEF Init, GraphInit
  <2>2. ASSUME NEW s \in Subjects
        PROVE  /\ lastGranted[s] = IF s \in granted THEN 0 ELSE Never
               /\ lastRefused[s] = IF s \in granted THEN Never ELSE 0
    BY DEF Init, GraphInit
  <2>3. Never \in Int /\ Never <= 0
    BY NeverAssumption
  <2>4. ASSUME NEW s \in Subjects
        PROVE  /\ lastGranted[s] <= 0 /\ lastRefused[s] <= 0
               /\ s \in granted => lastGranted[s] = 0
               /\ s \notin granted => lastRefused[s] = 0
    <3>1. CASE s \in granted
      BY <2>2, <2>3, <3>1
    <3>2. CASE s \notin granted
      BY <2>2, <2>3, <3>2
    <3> QED BY <3>1, <3>2
  <2> QED BY <2>1, <2>4 DEF MarksCurrent
<1>3. ChecksGrounded /\ EntriesGrounded
  BY DEF Init, ChecksGrounded, EntriesGrounded
<1>4. WaitersJoined /\ YesGrounded
  BY DEF Init, WaitersJoined, YesGrounded, Answered
<1> QED BY <1>1, <1>2, <1>3, <1>4 DEF GroundInv

\* Neither the clock nor the graph takes a mark back.
LEMMA MarksGrow ==
  ASSUME TypeOK, TypeOK', MarksCurrent, [Next]_vars
  PROVE  /\ MarksCurrent'
         /\ now <= now'
         /\ \A s \in Subjects : /\ lastGranted[s] <= lastGranted'[s]
                                /\ lastRefused[s] <= lastRefused'[s]
<1>1. CASE UNCHANGED graph
  BY <1>1 DEF graph, TypeOK, MarksCurrent
<1>2. ASSUME NEW s \in WellFormed, Grant(s)
      PROVE  /\ MarksCurrent'
             /\ now <= now'
             /\ \A r \in Subjects : /\ lastGranted[r] <= lastGranted'[r]
                                    /\ lastRefused[r] <= lastRefused'[r]
  BY <1>2 DEF Grant, TypeOK, MarksCurrent
<1>3. ASSUME NEW s \in WellFormed, Revoke(s)
      PROVE  /\ MarksCurrent'
             /\ now <= now'
             /\ \A r \in Subjects : /\ lastGranted[r] <= lastGranted'[r]
                                    /\ lastRefused[r] <= lastRefused'[r]
  BY <1>3 DEF Revoke, TypeOK, MarksCurrent
<1>4. CASE PassTime
  BY <1>4 DEF PassTime, TypeOK, MarksCurrent
<1>5. \/ UNCHANGED graph \/ PassTime
      \/ \E s \in WellFormed : Grant(s) \/ Revoke(s)
  BY DEF Next, vars, RejectSubject, AnswerFromCache, Coalesce, StartCheck, Decide,
         ReceiveVerdict, FailCheck, Leave, Tick
<1> QED BY <1>1, <1>2, <1>3, <1>4, <1>5

\* As long as the Maps and the requests stay, so does what they rest on.
LEMMA GroundKept ==
  ASSUME GroundInv, TypeOK', [Next]_vars, UNCHANGED <<cache, requests, lastFailed>>
  PROVE  EntriesGrounded' /\ YesGrounded'
<1> USE DurationsAssumption, StalenessFacts
<1>1. \A s \in Subjects : /\ lastGranted[s] <= lastGranted'[s]
                          /\ lastRefused[s] <= lastRefused'[s]
  BY MarksGrow DEF GroundInv
<1>2. EntriesGrounded'
  <2> SUFFICES ASSUME NEW s \in DOMAIN cache'
               PROVE  IF cache'[s].allow
                        THEN cache'[s].expiresAt <= lastGranted'[s] + CacheTtl
                        ELSE \/ cache'[s].expiresAt <= lastRefused'[s] + CacheTtl
                             \/ cache'[s].expiresAt <= lastFailed'[s] + ErrorTtl
    BY DEF EntriesGrounded
  <2>1. s \in DOMAIN cache /\ s \in Subjects /\ cache[s] \in Entry /\ cache'[s] = cache[s]
    BY DEF GroundInv, TypeOK
  <2>2. cache[s].expiresAt \in Nat /\ lastGranted[s] \in Int /\ lastRefused[s] \in Int
        /\ lastGranted'[s] \in Int /\ lastRefused'[s] \in Int /\ lastFailed'[s] \in Int
    BY <2>1 DEF GroundInv, TypeOK, Entry
  <2>3. CASE cache[s].allow
    BY <1>1, <2>1, <2>2, <2>3 DEF GroundInv, EntriesGrounded
  <2>4. CASE ~cache[s].allow
    BY <1>1, <2>1, <2>2, <2>4 DEF GroundInv, EntriesGrounded
  <2> QED BY <2>1, <2>3, <2>4
<1>3. YesGrounded'
  <2> SUFFICES ASSUME NEW c \in Callers, Answered(c)', requests'[c].grant
               PROVE  requests'[c].at < lastGranted'[requests'[c].sub] + Staleness
    BY DEF YesGrounded
  <2>1. requests'[c] = requests[c] /\ requests[c] \in Request /\ Answered(c)
    BY DEF GroundInv, TypeOK, Answered
  <2>2. requests[c].sub \in Subjects /\ requests[c].at \in Nat
    BY <2>1 DEF Request
  <2>3. requests[c].at < lastGranted[requests[c].sub] + Staleness
    BY <2>1 DEF GroundInv, YesGrounded
  <2> QED BY <1>1, <2>1, <2>2, <2>3 DEF GroundInv, TypeOK
<1> QED BY <1>2, <1>3

\* Of the in-flight Checks that stay as they are.
LEMMA ChecksKept ==
  ASSUME GroundInv, TypeOK', [Next]_vars,
         \A s \in DOMAIN inflight' : s \in DOMAIN inflight /\ inflight'[s] = inflight[s],
         \A s \in DOMAIN inflight' : now' <= inflight[s].asked + Timeout
  PROVE  ChecksGrounded'
<1> SUFFICES ASSUME NEW s \in DOMAIN inflight'
             PROVE  /\ inflight[s].asked <= now' /\ now' <= inflight[s].asked + Timeout
                    /\ inflight[s].verdict = "allow" => inflight[s].asked <= lastGranted'[s]
                    /\ inflight[s].verdict = "refuse" => inflight[s].asked <= lastRefused'[s]
  BY DEF ChecksGrounded
<1>1. s \in Subjects /\ s \in DOMAIN inflight /\ inflight[s].asked \in Nat
  BY SubjectsAssumption DEF GroundInv, TypeOK, Check
<1>2. /\ now <= now' /\ lastGranted[s] <= lastGranted'[s] /\ lastRefused[s] <= lastRefused'[s]
  BY <1>1, MarksGrow DEF GroundInv
<1>3. /\ now \in Nat /\ now' \in Nat
      /\ lastGranted[s] \in Int /\ lastGranted'[s] \in Int
      /\ lastRefused[s] \in Int /\ lastRefused'[s] \in Int
  BY <1>1 DEF GroundInv, TypeOK
<1>4. /\ inflight[s].asked <= now
      /\ inflight[s].verdict = "allow" => inflight[s].asked <= lastGranted[s]
      /\ inflight[s].verdict = "refuse" => inflight[s].asked <= lastRefused[s]
  BY <1>1 DEF GroundInv, ChecksGrounded
<1> QED BY <1>1, <1>2, <1>3, <1>4

\* Of the callers whose request stays as it is while their Check does.
LEMMA WaitersKept ==
  ASSUME GroundInv, TypeOK', [Next]_vars,
         \A c \in Callers :
           requests'[c] # NoRequest /\ requests'[c].state = "waiting" =>
             /\ requests'[c] = requests[c]
             /\ requests[c].sub \in DOMAIN inflight'
             /\ inflight'[requests[c].sub].asked = inflight[requests[c].sub].asked
  PROVE  WaitersJoined'
<1>1. now <= now' /\ now \in Nat /\ now' \in Nat
  BY MarksGrow DEF GroundInv, TypeOK
<1> SUFFICES ASSUME NEW c \in Callers, requests'[c] # NoRequest, requests'[c].state = "waiting"
             PROVE  /\ requests'[c].sub \in DOMAIN inflight'
                    /\ inflight'[requests'[c].sub].asked <= requests'[c].at
                    /\ requests'[c].at <= now'
  BY DEF WaitersJoined
<1>2. requests'[c] = requests[c] /\ requests[c] \in Request
  BY DEF GroundInv, TypeOK
<1>3. requests[c].at \in Nat
  BY <1>2 DEF Request
<1>4. inflight[requests[c].sub].asked <= requests[c].at /\ requests[c].at <= now
  BY <1>2 DEF GroundInv, WaitersJoined
<1> QED BY <1>1, <1>2, <1>3, <1>4

\* grantsForSubject up to its await.
LEMMA RequestGround ==
  ASSUME GroundInv, TypeOK', [Next]_vars, NEW c \in Callers, NEW s \in Subjects,
         \/ RejectSubject(c, s) \/ AnswerFromCache(c, s)
         \/ Coalesce(c, s) \/ StartCheck(c, s)
  PROVE  GroundInv'
<1>1. now \in Nat /\ MarksCurrent'
  BY MarksGrow DEF GroundInv, TypeOK
<1>2. UNCHANGED <<graph, cache, lastFailed>>
  BY DEF RejectSubject, AnswerFromCache, Coalesce, StartCheck
<1>3. EntriesGrounded'
  BY <1>2 DEF GroundInv, EntriesGrounded, graph
<1>4. ASSUME Tell(c, s, FALSE) \/ Wait(c, s) \/ (Tell(c, s, TRUE) /\ now < lastGranted[s] + Staleness)
      PROVE  YesGrounded'
  BY <1>2, <1>4 DEF GroundInv, TypeOK, YesGrounded, Answered, Tell, Wait, graph
<1>5. CASE RejectSubject(c, s)
  <2>1. ChecksGrounded' /\ WaitersJoined'
    BY <1>2, <1>5 DEF RejectSubject, Tell, GroundInv, TypeOK, ChecksGrounded, WaitersJoined, graph
  <2>2. YesGrounded'
    BY <1>4, <1>5 DEF RejectSubject
  <2> QED BY <1>1, <1>3, <2>1, <2>2 DEF GroundInv
<1>6. CASE AnswerFromCache(c, s)
  <2>1. ChecksGrounded' /\ WaitersJoined'
    BY <1>2, <1>6 DEF AnswerFromCache, Tell, GroundInv, TypeOK, ChecksGrounded, WaitersJoined, graph
  <2>2. s \in DOMAIN cache /\ now < cache[s].expiresAt /\ Tell(c, s, cache[s].allow)
    BY <1>6 DEF AnswerFromCache, Hit
  <2>3. cache[s].allow \in BOOLEAN /\ cache[s].expiresAt \in Nat /\ lastGranted[s] \in Int
    BY <2>2 DEF GroundInv, TypeOK, Entry
  <2>4. cache[s].allow => now < lastGranted[s] + Staleness
    BY <1>1, <2>2, <2>3, StalenessFacts, DurationsAssumption DEF GroundInv, EntriesGrounded
  <2>5. YesGrounded'
    BY <1>4, <2>2, <2>3, <2>4
  <2> QED BY <1>1, <1>3, <2>1, <2>5 DEF GroundInv
<1>7. CASE Coalesce(c, s)
  <2>1. ChecksGrounded'
    BY <1>2, <1>7 DEF Coalesce, GroundInv, ChecksGrounded, graph
  <2>2. WaitersJoined'
    BY <1>1, <1>2, <1>7 DEF Coalesce, Wait, GroundInv, TypeOK, WaitersJoined, ChecksGrounded, graph
  <2>3. YesGrounded'
    BY <1>4, <1>7 DEF Coalesce
  <2> QED BY <1>1, <1>3, <2>1, <2>2, <2>3 DEF GroundInv
<1>8. CASE StartCheck(c, s)
  <2>1. /\ s \notin DOMAIN inflight
        /\ DOMAIN inflight' = DOMAIN inflight \cup {s}
        /\ inflight'[s] = [asked |-> now, verdict |-> "open"]
        /\ \A r \in DOMAIN inflight : inflight'[r] = inflight[r]
    BY <1>8 DEF StartCheck
  <2>2. now <= now /\ now <= now + Timeout
    BY <1>1, DurationsAssumption
  <2>3. ChecksGrounded'
    BY <1>2, <2>1, <2>2 DEF GroundInv, ChecksGrounded, graph
  <2>4. requests' = [requests EXCEPT ![c] =
          [state |-> "waiting", sub |-> s, at |-> now, grant |-> FALSE]]
    BY <1>8 DEF StartCheck, Wait
  <2>5. WaitersJoined'
    BY <1>2, <2>1, <2>2, <2>4 DEF GroundInv, TypeOK, WaitersJoined, graph
  <2>6. YesGrounded'
    BY <1>4, <1>8 DEF StartCheck
  <2> QED BY <1>1, <1>3, <2>3, <2>5, <2>6 DEF GroundInv
<1> QED BY <1>5, <1>6, <1>7, <1>8

LEMMA DecideGround ==
  ASSUME GroundInv, TypeOK', [Next]_vars, NEW s \in Subjects, Decide(s)
  PROVE  GroundInv'
<1>1. MarksCurrent' /\ UNCHANGED <<graph, cache, requests, lastFailed>>
  BY MarksGrow DEF Decide, GroundInv
<1>2. EntriesGrounded' /\ YesGrounded'
  BY <1>1, GroundKept
<1>3. /\ DOMAIN inflight' = DOMAIN inflight
      /\ \A r \in DOMAIN inflight \ {s} : inflight'[r] = inflight[r]
      /\ inflight'[s].asked = inflight[s].asked
      /\ inflight'[s].verdict = IF s \in granted THEN "allow" ELSE "refuse"
  <2>1. inflight[s] \in Check
    BY DEF Decide, GroundInv, TypeOK
  <2> QED BY <2>1 DEF Decide, Check
<1>4. ChecksGrounded'
  BY <1>1, <1>3 DEF GroundInv, MarksCurrent, ChecksGrounded, graph
<1>5. WaitersJoined'
  BY <1>1, <1>3, WaitersKept DEF GroundInv, WaitersJoined
<1> QED BY <1>1, <1>2, <1>4, <1>5 DEF GroundInv

\* The end of a Check: its answer reaches the cache and everyone who joined.
LEMMA EndGround ==
  ASSUME GroundInv, TypeOK', [Next]_vars, UNCHANGED graph,
         NEW s \in DOMAIN inflight, NEW allow \in BOOLEAN, NEW ttl \in Nat,
         CacheSet(s, allow, ttl, inflight[s].asked), Wake(s, allow), EndCheck(s),
         allow => inflight[s].asked + ttl <= lastGranted[s] + CacheTtl,
         allow => now < lastGranted[s] + Staleness,
         ~allow => \/ inflight[s].asked + ttl <= lastRefused[s] + CacheTtl
                   \/ inflight[s].asked + ttl <= lastFailed'[s] + ErrorTtl,
         \A r \in Subjects : lastFailed[r] <= lastFailed'[r]
  PROVE  GroundInv'
<1>1. s \in Subjects /\ inflight[s] \in Check /\ inflight[s].asked \in Nat
  BY SubjectsAssumption DEF GroundInv, TypeOK, Check
<1>2. MarksCurrent'
  BY MarksGrow DEF GroundInv
<1>3. EntriesGrounded'
  <2>1. CacheType
    BY DEF CacheType, GroundInv, TypeOK
  <2>2. /\ CacheType'
        /\ cache'[s].allow = allow
        /\ cache'[s].expiresAt = inflight[s].asked + ttl
        /\ \A r \in DOMAIN cache' \ {s} :
             /\ r \in DOMAIN cache
             /\ cache'[r].allow = cache[r].allow
             /\ cache'[r].expiresAt = cache[r].expiresAt
    BY <1>1, <2>1, CacheSetFacts
  <2>3. ASSUME NEW r \in DOMAIN cache'
        PROVE  IF cache'[r].allow
                 THEN cache'[r].expiresAt <= lastGranted'[r] + CacheTtl
                 ELSE \/ cache'[r].expiresAt <= lastRefused'[r] + CacheTtl
                      \/ cache'[r].expiresAt <= lastFailed'[r] + ErrorTtl
    <3>1. CASE r = s
      BY <2>2, <3>1 DEF graph
    <3>2. CASE r # s
      <4>1. r \in DOMAIN cache /\ r \in Subjects /\ cache[r] \in Entry
        BY <2>2, <2>3, <3>2 DEF GroundInv, TypeOK
      <4>2. /\ cache[r].expiresAt \in Nat
            /\ lastFailed[r] \in Int /\ lastFailed'[r] \in Int
            /\ lastFailed[r] <= lastFailed'[r]
        BY <4>1 DEF Entry, GroundInv, TypeOK
      <4>3. cache'[r].allow = cache[r].allow /\ cache'[r].expiresAt = cache[r].expiresAt
        BY <2>2, <2>3, <3>2
      <4>4. IF cache[r].allow
              THEN cache[r].expiresAt <= lastGranted[r] + CacheTtl
              ELSE \/ cache[r].expiresAt <= lastRefused[r] + CacheTtl
                   \/ cache[r].expiresAt <= lastFailed[r] + ErrorTtl
        BY <4>1 DEF GroundInv, EntriesGrounded
      <4> QED BY <4>2, <4>3, <4>4, DurationsAssumption DEF graph
    <3> QED BY <3>1, <3>2
  <2> QED BY <2>3 DEF EntriesGrounded
<1>4. DOMAIN inflight' = DOMAIN inflight \ {s}
      /\ \A r \in DOMAIN inflight \ {s} : inflight'[r] = inflight[r]
  BY DEF EndCheck
<1>5. ChecksGrounded'
  BY <1>4 DEF GroundInv, ChecksGrounded, graph
<1>6. ASSUME NEW c \in Callers, c \in Waiting(s)
      PROVE  /\ requests[c] \in Request /\ requests[c].sub = s
             /\ requests'[c].state = "answered" /\ requests'[c].grant = allow
             /\ requests'[c].sub = s /\ requests'[c].at = requests[c].at
             /\ requests[c].at \in Nat /\ requests[c].at <= now
  <2>1. /\ requests[c] \in Request /\ requests[c] # NoRequest
        /\ requests[c].state = "waiting" /\ requests[c].sub = s
    BY <1>6 DEF Waiting, GroundInv, TypeOK
  <2>2. requests'[c] = [requests[c] EXCEPT !.state = "answered", !.grant = allow]
    BY <1>6 DEF Wake
  <2>3. requests[c].at <= now
    BY <2>1 DEF GroundInv, WaitersJoined
  <2> QED BY <2>1, <2>2, <2>3 DEF Request
<1>7. ASSUME NEW c \in Callers, c \notin Waiting(s)
      PROVE  requests'[c] = requests[c]
  BY <1>7 DEF Wake
<1>8. WaitersJoined'
  <2> SUFFICES ASSUME NEW c \in Callers, requests'[c] # NoRequest,
                      requests'[c].state = "waiting"
               PROVE  /\ requests'[c] = requests[c]
                      /\ requests[c].sub \in DOMAIN inflight'
                      /\ inflight'[requests[c].sub].asked = inflight[requests[c].sub].asked
    BY WaitersKept
  <2>1. c \notin Waiting(s)
    BY <1>6
  <2>2. requests'[c] = requests[c]
    BY <2>1, <1>7
  <2>3. requests[c].sub \in DOMAIN inflight /\ requests[c].sub # s
    BY <2>1, <2>2 DEF Waiting, GroundInv, WaitersJoined
  <2> QED BY <1>4, <2>2, <2>3
<1>9. YesGrounded'
  <2> SUFFICES ASSUME NEW c \in Callers, Answered(c)', requests'[c].grant
               PROVE  requests'[c].at < lastGranted'[requests'[c].sub] + Staleness
    BY DEF YesGrounded
  <2>1. CASE c \in Waiting(s)
    <3>1. requests[c].at < lastGranted[s] + Staleness
      BY <1>1, <1>6, <2>1, StalenessFacts DEF GroundInv, TypeOK
    <3> QED BY <1>6, <2>1, <3>1 DEF graph
  <2>2. CASE c \notin Waiting(s)
    BY <1>7, <2>2 DEF GroundInv, YesGrounded, Answered, graph
  <2> QED BY <2>1, <2>2
<1> QED BY <1>2, <1>3, <1>5, <1>8, <1>9 DEF GroundInv

\* What the end of a Check rests on: the graph's verdict, or its failure now.
LEMMA VerdictGround ==
  ASSUME GroundInv, NEW s \in Subjects, ReceiveVerdict(s)
  PROVE  LET asked == inflight[s].asked
             allow == inflight[s].verdict = "allow"
         IN  /\ asked \in Nat
             /\ allow => asked <= lastGranted[s] /\ now < lastGranted[s] + Staleness
             /\ ~allow => asked <= lastRefused[s] /\ now < lastRefused[s] + Staleness
<1>1. s \in DOMAIN inflight /\ inflight[s] \in Check /\ inflight[s].verdict # "open"
  BY DEF ReceiveVerdict, GroundInv, TypeOK
<1>2. /\ inflight[s].asked \in Nat /\ inflight[s].verdict \in {"allow", "refuse"}
      /\ now \in Nat /\ lastGranted[s] \in Int /\ lastRefused[s] \in Int
  BY <1>1 DEF Check, GroundInv, TypeOK
<1>3. /\ now <= inflight[s].asked + Timeout
      /\ inflight[s].verdict = "allow" => inflight[s].asked <= lastGranted[s]
      /\ inflight[s].verdict = "refuse" => inflight[s].asked <= lastRefused[s]
  BY <1>1 DEF GroundInv, ChecksGrounded
<1> QED BY <1>2, <1>3, StalenessFacts, DurationsAssumption

LEMMA ReceiveGround ==
  ASSUME GroundInv, TypeOK', [Next]_vars, NEW s \in Subjects, ReceiveVerdict(s)
  PROVE  GroundInv'
<1> DEFINE allow == inflight[s].verdict = "allow"
<1>1. /\ allow => inflight[s].asked <= lastGranted[s] /\ now < lastGranted[s] + Staleness
      /\ ~allow => inflight[s].asked <= lastRefused[s]
      /\ inflight[s].asked \in Nat
  BY VerdictGround
<1>2. /\ s \in DOMAIN inflight /\ UNCHANGED <<graph, lastFailed>>
      /\ CacheSet(s, allow, CacheTtl, inflight[s].asked) /\ Wake(s, allow) /\ EndCheck(s)
  BY DEF ReceiveVerdict
<1>3. /\ allow \in BOOLEAN /\ CacheTtl \in Nat
      /\ lastGranted[s] \in Int /\ lastRefused[s] \in Int
      /\ \A r \in Subjects : lastFailed[r] \in Int
  BY DurationsAssumption DEF GroundInv, TypeOK
<1> HIDE DEF allow
<1>4. /\ allow => inflight[s].asked + CacheTtl <= lastGranted[s] + CacheTtl
      /\ ~allow => inflight[s].asked + CacheTtl <= lastRefused[s] + CacheTtl
      /\ \A r \in Subjects : lastFailed[r] <= lastFailed'[r]
  BY <1>1, <1>2, <1>3
<1> QED BY <1>1, <1>2, <1>3, <1>4, EndGround

LEMMA FailGround ==
  ASSUME GroundInv, TypeOK', [Next]_vars, \A r \in Subjects : lastFailed[r] <= now,
         NEW s \in Subjects, FailCheck(s)
  PROVE  GroundInv'
<1>1. /\ s \in DOMAIN inflight /\ UNCHANGED graph
      /\ CacheSet(s, FALSE, ErrorTtl, inflight[s].asked) /\ Wake(s, FALSE) /\ EndCheck(s)
      /\ lastFailed' = [lastFailed EXCEPT ![s] = now]
  BY DEF FailCheck
<1>2. inflight[s].asked \in Nat /\ inflight[s].asked <= now
  BY <1>1 DEF GroundInv, TypeOK, Check, ChecksGrounded
<1>3. lastFailed \in [Subjects -> Int] /\ now \in Nat /\ ErrorTtl \in Nat
  BY DurationsAssumption DEF GroundInv, TypeOK
<1>4. \A r \in Subjects : lastFailed[r] <= lastFailed'[r]
  BY <1>1, <1>3
<1>5. inflight[s].asked + ErrorTtl <= lastFailed'[s] + ErrorTtl
  BY <1>1, <1>2, <1>3
<1> QED BY <1>1, <1>3, <1>4, <1>5, EndGround

LEMMA LeaveGround ==
  ASSUME GroundInv, TypeOK', [Next]_vars, NEW c \in Callers, Leave(c)
  PROVE  GroundInv'
<1>1. MarksCurrent' /\ UNCHANGED <<graph, cache, inflight, lastFailed>>
  BY MarksGrow DEF Leave, GroundInv
<1>2. EntriesGrounded' /\ ChecksGrounded'
  BY <1>1 DEF GroundInv, EntriesGrounded, ChecksGrounded, graph
<1>3. WaitersJoined' /\ YesGrounded'
  BY <1>1 DEF Leave, GroundInv, TypeOK, WaitersJoined, YesGrounded, Answered, graph
<1> QED BY <1>1, <1>2, <1>3 DEF GroundInv

\* The graph and the clock.
LEMMA WorldGround ==
  ASSUME GroundInv, TypeOK', [Next]_vars, UNCHANGED <<cache, inflight, requests, lastFailed>>,
         \/ Tick
         \/ \E s \in WellFormed : Grant(s) \/ Revoke(s)
  PROVE  GroundInv'
<1>1. MarksCurrent'
  BY MarksGrow DEF GroundInv
<1>2. EntriesGrounded' /\ YesGrounded'
  BY GroundKept
<1>3. \A s \in DOMAIN inflight : now' <= inflight[s].asked + Timeout
  <2>1. CASE Tick
    <3> SUFFICES ASSUME NEW s \in DOMAIN inflight
                 PROVE  now' <= inflight[s].asked + Timeout
      OBVIOUS
    <3>1. now < inflight[s].asked + Timeout /\ now' = now + 1
      BY <2>1 DEF Tick, PassTime
    <3>2. now \in Nat /\ inflight[s].asked \in Nat
      BY DEF GroundInv, TypeOK, Check
    <3> QED BY <3>1, <3>2, DurationsAssumption
  <2>2. CASE now' = now
    BY <2>2 DEF GroundInv, ChecksGrounded
  <2> QED BY <2>1, <2>2 DEF Grant, Revoke
<1>4. ChecksGrounded'
  BY <1>3, ChecksKept
<1>5. WaitersJoined'
  BY WaitersKept DEF GroundInv, WaitersJoined
<1> QED BY <1>1, <1>2, <1>4, <1>5 DEF GroundInv

\* A Check never failed in the future.
FailuresPast == \A s \in Subjects : lastFailed[s] <= now

LEMMA NextFailuresPast ==
  ASSUME TypeOK, TypeOK', MarksCurrent, FailuresPast, [Next]_vars
  PROVE  FailuresPast'
<1>1. now <= now' /\ now \in Nat /\ now' \in Nat
  BY MarksGrow DEF TypeOK
<1>2. \/ UNCHANGED lastFailed
      \/ \E s \in Subjects : lastFailed' = [lastFailed EXCEPT ![s] = now]
  BY DEF Next, vars, RejectSubject, AnswerFromCache, Coalesce, StartCheck, Decide,
         ReceiveVerdict, FailCheck, Leave, Tick
<1>3. ASSUME NEW r \in Subjects
      PROVE  lastFailed'[r] <= now'
  <2>1. lastFailed[r] \in Int /\ lastFailed[r] <= now
    BY DEF FailuresPast, TypeOK
  <2>2. lastFailed'[r] = lastFailed[r] \/ lastFailed'[r] = now
    BY <1>2 DEF TypeOK
  <2> QED BY <1>1, <2>1, <2>2
<1> QED BY <1>3 DEF FailuresPast

LEMMA NextGround == GroundInv /\ FailuresPast /\ [Next]_vars => GroundInv' /\ FailuresPast'
<1> SUFFICES ASSUME GroundInv, FailuresPast, [Next]_vars
             PROVE  GroundInv' /\ FailuresPast'
  OBVIOUS
<1>1. TypeOK' /\ FailuresPast'
  BY NextTypeOK, NextFailuresPast DEF GroundInv
<1>2. CASE UNCHANGED vars
  <2>1. MarksCurrent' /\ ChecksGrounded'
    BY <1>2 DEF vars, graph, GroundInv, MarksCurrent, ChecksGrounded
  <2>2. EntriesGrounded'
    BY <1>2 DEF vars, graph, GroundInv, EntriesGrounded
  <2>3. WaitersJoined' /\ YesGrounded'
    BY <1>2 DEF vars, graph, GroundInv, WaitersJoined, YesGrounded, Answered
  <2> QED BY <1>1, <2>1, <2>2, <2>3 DEF GroundInv
<1>3. CASE \E c \in Callers, s \in Subjects :
             \/ RejectSubject(c, s) \/ AnswerFromCache(c, s)
             \/ Coalesce(c, s) \/ StartCheck(c, s)
  BY <1>1, <1>3, RequestGround
<1>4. CASE \E s \in Subjects : Decide(s)
  BY <1>1, <1>4, DecideGround
<1>5. CASE \E s \in Subjects : ReceiveVerdict(s)
  BY <1>1, <1>5, ReceiveGround
<1>6. CASE \E s \in Subjects : FailCheck(s)
  BY <1>1, <1>6, FailGround DEF FailuresPast
<1>7. CASE \E c \in Callers : Leave(c)
  BY <1>1, <1>7, LeaveGround
<1>8. CASE \E s \in WellFormed :
             /\ Grant(s) \/ Revoke(s)
             /\ UNCHANGED <<cache, inflight, requests, lastFailed>>
  BY <1>1, <1>8, WorldGround
<1>9. CASE Tick
  BY <1>1, <1>9, WorldGround DEF Tick
<1> QED BY <1>1, <1>2, <1>3, <1>4, <1>5, <1>6, <1>7, <1>8, <1>9 DEF Next

LEMMA Grounded == Spec => [](GroundInv /\ FailuresPast)
<1>1. Init => GroundInv /\ FailuresPast
  BY InitGround, NeverAssumption DEF Init, GraphInit, FailuresPast
<1> QED BY <1>1, NextGround, PTL DEF Spec

-----------------------------------------------------------------------------
(***************************************************************************)
(* What follows.                                                           *)
(***************************************************************************)
\* No caller waits for a Check that is over.
THEOREM NobodyForgotten == Spec => []NobodyIsForgotten
<1>1. GroundInv => NobodyIsForgotten
  BY DEF GroundInv, WaitersJoined, NobodyIsForgotten
<1> QED BY <1>1, Grounded, PTL

\* A header is accepted for a bounded time after the grant is gone.
THEOREM RevocationEffective == Spec => []RevokeTakesEffect
<1>1. GroundInv => RevokeTakesEffect
  <2> SUFFICES ASSUME GroundInv, NEW c \in Callers, Accepted(c)
               PROVE  now < lastGranted[requests[c].sub] + Staleness + AssertionTtl
    BY DEF RevokeTakesEffect, Staleness
  <2>1. /\ Answered(c) /\ requests[c].grant
        /\ now < requests[c].at + AssertionTtl
        /\ requests[c] \in Request
    BY DEF Accepted, Holds, Answered, GroundInv, TypeOK
  <2>2. requests[c].at < lastGranted[requests[c].sub] + Staleness
    BY <2>1 DEF GroundInv, YesGrounded
  <2>3. /\ requests[c].at \in Nat /\ now \in Nat
        /\ lastGranted[requests[c].sub] \in Int
    BY <2>1 DEF Request, GroundInv, TypeOK
  <2> QED BY <2>1, <2>2, <2>3, StalenessFacts, DurationsAssumption
<1> QED BY <1>1, Grounded, PTL

-----------------------------------------------------------------------------
(***************************************************************************)
(* The gate.  The answers of the abstract specification, seen here:        *)
(***************************************************************************)
told == [c \in Callers |->
  IF Answered(c)
    THEN [sub |-> requests[c].sub, at |-> requests[c].at, grant |-> requests[c].grant]
    ELSE NoRequest]

LEMMA ToldType == TypeOK => told \in [Callers -> Gate!Answer \cup {NoRequest}]
<1> SUFFICES ASSUME TypeOK, NEW c \in Callers, Answered(c)
             PROVE  [sub |-> requests[c].sub, at |-> requests[c].at,
                     grant |-> requests[c].grant] \in Gate!Answer
  BY DEF told
<1>1. requests[c] \in Request
  BY DEF TypeOK, Answered
<1> QED BY <1>1 DEF Request, Gate!Answer

\* A step in which the graph stands still and every new answer is honest.
LEMMA RespondStep ==
  ASSUME TypeOK', UNCHANGED graph,
         \A c \in Callers :
           \/ told'[c] = told[c]
           \/ told'[c] = NoRequest
           \/ Gate!Honest(told'[c], lastFailed')
  PROVE  Gate!Respond
<1>1. (told \in [Callers -> Gate!Answer \cup {NoRequest}])'
  BY ToldType, PTL
<1> QED BY <1>1 DEF Gate!Respond, Gate!graph, graph, told

\* Nothing that was answered changes with a request that only waits.
LEMMA SilentStep ==
  ASSUME TypeOK, NEW c \in Callers, NEW s \in Subjects, requests[c] = NoRequest,
         Wait(c, s)
  PROVE  UNCHANGED told
<1>1. requests' = [requests EXCEPT ![c] =
        [state |-> "waiting", sub |-> s, at |-> now, grant |-> FALSE]]
  BY DEF Wait
<1>2. ~Answered(c) /\ ~Answered(c)'
  BY <1>1 DEF Answered, TypeOK
<1>3. \A d \in Callers \ {c} : requests'[d] = requests[d]
  BY <1>1 DEF TypeOK
<1> QED BY <1>2, <1>3 DEF told, Answered

\* One caller is told something at once.
LEMMA TellStep ==
  ASSUME TypeOK, TypeOK', UNCHANGED <<graph, lastFailed>>,
         NEW c \in Callers, NEW s \in Subjects, NEW grant \in BOOLEAN,
         Tell(c, s, grant),
         Gate!Honest([sub |-> s, at |-> now, grant |-> grant], lastFailed)
  PROVE  Gate!Respond /\ UNCHANGED lastFailed
<1>1. requests' = [requests EXCEPT ![c] =
        [state |-> "answered", sub |-> s, at |-> now, grant |-> grant]]
  BY DEF Tell
<1>2. \A d \in Callers \ {c} : told'[d] = told[d]
  BY <1>1 DEF TypeOK, told, Answered
<1>3. \/ told'[c] = NoRequest
      \/ told'[c] = [sub |-> s, at |-> now, grant |-> grant]
  BY <1>1 DEF TypeOK, told, Answered
<1>4. \A d \in Callers :
        \/ told'[d] = told[d]
        \/ told'[d] = NoRequest
        \/ Gate!Honest(told'[d], lastFailed')
  BY <1>2, <1>3
<1> QED BY <1>4, RespondStep

\* Everyone who waits for the Check about s is told the same.
LEMMA WakeStep ==
  ASSUME GroundInv, TypeOK', UNCHANGED graph,
         NEW s \in Subjects, NEW allow \in BOOLEAN, Wake(s, allow),
         \A at \in Nat : at <= now =>
           Gate!Honest([sub |-> s, at |-> at, grant |-> allow], lastFailed')
  PROVE  Gate!Respond
<1> SUFFICES ASSUME NEW c \in Callers
             PROVE  \/ told'[c] = told[c]
                    \/ told'[c] = NoRequest
                    \/ Gate!Honest(told'[c], lastFailed')
  BY RespondStep
<1>1. CASE c \notin Waiting(s)
  <2>1. requests'[c] = requests[c]
    BY <1>1 DEF Wake
  <2> QED BY <2>1 DEF told, Answered
<1>2. CASE c \in Waiting(s)
  <2>1. /\ requests[c] \in Request /\ requests[c] # NoRequest
        /\ requests[c].state = "waiting" /\ requests[c].sub = s
        /\ requests'[c] = [requests[c] EXCEPT !.state = "answered", !.grant = allow]
    BY <1>2 DEF Waiting, Wake, GroundInv, TypeOK
  <2>2. requests[c].at \in Nat /\ requests[c].at <= now
    BY <2>1 DEF Request, GroundInv, WaitersJoined
  <2>3. /\ requests'[c].sub = s /\ requests'[c].at = requests[c].at
        /\ requests'[c].grant = allow
    BY <2>1 DEF Request
  <2>4. \/ told'[c] = NoRequest
        \/ told'[c] = [sub |-> s, at |-> requests[c].at, grant |-> allow]
    BY <2>3 DEF told
  <2> QED BY <2>2, <2>4
<1> QED BY <1>1, <1>2

LEMMA HonestStep ==
  ASSUME GroundInv, FailuresPast, TypeOK', [Next]_vars
  PROVE  [Gate!GateNext]_(Gate!gateVars)
<1> USE SubjectsAssumption, DurationsAssumption, StalenessFacts
<1>1. CASE UNCHANGED vars
  BY <1>1 DEF vars, graph, Gate!gateVars, Gate!graph, Answered
<1>2. ASSUME NEW c \in Callers, NEW s \in Subjects, RejectSubject(c, s)
      PROVE  Gate!GateNext
  <2>1. s \notin granted /\ now \in Nat
    BY <1>2 DEF RejectSubject, GroundInv, TypeOK
  <2>2. lastRefused[s] = now
    BY <2>1 DEF GroundInv, MarksCurrent
  <2>3. Gate!Honest([sub |-> s, at |-> now, grant |-> FALSE], lastFailed)
    BY <2>1, <2>2 DEF Gate!Honest, Staleness
  <2> QED BY <1>2, <2>3, TellStep DEF RejectSubject, GroundInv, Gate!GateNext
<1>3. ASSUME NEW c \in Callers, NEW s \in Subjects, AnswerFromCache(c, s)
      PROVE  Gate!GateNext
  <2>1. s \in DOMAIN cache /\ now < cache[s].expiresAt /\ Tell(c, s, cache[s].allow)
    BY <1>3 DEF AnswerFromCache, Hit
  <2>2. /\ cache[s].allow \in BOOLEAN /\ cache[s].expiresAt \in Nat /\ now \in Nat
        /\ lastGranted[s] \in Int /\ lastRefused[s] \in Int /\ lastFailed[s] \in Int
    BY <2>1 DEF GroundInv, TypeOK, Entry
  <2>3. IF cache[s].allow
          THEN cache[s].expiresAt <= lastGranted[s] + CacheTtl
          ELSE \/ cache[s].expiresAt <= lastRefused[s] + CacheTtl
               \/ cache[s].expiresAt <= lastFailed[s] + ErrorTtl
    BY <2>1 DEF GroundInv, EntriesGrounded
  <2>4. IF cache[s].allow
          THEN lastGranted[s] > now - Staleness
          ELSE lastRefused[s] > now - Staleness \/ lastFailed[s] > now - ErrorTtl
    BY <2>1, <2>2, <2>3
  <2>5. Gate!Honest([sub |-> s, at |-> now, grant |-> cache[s].allow], lastFailed)
    BY <2>4 DEF Gate!Honest, Staleness
  <2> QED BY <1>3, <2>1, <2>2, <2>5, TellStep DEF AnswerFromCache, GroundInv, Gate!GateNext
<1>4. ASSUME NEW c \in Callers, NEW s \in Subjects, Coalesce(c, s) \/ StartCheck(c, s)
      PROVE  UNCHANGED Gate!gateVars
  <2>1. UNCHANGED told
    BY <1>4, SilentStep DEF Coalesce, StartCheck, GroundInv
  <2> QED BY <1>4, <2>1 DEF Coalesce, StartCheck, Gate!gateVars, Gate!graph, graph, told
<1>5. ASSUME NEW s \in Subjects, Decide(s)
      PROVE  UNCHANGED Gate!gateVars
  BY <1>5 DEF Decide, Gate!gateVars, Gate!graph, graph, Answered
<1>6. ASSUME NEW s \in Subjects, ReceiveVerdict(s)
      PROVE  Gate!GateNext
  <2> DEFINE allow == inflight[s].verdict = "allow"
  <2>1. /\ allow => now < lastGranted[s] + Staleness
        /\ ~allow => now < lastRefused[s] + Staleness
    BY <1>6, VerdictGround
  <2>2. Wake(s, allow) /\ UNCHANGED <<graph, lastFailed>> /\ allow \in BOOLEAN
    BY <1>6 DEF ReceiveVerdict
  <2>3. now \in Nat /\ lastGranted[s] \in Int /\ lastRefused[s] \in Int
    BY DEF GroundInv, TypeOK
  <2> HIDE DEF allow
  <2>4. ASSUME NEW at \in Nat, at <= now
        PROVE  Gate!Honest([sub |-> s, at |-> at, grant |-> allow], lastFailed')
    <3>1. /\ allow => lastGranted[s] > at - Staleness
          /\ ~allow => lastRefused[s] > at - Staleness
      BY <2>1, <2>3, <2>4
    <3> QED BY <3>1 DEF Gate!Honest, Staleness
  <2>5. Gate!Respond
    BY <2>2, <2>4, WakeStep
  <2> QED BY <2>2, <2>5 DEF Gate!GateNext
<1>7. ASSUME NEW s \in Subjects, FailCheck(s)
      PROVE  Gate!GateNext
  <2>1. /\ Wake(s, FALSE) /\ UNCHANGED graph
        /\ lastFailed' = [lastFailed EXCEPT ![s] = now]
    BY <1>7 DEF FailCheck
  <2>2. lastFailed'[s] = now /\ now \in Nat
    BY <2>1 DEF GroundInv, TypeOK
  <2>3. ASSUME NEW at \in Nat, at <= now
        PROVE  Gate!Honest([sub |-> s, at |-> at, grant |-> FALSE], lastFailed')
    BY <2>2, <2>3 DEF Gate!Honest
  <2>4. Gate!Respond
    BY <2>1, <2>3, WakeStep
  <2> QED BY <2>1, <2>4 DEF Gate!GateNext, Gate!Fail
<1>8. ASSUME NEW c \in Callers, Leave(c)
      PROVE  Gate!GateNext
  <2>1. /\ requests' = [requests EXCEPT ![c] = NoRequest]
        /\ UNCHANGED <<graph, lastFailed>>
    BY <1>8 DEF Leave
  <2>2. told'[c] = NoRequest
    BY <2>1 DEF told, Answered, GroundInv, TypeOK
  <2>3. \A d \in Callers \ {c} : told'[d] = told[d]
    BY <2>1 DEF told, Answered, GroundInv, TypeOK
  <2>4. Gate!Respond
    BY <2>1, <2>2, <2>3, RespondStep
  <2> QED BY <2>1, <2>4 DEF Gate!GateNext
<1>9. ASSUME NEW s \in WellFormed, Grant(s) \/ Revoke(s),
             UNCHANGED <<cache, inflight, requests, lastFailed>>
      PROVE  Gate!GateNext
  BY <1>9 DEF Gate!GateNext, Gate!Grant, Gate!Revoke, Grant, Revoke, Answered
<1>10. CASE Tick
  BY <1>10 DEF Tick, Gate!GateNext, Gate!PassTime, PassTime, Answered
<1> QED BY <1>1, <1>2, <1>3, <1>4, <1>5, <1>6, <1>7, <1>8, <1>9, <1>10 DEF Next

\* Whatever is answered rests on the word of the graph, or on a Check that
\* failed, a bounded time before the question: the module implements its gate.
THEOREM ImplementsGate == Spec => GateSpec
<1>1. Init => Gate!GateInit
  BY DEF Init, GraphInit, Gate!GateInit, Gate!GraphInit, Answered
<1>2. TypeOK /\ [Next]_vars => TypeOK'
  BY NextTypeOK
<1>3. GroundInv /\ FailuresPast /\ TypeOK' /\ [Next]_vars => [Gate!GateNext]_(Gate!gateVars)
  BY HonestStep
<1>4. Spec => [](GroundInv /\ FailuresPast) /\ []TypeOK
  BY Grounded, TypeCorrect, PTL
<1> QED BY <1>1, <1>3, <1>4, PTL DEF Spec, GateSpec, Gate!GateSpec

-----------------------------------------------------------------------------
(***************************************************************************)
(* The size of the cache.  The Map's insertion order is a strict total     *)
(* order of its keys, and a write in a full cache leaves one element less  *)
(* than there is room for.                                                 *)
(***************************************************************************)
Ordered ==
  /\ IsFiniteSet(DOMAIN cache)
  /\ \A s \in DOMAIN cache : cache[s].older \subseteq DOMAIN cache \ {s}
  /\ \A q, r \in DOMAIN cache : q # r => q \in cache[r].older \/ r \in cache[q].older
  /\ \A q, r \in DOMAIN cache : q \in cache[r].older => cache[q].older \subseteq cache[r].older

\* Some entry of a set of entries was written before all others.
LEMMA OldestExists ==
  ASSUME Ordered, NEW kept \in SUBSET DOMAIN cache, kept # {}
  PROVE  \E m \in kept : kept \ {m} \subseteq {r \in kept : m \in cache[r].older}
<1> DEFINE ages == {cache[r].older : r \in kept}
           R == StrictSubsetOrdering(DOMAIN cache)
<1>1. ages \subseteq SUBSET DOMAIN cache /\ ages # {}
  <2>1. \A r \in kept : cache[r].older \subseteq DOMAIN cache
    BY DEF Ordered
  <2>2. PICK e \in kept : TRUE
    OBVIOUS
  <2>3. cache[e].older \in ages
    BY <2>2
  <2>4. \A r \in kept : cache[r].older \in SUBSET DOMAIN cache
    BY <2>1
  <2>5. ages \subseteq SUBSET DOMAIN cache
    BY <2>4
  <2>6. ages # {}
    BY <2>3
  <2> QED BY <2>5, <2>6
<1>2. IsWellFoundedOn(R, SUBSET DOMAIN cache)
  <2>1. IsFiniteSet(DOMAIN cache)
    BY DEF Ordered
  <2>2. FiniteSubsetsOf(DOMAIN cache) = SUBSET DOMAIN cache
    BY <2>1, FS_FiniteSubsetsOfFinite
  <2>3. IsWellFoundedOn(R, FiniteSubsetsOf(DOMAIN cache))
    BY FS_StrictSubsetOrderingWellFounded
  <2> QED BY <2>2, <2>3
<1>3. PICK x \in ages : \A y \in ages : <<y, x>> \notin R
  <2> HIDE DEF ages, R
  <2> QED BY <1>1, <1>2, WFMin
<1>4. PICK m \in kept : x = cache[m].older
  OBVIOUS
<1>5. ASSUME NEW q \in kept, q \in cache[m].older
      PROVE  FALSE
  <2>1. cache[q].older \subseteq cache[m].older /\ q \notin cache[q].older
    BY <1>5 DEF Ordered
  <2>2. cache[q].older \in ages /\ cache[q].older \in SUBSET DOMAIN cache
        /\ x \in SUBSET DOMAIN cache
    BY <1>1, <1>3
  <2>3. <<cache[q].older, x>> \in R
    BY <1>4, <1>5, <2>1, <2>2 DEF StrictSubsetOrdering
  <2> QED BY <1>3, <2>2, <2>3
<1>6. \A q \in kept \ {m} : m \in cache[q].older
  <2> SUFFICES ASSUME NEW q \in kept \ {m}
               PROVE  m \in cache[q].older
    OBVIOUS
  <2>1. q \notin cache[m].older
    BY <1>5
  <2> QED BY <2>1 DEF Ordered
<1> QED BY <1>6

LEMMA KeptFits ==
  ASSUME Ordered, NEW s, NEW nowMs \in Nat
  PROVE  /\ Kept(nowMs) \subseteq DOMAIN cache
         /\ IsFiniteSet(Kept(nowMs) \ {s})
         /\ Cardinality(Kept(nowMs) \ {s}) < CacheMax
<1> DEFINE kept == Kept(nowMs)
           live == {r \in DOMAIN cache : cache[r].expiresAt > nowMs}
<1>1. kept \subseteq DOMAIN cache
  BY DEF Kept
<1>2. IsFiniteSet(kept) /\ Cardinality(kept) \in Nat
  BY <1>1, FS_Subset, FS_CardinalityType DEF Ordered
<1>3. IsFiniteSet(kept \ {s}) /\ Cardinality(kept \ {s}) <= Cardinality(kept)
      /\ Cardinality(kept \ {s}) \in Nat
  <2> HIDE DEF kept
  <2> QED BY <1>2, FS_Subset, FS_CardinalityType
<1>4. CacheMax \in Nat /\ CacheMax > 0
  BY DurationsAssumption
<1>5. Cardinality(kept) < CacheMax
  <2>1. CASE ~Full
    <3>1. kept = DOMAIN cache
      BY <2>1 DEF Kept
    <3>2. Cardinality(DOMAIN cache) \in Nat
      BY FS_CardinalityType DEF Ordered
    <3> QED BY <1>4, <2>1, <3>1, <3>2 DEF Full
  <2>2. CASE kept = {}
    BY <1>4, <2>2, FS_EmptySet
  <2>3. CASE Full /\ kept # {}
    <3>1. kept = {r \in live : Cardinality(Newer(r, live)) < CacheMax - 1}
      BY <2>3 DEF Kept
    <3>2. PICK m \in kept : kept \ {m} \subseteq {r \in kept : m \in cache[r].older}
      <4> HIDE DEF kept
      <4> QED BY <1>1, <2>3, OldestExists
    <3>3. kept \ {m} \subseteq Newer(m, live) /\ Newer(m, live) \subseteq DOMAIN cache
      BY <3>1, <3>2 DEF Newer
    <3>4. IsFiniteSet(Newer(m, live)) /\ Cardinality(Newer(m, live)) \in Nat
      BY <3>3, FS_Subset, FS_CardinalityType DEF Ordered
    <3>5. Cardinality(Newer(m, live)) < CacheMax - 1
      BY <3>1, <3>2
    <3> HIDE DEF kept, live
    <3>6. Cardinality(kept \ {m}) <= Cardinality(Newer(m, live))
      BY <3>3, <3>4, FS_Subset
    <3>7. Cardinality(kept \ {m}) = Cardinality(kept) - 1
      BY <1>2, <3>2, FS_RemoveElement
    <3> QED BY <1>2, <1>4, <3>4, <3>5, <3>6, <3>7
  <2> QED BY <2>1, <2>2, <2>3
<1> HIDE DEF kept
<1> QED BY <1>1, <1>3, <1>2, <1>4, <1>5 DEF kept

LEMMA CacheSetOrdered ==
  ASSUME Ordered, CacheType, NEW s, NEW allow, NEW ttl, NEW nowMs \in Nat,
         CacheSet(s, allow, ttl, nowMs)
  PROVE  Ordered' /\ CacheBounded'
<1> DEFINE others == Kept(nowMs) \ {s}
<1>1. /\ others \subseteq DOMAIN cache /\ s \notin others
      /\ IsFiniteSet(others) /\ Cardinality(others) < CacheMax
  BY KeptFits
<1>2. cache' = [r \in others \cup {s} |->
        IF r = s THEN [allow |-> allow, expiresAt |-> nowMs + ttl, older |-> others]
        ELSE [cache[r] EXCEPT !.older = @ \cap others]]
  BY DEF CacheSet
<1> HIDE DEF others
<1>3. DOMAIN cache' = others \cup {s} /\ cache'[s].older = others
  BY <1>2
<1>4. ASSUME NEW r \in others
      PROVE  cache'[r].older = cache[r].older \cap others
  <2>1. r # s /\ cache[r] \in Entry
    BY <1>1 DEF CacheType
  <2>2. cache'[r] = [cache[r] EXCEPT !.older = @ \cap others]
    BY <1>2, <2>1
  <2> QED BY <2>1, <2>2 DEF Entry
<1>5. IsFiniteSet(DOMAIN cache') /\ Cardinality(DOMAIN cache') = Cardinality(others) + 1
  BY <1>1, <1>3, FS_AddElement
<1>6. CacheBounded'
  <2>1. Cardinality(others) \in Nat /\ CacheMax \in Nat
    BY <1>1, FS_CardinalityType, DurationsAssumption
  <2> QED BY <1>1, <1>5, <2>1 DEF CacheBounded
<1>7. \A q \in DOMAIN cache' : cache'[q].older \subseteq DOMAIN cache' \ {q}
  BY <1>1, <1>3, <1>4 DEF Ordered
<1>8. \A q, r \in DOMAIN cache' :
        q # r => q \in cache'[r].older \/ r \in cache'[q].older
  BY <1>1, <1>3, <1>4 DEF Ordered
<1>9. \A q, r \in DOMAIN cache' :
        q \in cache'[r].older => cache'[q].older \subseteq cache'[r].older
  <2> SUFFICES ASSUME NEW q \in DOMAIN cache', NEW r \in DOMAIN cache',
                      q \in cache'[r].older
               PROVE  cache'[q].older \subseteq cache'[r].older
    OBVIOUS
  <2>1. q \in others
    BY <1>1, <1>3, <1>4
  <2>2. CASE r = s
    BY <1>3, <1>4, <2>1, <2>2
  <2>3. CASE r # s
    BY <1>1, <1>3, <1>4, <2>1, <2>3 DEF Ordered
  <2> QED BY <2>2, <2>3
<1> QED BY <1>5, <1>6, <1>7, <1>8, <1>9 DEF Ordered

LEMMA NextOrdered ==
  ASSUME TypeOK, Ordered, CacheBounded, [Next]_vars
  PROVE  Ordered' /\ CacheBounded'
<1>1. \/ UNCHANGED cache
      \/ \E s \in DOMAIN inflight, allow \in BOOLEAN, ttl \in Nat :
           CacheSet(s, allow, ttl, inflight[s].asked)
  BY DurationsAssumption
     DEF Next, vars, RejectSubject, AnswerFromCache, Coalesce, StartCheck, Decide,
         ReceiveVerdict, FailCheck, Leave, Tick
<1>2. CASE UNCHANGED cache
  BY <1>2 DEF Ordered, CacheBounded
<1>3. ASSUME NEW s \in DOMAIN inflight, NEW allow \in BOOLEAN, NEW ttl \in Nat,
             CacheSet(s, allow, ttl, inflight[s].asked)
      PROVE  Ordered' /\ CacheBounded'
  <2>1. inflight[s].asked \in Nat /\ CacheType
    BY DEF TypeOK, Check, CacheType
  <2> QED BY <1>3, <2>1, CacheSetOrdered
<1> QED BY <1>1, <1>2, <1>3

\* The hard ceiling holds, however many Checks end while the cache is full.
THEOREM BoundedCache == Spec => []CacheBounded
<1>1. Init => Ordered /\ CacheBounded
  <2> SUFFICES ASSUME Init
               PROVE  Ordered /\ CacheBounded
    OBVIOUS
  <2>1. DOMAIN cache = {}
    BY DEF Init
  <2> QED BY <2>1, FS_EmptySet, DurationsAssumption DEF Ordered, CacheBounded
<1>2. TypeOK /\ Ordered /\ CacheBounded /\ [Next]_vars => Ordered' /\ CacheBounded'
  BY NextOrdered
<1> QED BY <1>1, <1>2, TypeCorrect, PTL DEF Spec
-----------------------------------------------------------------------------
(***************************************************************************)
(* What a full cache gives up.                                             *)
(***************************************************************************)
\* Some entry of a set of entries was written after all others.
LEMMA NewestExists ==
  ASSUME Ordered, NEW gone \in SUBSET DOMAIN cache, gone # {}
  PROVE  \E m \in gone : \A q \in gone \ {m} : q \in cache[m].older
<1> DEFINE after(r) == {q \in DOMAIN cache : r \in cache[q].older}
           rests == {after(r) : r \in gone}
           R == StrictSubsetOrdering(DOMAIN cache)
<1>1. rests \subseteq SUBSET DOMAIN cache /\ rests # {}
  <2>1. PICK e \in gone : TRUE
    OBVIOUS
  <2>2. after(e) \in rests
    BY <2>1
  <2> QED BY <2>2
<1>2. IsWellFoundedOn(R, SUBSET DOMAIN cache)
  <2>1. IsFiniteSet(DOMAIN cache)
    BY DEF Ordered
  <2>2. FiniteSubsetsOf(DOMAIN cache) = SUBSET DOMAIN cache
    BY <2>1, FS_FiniteSubsetsOfFinite
  <2>3. IsWellFoundedOn(R, FiniteSubsetsOf(DOMAIN cache))
    BY FS_StrictSubsetOrderingWellFounded
  <2> QED BY <2>2, <2>3
<1>3. PICK x \in rests : \A y \in rests : <<y, x>> \notin R
  <2> HIDE DEF rests, R
  <2> QED BY <1>1, <1>2, WFMin
<1>4. PICK m \in gone : x = after(m)
  OBVIOUS
<1>5. ASSUME NEW q \in gone, m \in cache[q].older
      PROVE  FALSE
  <2>1. after(q) \subseteq after(m)
    BY <1>5 DEF Ordered
  <2>2. q \in after(m) /\ q \notin after(q)
    BY <1>5 DEF Ordered
  <2>3. after(q) \in rests /\ after(q) \in SUBSET DOMAIN cache /\ x \in SUBSET DOMAIN cache
    BY <1>1, <1>3
  <2> HIDE DEF after
  <2>4. <<after(q), x>> \in R
    BY <1>4, <2>1, <2>2, <2>3 DEF StrictSubsetOrdering
  <2> QED BY <1>3, <2>3, <2>4
<1>6. \A q \in gone \ {m} : q \in cache[m].older
  BY <1>5 DEF Ordered
<1> QED BY <1>6

\* The entries that are live and not kept have room for one more above them.
LEMMA KeptFills ==
  ASSUME Ordered, NEW nowMs \in Nat, Full, NEW r \in DOMAIN cache,
         cache[r].expiresAt > nowMs, r \notin Kept(nowMs)
  PROVE  Cardinality(Kept(nowMs)) >= CacheMax - 1
<1> DEFINE kept == Kept(nowMs)
           live == {q \in DOMAIN cache : cache[q].expiresAt > nowMs}
           gone == live \ kept
<1>1. kept = {q \in live : Cardinality(Newer(q, live)) < CacheMax - 1}
  BY DEF Kept
<1>2. r \in gone /\ gone \in SUBSET DOMAIN cache /\ live \in SUBSET DOMAIN cache
  OBVIOUS
<1>3. PICK m \in gone : \A q \in gone \ {m} : q \in cache[m].older
  <2> HIDE DEF gone
  <2> QED BY <1>2, NewestExists
<1>4. Newer(m, live) \subseteq kept
  <2> SUFFICES ASSUME NEW q \in Newer(m, live), q \notin kept
               PROVE  FALSE
    OBVIOUS
  <2>1. q \in gone /\ m \in cache[q].older
    BY DEF Newer
  <2>2. m \in DOMAIN cache /\ q \in DOMAIN cache
    BY <1>2, <2>1
  <2>3. m \notin cache[m].older /\ q # m
    BY <2>1, <2>2 DEF Ordered
  <2>4. q \in cache[m].older
    BY <1>3, <2>1, <2>3
  <2>5. cache[q].older \subseteq cache[m].older
    BY <2>2, <2>4 DEF Ordered
  <2> QED BY <2>1, <2>3, <2>5
<1>5. m \in live /\ m \notin kept
  OBVIOUS
<1>6. IsFiniteSet(kept) /\ Cardinality(kept) \in Nat
  <2>1. kept \in SUBSET DOMAIN cache
    BY <1>1
  <2> HIDE DEF kept
  <2> QED BY <2>1, FS_Subset, FS_CardinalityType DEF Ordered
<1>7. ~(Cardinality(Newer(m, live)) < CacheMax - 1)
  BY <1>1, <1>5
<1> HIDE DEF kept, live, gone
<1>8. Cardinality(Newer(m, live)) \in Nat /\ Cardinality(Newer(m, live)) <= Cardinality(kept)
  BY <1>4, <1>6, FS_Subset, FS_CardinalityType
<1>9. Cardinality(kept) >= CacheMax - 1
  BY <1>6, <1>7, <1>8, DurationsAssumption
<1> QED BY <1>9 DEF kept

LEMMA OldestGo ==
  ASSUME Ordered, CacheType, NEW s, NEW allow, NEW ttl, NEW nowMs \in Nat,
         CacheSet(s, allow, ttl, nowMs),
         s \in DOMAIN cache => ~(cache[s].expiresAt > nowMs),
         NEW r \in DOMAIN cache, r \notin DOMAIN cache', cache[r].expiresAt > nowMs
  PROVE  /\ Cardinality(DOMAIN cache') = CacheMax
         /\ \A q \in DOMAIN cache' \ {s} : cache[q].expiresAt > nowMs /\ r \in cache[q].older
<1> DEFINE kept == Kept(nowMs)
           live == {q \in DOMAIN cache : cache[q].expiresAt > nowMs}
<1>1. DOMAIN cache' = (kept \ {s}) \cup {s}
  BY DEF CacheSet
<1>2. r \notin kept /\ r # s
  BY <1>1
<1>3. Full
  BY <1>2 DEF Kept
<1>4. kept = {q \in live : Cardinality(Newer(q, live)) < CacheMax - 1}
  BY <1>3 DEF Kept
<1>5. s \notin kept
  BY <1>4
<1>6. Cardinality(DOMAIN cache') = CacheMax
  <2>1. IsFiniteSet(kept) /\ Cardinality(kept) < CacheMax
    <3>1. kept \ {s} = kept
      BY <1>5
    <3> QED BY <3>1, KeptFits
  <2>2. Cardinality(kept) >= CacheMax - 1
    BY <1>2, <1>3, KeptFills
  <2> HIDE DEF kept
  <2>3. DOMAIN cache' = kept \cup {s}
    BY <1>1
  <2>4. Cardinality(DOMAIN cache') = Cardinality(kept) + 1 /\ Cardinality(kept) \in Nat
    BY <1>5, <2>1, <2>3, FS_AddElement, FS_CardinalityType
  <2> QED BY <2>1, <2>2, <2>4, DurationsAssumption
<1>7. ASSUME NEW q \in DOMAIN cache' \ {s}
      PROVE  cache[q].expiresAt > nowMs /\ r \in cache[q].older
  <2>1. q \in live /\ q \in DOMAIN cache /\ Cardinality(Newer(q, live)) < CacheMax - 1
    BY <1>1, <1>4
  <2>2. r \in live /\ ~(Cardinality(Newer(r, live)) < CacheMax - 1)
    BY <1>2, <1>4
  <2>3. r # q
    BY <2>1, <2>2
  <2>4. CASE q \in cache[r].older
    <3>1. Newer(r, live) \subseteq Newer(q, live)
      BY <2>1, <2>4 DEF Newer, Ordered
    <3>2. Newer(q, live) \in SUBSET DOMAIN cache
      BY DEF Newer
    <3> HIDE DEF live
    <3>3. IsFiniteSet(Newer(q, live)) /\ Cardinality(Newer(q, live)) \in Nat
      BY <3>2, FS_Subset, FS_CardinalityType DEF Ordered
    <3>4. Cardinality(Newer(r, live)) \in Nat
          /\ Cardinality(Newer(r, live)) <= Cardinality(Newer(q, live))
      BY <3>1, <3>3, FS_Subset, FS_CardinalityType
    <3> QED BY <2>1, <2>2, <3>3, <3>4, DurationsAssumption
  <2> QED BY <2>1, <2>3, <2>4 DEF Ordered
<1> QED BY <1>6, <1>7

\* A subject that is asked about has no entry that was live when it was asked.
NothingLiveAsked ==
  \A s \in DOMAIN inflight \cap DOMAIN cache : ~(cache[s].expiresAt > inflight[s].asked)

LEMMA AskedNext == TypeOK /\ NothingLiveAsked /\ [Next]_vars => NothingLiveAsked'
<1> SUFFICES ASSUME TypeOK, NothingLiveAsked, [Next]_vars PROVE NothingLiveAsked'
  OBVIOUS
<1>1. ASSUME NEW c \in Callers, NEW s \in Subjects, StartCheck(c, s)
      PROVE  NothingLiveAsked'
  <2>1. /\ cache' = cache
        /\ DOMAIN inflight' = DOMAIN inflight \cup {s} /\ inflight'[s].asked = now
        /\ \A r \in DOMAIN inflight : r # s => inflight'[r] = inflight[r]
    BY <1>1 DEF StartCheck
  <2>2. s \in DOMAIN cache => cache[s].expiresAt \in Nat /\ now \in Nat
    BY DEF TypeOK, Entry
  <2>3. s \in DOMAIN cache => ~(cache[s].expiresAt > now)
    BY <1>1, <2>2 DEF StartCheck, Hit
  <2> QED BY <2>1, <2>3 DEF NothingLiveAsked
<1>2. ASSUME NEW s \in Subjects, Decide(s)
      PROVE  NothingLiveAsked'
  <2>1. /\ cache' = cache /\ DOMAIN inflight' = DOMAIN inflight
        /\ \A r \in DOMAIN inflight : inflight'[r].asked = inflight[r].asked
    BY <1>2 DEF Decide, TypeOK, Check
  <2> QED BY <2>1 DEF NothingLiveAsked
<1>3. ASSUME NEW s \in DOMAIN inflight, NEW allow \in BOOLEAN, NEW ttl \in Nat,
             CacheSet(s, allow, ttl, inflight[s].asked), EndCheck(s)
      PROVE  NothingLiveAsked'
  <2>1. inflight[s].asked \in Nat /\ CacheType /\ s \in Subjects
    BY SubjectsAssumption DEF TypeOK, Check, CacheType
  <2>2. \A r \in DOMAIN cache' \ {s} :
          r \in DOMAIN cache /\ cache'[r].expiresAt = cache[r].expiresAt
    BY <1>3, <2>1, CacheSetFacts
  <2>3. /\ DOMAIN inflight' = DOMAIN inflight \ {s}
        /\ \A r \in DOMAIN inflight' : inflight'[r] = inflight[r]
    BY <1>3 DEF EndCheck
  <2> QED BY <2>2, <2>3 DEF NothingLiveAsked
<1>4. CASE UNCHANGED <<cache, inflight>>
  BY <1>4 DEF NothingLiveAsked
<1>5. ASSUME NEW s \in Subjects, ReceiveVerdict(s) \/ FailCheck(s)
      PROVE  NothingLiveAsked'
  <2>1. \E allow \in BOOLEAN, ttl \in Nat : CacheSet(s, allow, ttl, inflight[s].asked)
    BY <1>5, DurationsAssumption DEF ReceiveVerdict, FailCheck
  <2>2. s \in DOMAIN inflight /\ EndCheck(s)
    BY <1>5 DEF ReceiveVerdict, FailCheck
  <2> QED BY <1>3, <2>1, <2>2
<1> QED BY <1>1, <1>2, <1>4, <1>5
        DEF Next, vars, RejectSubject, AnswerFromCache, Coalesce, Leave, Tick

\* A comment says that expired entries go first, and then the least recently
\* written: a write into a full cache that drops a live entry leaves it full of
\* entries that are live and younger, however many Checks end meanwhile.
THEOREM OldestGoesFirst == Spec => OldestGoFirst
<1>1. Init => Ordered /\ CacheBounded /\ NothingLiveAsked
  <2> SUFFICES ASSUME Init PROVE Ordered /\ CacheBounded /\ NothingLiveAsked
    OBVIOUS
  <2>1. DOMAIN cache = {} /\ DOMAIN inflight = {}
    BY DEF Init
  <2> QED BY <2>1, FS_EmptySet, DurationsAssumption DEF Ordered, CacheBounded, NothingLiveAsked
<1>2. TypeOK /\ Ordered /\ CacheBounded /\ NothingLiveAsked /\ [Next]_vars
        => Ordered' /\ CacheBounded' /\ NothingLiveAsked'
  BY NextOrdered, AskedNext
<1>3. ASSUME TypeOK, Ordered, NothingLiveAsked, [Next]_vars,
             NEW s \in Subjects, s \in DOMAIN inflight \ DOMAIN inflight',
             NEW r \in DOMAIN cache \ DOMAIN cache', cache[r].expiresAt > inflight[s].asked
      PROVE  /\ Cardinality(DOMAIN cache') = CacheMax
             /\ \A q \in DOMAIN cache' \ {s} :
                  cache[q].expiresAt > inflight[s].asked /\ r \in cache[q].older
  <2>1. \E allow, ttl : CacheSet(s, allow, ttl, inflight[s].asked)
    <3>1. ReceiveVerdict(s) \/ FailCheck(s)
      <4>1. ASSUME DOMAIN inflight \subseteq DOMAIN inflight' PROVE FALSE
        BY <1>3, <4>1
      <4>2. ASSUME NEW c \in Callers, NEW q \in Subjects,
                   \/ RejectSubject(c, q) \/ AnswerFromCache(c, q)
                   \/ Coalesce(c, q) \/ StartCheck(c, q)
            PROVE  FALSE
        BY <4>1, <4>2 DEF RejectSubject, AnswerFromCache, Coalesce, StartCheck
      <4>3. ASSUME NEW q \in Subjects, Decide(q)
            PROVE  FALSE
        BY <4>1, <4>3 DEF Decide
      <4>4. ASSUME NEW q \in Subjects, ReceiveVerdict(q) \/ FailCheck(q)
            PROVE  q = s
        BY <1>3, <4>4 DEF ReceiveVerdict, FailCheck, EndCheck
      <4>5. CASE UNCHANGED inflight
        BY <4>1, <4>5
      <4> QED BY <1>3, <4>2, <4>3, <4>4, <4>5 DEF Next, vars, Leave, Tick
    <3> QED BY <3>1 DEF ReceiveVerdict, FailCheck
  <2>2. PICK allow, ttl : CacheSet(s, allow, ttl, inflight[s].asked)
    BY <2>1
  <2>3. inflight[s].asked \in Nat /\ CacheType
    BY <1>3 DEF TypeOK, Check, CacheType
  <2>4. s \in DOMAIN cache => ~(cache[s].expiresAt > inflight[s].asked)
    BY <1>3 DEF NothingLiveAsked
  <2> QED BY <1>3, <2>2, <2>3, <2>4, OldestGo
<1>4. TypeOK /\ Ordered /\ NothingLiveAsked /\ [Next]_vars =>
        [ \A s \in Subjects :
            /\ s \in DOMAIN inflight \ DOMAIN inflight'
            => \A r \in DOMAIN cache \ DOMAIN cache' :
                 cache[r].expiresAt > inflight[s].asked =>
                   /\ Cardinality(DOMAIN cache') = CacheMax
                   /\ \A q \in DOMAIN cache' \ {s} :
                        /\ cache[q].expiresAt > inflight[s].asked
                        /\ r \in cache[q].older ]_vars
  BY <1>3
<1> QED BY <1>1, <1>2, <1>4, TypeCorrect, PTL DEF Spec, OldestGoFirst
=============================================================================
