--------------------------- MODULE EntitlementGrants ---------------------------
(***************************************************************************)
(* How fc-backend decides what a caller may see:                           *)
(* src/src/services/entitlements/grants.ts asks OpenFGA, remembers the     *)
(* answer for a while, shares one Check between the callers that wait for  *)
(* it, and treats everything that is not an explicit yes as a no;          *)
(* assertion.ts signs a yes for a minute.  It implements EntitlementGate.  *)
(*                                                                         *)
(* Between the first line of grantsForSubject and its await nothing        *)
(* intervenes, and neither does anything between the arrival of a Check's  *)
(* response, the write of the cache and the wake-up of the callers.  The   *)
(* moment the graph is consulted lies somewhere in between.                *)
(***************************************************************************)
EXTENDS EntitlementGraph, FiniteSets

CONSTANTS
  Callers,       (* Requests served at the same time.                       *)
  CacheTtl,      (* OPENFGA answers are remembered this long,               *)
  ErrorTtl,      (* failed Checks this long.                                *)
  Timeout,       (* A Check is over after this long.                        *)
  CacheMax,      (* Subjects remembered.                                    *)
  AssertionTtl,  (* An assertion is accepted for this long.                 *)
  SigningKey,    (* Whether a signing key was loaded at boot.               *)
  NoRequest,     (* A caller without a request.                             *)
  MaxTime,       (* Bound: the clock.                                       *)
  LastChange     (* Bound: the graph does not change from this moment on.   *)

ASSUME DurationsAssumption ==
  /\ {CacheTtl, ErrorTtl, Timeout, CacheMax} \subseteq Nat \ {0}
  /\ AssertionTtl \in Nat
  /\ MaxTime \in Nat /\ LastChange \in Nat
ASSUME AgesAssumption ==
  /\ Never + CacheTtl <= 0
  /\ Never + ErrorTtl <= 0
  /\ Never + Timeout + 1 <= 0
ASSUME SigningAssumption == SigningKey \in BOOLEAN

VARIABLES
  cache,         (* Map: the subjects remembered, each with its entry.      *)
  inflight,      (* Map: the subjects a Check is under way for.             *)
  requests,      (* What each caller waits for or was told.                 *)
  lastFailed     (* When a Check about each subject last failed.            *)

vars == <<graph, cache, inflight, requests, lastFailed>>

-----------------------------------------------------------------------------
\* older: the entries that stand before this one in the Map's insertion order.
Entry == [allow : BOOLEAN, expiresAt : Nat, older : SUBSET Subjects]

\* verdict: what the graph said, or that it was not asked yet.
Check == [asked : Nat, verdict : {"open", "allow", "refuse"}]

\* at is nowMs, read once when the request comes in.
Request == [state : {"waiting", "answered"}, sub : Subjects, at : Nat, grant : BOOLEAN]

ASSUME NoRequestAssumption == NoRequest \notin Request

Waiting(s) == {c \in Callers : /\ requests[c] # NoRequest
                               /\ requests[c].state = "waiting"
                               /\ requests[c].sub = s}

\* Faulty: an entry still counts at the moment it expires.
FaultyHit(s) == s \in DOMAIN cache /\ now <= cache[s].expiresAt

Hit(s) == s \in DOMAIN cache /\ now < cache[s].expiresAt

Tell(c, s, grant) ==
  requests' = [requests EXCEPT ![c] =
    [state |-> "answered", sub |-> s, at |-> now, grant |-> grant]]

Wait(c, s) ==
  requests' = [requests EXCEPT ![c] =
    [state |-> "waiting", sub |-> s, at |-> now, grant |-> FALSE]]

-----------------------------------------------------------------------------
(***************************************************************************)
(* grantsForSubject up to its await.                                       *)
(***************************************************************************)
\* isEntitlementSubject fails: no grants, and OpenFGA is not asked.
RejectSubject(c, s) ==
  /\ requests[c] = NoRequest
  /\ s \notin WellFormed
  /\ Tell(c, s, FALSE)
  /\ UNCHANGED <<graph, cache, inflight, lastFailed>>

\* Faulty: an entry lives on for another TTL whenever it is used.
FaultyAnswerFromCache(c, s) ==
  /\ requests[c] = NoRequest
  /\ s \in WellFormed
  /\ Hit(s)
  /\ Tell(c, s, cache[s].allow)
  /\ cache' = [cache EXCEPT ![s].expiresAt = now + CacheTtl]
  /\ UNCHANGED <<graph, inflight, lastFailed>>

AnswerFromCache(c, s) ==
  /\ requests[c] = NoRequest
  /\ s \in WellFormed
  /\ Hit(s)
  /\ Tell(c, s, cache[s].allow)
  /\ UNCHANGED <<graph, cache, inflight, lastFailed>>

\* A Check for this subject is under way: wait for its answer.
Coalesce(c, s) ==
  /\ requests[c] = NoRequest
  /\ s \in WellFormed
  /\ ~Hit(s)
  /\ s \in DOMAIN inflight
  /\ Wait(c, s)
  /\ UNCHANGED <<graph, cache, inflight, lastFailed>>

\* Faulty: OpenFGA is asked about an identifier of any shape.
FaultyStartCheck(c, s) ==
  /\ requests[c] = NoRequest
  /\ ~Hit(s)
  /\ s \notin DOMAIN inflight
  /\ Wait(c, s)
  /\ inflight' = [r \in DOMAIN inflight \cup {s} |->
       IF r = s THEN [asked |-> now, verdict |-> "open"] ELSE inflight[r]]
  /\ UNCHANGED <<graph, cache, lastFailed>>

StartCheck(c, s) ==
  /\ requests[c] = NoRequest
  /\ s \in WellFormed
  /\ ~Hit(s)
  /\ s \notin DOMAIN inflight
  /\ Wait(c, s)
  /\ inflight' = [r \in DOMAIN inflight \cup {s} |->
       IF r = s THEN [asked |-> now, verdict |-> "open"] ELSE inflight[r]]
  /\ UNCHANGED <<graph, cache, lastFailed>>

-----------------------------------------------------------------------------
(***************************************************************************)
(* The Check and what follows it.                                          *)
(***************************************************************************)
\* OpenFGA evaluates the Check.
Decide(s) ==
  /\ s \in DOMAIN inflight
  /\ inflight[s].verdict = "open"
  /\ inflight' = [inflight EXCEPT ![s].verdict =
                    IF s \in granted THEN "allow" ELSE "refuse"]
  /\ UNCHANGED <<graph, cache, requests, lastFailed>>

\* Faulty: room is made only once the cache is over its size.
FaultyFull == Cardinality(DOMAIN cache) > CacheMax

Full == Cardinality(DOMAIN cache) >= CacheMax

\* Faulty: the entries that were written last go first.
FaultyNewer(s, kept) == cache[s].older \cap kept

\* The entries of kept that were written after that of s.
Newer(s, kept) == {r \in kept : s \in cache[r].older}

\* What cacheSet leaves of the cache: when it is full the entries that have
\* expired by nowMs go, then the oldest, until there is room for one more.
Kept(nowMs) ==
  LET live == {s \in DOMAIN cache : cache[s].expiresAt > nowMs}
  IN  IF Full THEN {s \in live : Cardinality(Newer(s, live)) < CacheMax - 1}
      ELSE DOMAIN cache

\* nowMs is that of the request that started the Check, not the present.
CacheSet(s, allow, ttl, nowMs) ==
  LET others == Kept(nowMs) \ {s}
  IN  cache' = [r \in others \cup {s} |->
        IF r = s THEN [allow |-> allow, expiresAt |-> nowMs + ttl, older |-> others]
        ELSE [cache[r] EXCEPT !.older = @ \cap others]]

\* Faulty: only the caller that started the Check is woken.
FaultyWake(s, grant) ==
  requests' = [c \in Callers |->
    IF c \in Waiting(s) /\ requests[c].at = inflight[s].asked
      THEN [requests[c] EXCEPT !.state = "answered", !.grant = grant]
      ELSE requests[c]]

Wake(s, grant) ==
  requests' = [c \in Callers |->
    IF c \in Waiting(s)
      THEN [requests[c] EXCEPT !.state = "answered", !.grant = grant]
      ELSE requests[c]]

EndCheck(s) == inflight' = [r \in DOMAIN inflight \ {s} |-> inflight[r]]

ReceiveVerdict(s) ==
  /\ s \in DOMAIN inflight
  /\ inflight[s].verdict # "open"
  /\ LET allow == inflight[s].verdict = "allow"
     IN  /\ CacheSet(s, allow, CacheTtl, inflight[s].asked)
         /\ Wake(s, allow)
  /\ EndCheck(s)
  /\ UNCHANGED <<graph, lastFailed>>

\* Faulty: a failure denies for as long as a verdict.
FaultyFailCheck(s) ==
  /\ s \in DOMAIN inflight
  /\ CacheSet(s, FALSE, CacheTtl, inflight[s].asked)
  /\ Wake(s, FALSE)
  /\ EndCheck(s)
  /\ lastFailed' = [lastFailed EXCEPT ![s] = now]
  /\ UNCHANGED graph

\* Faulty: a Check without an answer is waited for without end.
FaultyFailAnswered(s) ==
  /\ s \in DOMAIN inflight
  /\ inflight[s].verdict # "open"
  /\ CacheSet(s, FALSE, ErrorTtl, inflight[s].asked)
  /\ Wake(s, FALSE)
  /\ EndCheck(s)
  /\ lastFailed' = [lastFailed EXCEPT ![s] = now]
  /\ UNCHANGED graph

\* The Check is refused or times out, or its response is lost, an error or of
\* an unexpected shape: a denial, remembered for the shorter time.
FailCheck(s) ==
  /\ s \in DOMAIN inflight
  /\ CacheSet(s, FALSE, ErrorTtl, inflight[s].asked)
  /\ Wake(s, FALSE)
  /\ EndCheck(s)
  /\ lastFailed' = [lastFailed EXCEPT ![s] = now]
  /\ UNCHANGED graph

\* The read is answered and the request is over.
Leave(c) ==
  /\ requests[c] # NoRequest
  /\ requests[c].state = "answered"
  /\ requests' = [requests EXCEPT ![c] = NoRequest]
  /\ UNCHANGED <<graph, cache, inflight, lastFailed>>

\* mintEntitlementAssertion: the header a caller was given, if any, and the
\* moment up to which it is accepted.
Holds(c) == /\ requests[c] # NoRequest
            /\ requests[c].state = "answered"
            /\ requests[c].grant
            /\ SigningKey

Accepted(c) == Holds(c) /\ now < requests[c].at + AssertionTtl

\* The clock does not pass the moment a Check times out.
Tick ==
  /\ now < MaxTime
  /\ \A s \in DOMAIN inflight : now < inflight[s].asked + Timeout
  /\ PassTime
  /\ UNCHANGED <<cache, inflight, requests, lastFailed>>

-----------------------------------------------------------------------------
Init ==
  /\ GraphInit
  /\ cache = [s \in {} |-> 0]
  /\ inflight = [s \in {} |-> 0]
  /\ requests = [c \in Callers |-> NoRequest]
  /\ lastFailed = [s \in Subjects |-> Never]

Next ==
  \/ \E c \in Callers, s \in Subjects :
       \/ RejectSubject(c, s)
       \/ AnswerFromCache(c, s)
       \/ Coalesce(c, s)
       \/ StartCheck(c, s)
  \/ \E s \in Subjects :
       \/ Decide(s)
       \/ ReceiveVerdict(s)
       \/ FailCheck(s)
  \/ \E c \in Callers : Leave(c)
  \/ \E s \in WellFormed :
       /\ now < LastChange
       /\ Grant(s) \/ Revoke(s)
       /\ UNCHANGED <<cache, inflight, requests, lastFailed>>
  \/ Tick

Spec == Init /\ [][Next]_vars

\* A Check ends: with its response, with an error, or by the client's timeout.
Fairness == \A s \in Subjects : WF_vars(ReceiveVerdict(s) \/ FailCheck(s))

FairSpec == Spec /\ Fairness

-----------------------------------------------------------------------------
(***************************************************************************)
(* Properties.                                                             *)
(***************************************************************************)
\* The Maps and the requests keep their shape, and only the identifiers that
\* isEntitlementSubject accepts are ever asked about.
TypeOK ==
  /\ now \in Nat
  /\ granted \subseteq WellFormed
  /\ lastGranted \in [Subjects -> Int]
  /\ lastRefused \in [Subjects -> Int]
  /\ lastFailed \in [Subjects -> Int]
  /\ DOMAIN cache \subseteq Subjects
  /\ cache \in [DOMAIN cache -> Entry]
  /\ DOMAIN inflight \subseteq WellFormed
  /\ inflight \in [DOMAIN inflight -> Check]
  /\ requests \in [Callers -> Request \cup {NoRequest}]

MaxOf(m, n) == IF m >= n THEN m ELSE n

\* A cached verdict serves requests for CacheTtl, and a Check that is joined
\* was put at most Timeout before.
Answered(c) == requests[c] # NoRequest /\ requests[c].state = "answered"

Gate == INSTANCE EntitlementGate WITH
  Staleness <- MaxOf(CacheTtl, Timeout + 1),
  FaultMemory <- ErrorTtl,
  NoAnswer <- NoRequest,
  answer <- [c \in Callers |->
    IF Answered(c)
      THEN [sub |-> requests[c].sub, at |-> requests[c].at, grant |-> requests[c].grant]
      ELSE NoRequest]

\* "Any Check that is not an explicit allowed: true is a deny", yet "recovery
\* is quick": a yes was the graph's word at most CacheTtl (or the length of a
\* joined Check) before the question, a no was its word within the same time
\* or follows a failure less than ErrorTtl before.
GateSpec == Gate!GateSpec

\* Whatever is cached, coalesced and signed, a header that is still accepted
\* belongs to a subject that held the grant less than one staleness and one
\* assertion lifetime ago: revoking it takes effect by then.
RevokeTakesEffect ==
  \A c \in Callers :
    Accepted(c) =>
      now < lastGranted[requests[c].sub] + MaxOf(CacheTtl, Timeout + 1) + AssertionTtl

\* "Hard ceiling on cached subjects", also when several Checks end while the
\* cache is full.
CacheBounded == Cardinality(DOMAIN cache) <= CacheMax

\* No caller waits for a Check that is over: the in-flight entry of a subject
\* goes only with the answers to all who joined it.
NobodyIsForgotten ==
  \A c \in Callers :
    requests[c] # NoRequest /\ requests[c].state = "waiting" =>
      requests[c].sub \in DOMAIN inflight

\* "Expired entries go first, and only if that is not enough the least
\* recently written": an entry that is live for the request at hand goes only
\* when the cache is left full of entries that are live and younger.
OldestGoFirst ==
  [][ \A s \in Subjects :
        /\ s \in DOMAIN inflight \ DOMAIN inflight'
        => \A r \in DOMAIN cache \ DOMAIN cache' :
             cache[r].expiresAt > inflight[s].asked =>
               /\ Cardinality(DOMAIN cache') = CacheMax
               /\ \A q \in DOMAIN cache' \ {s} :
                    /\ cache[q].expiresAt > inflight[s].asked
                    /\ r \in cache[q].older ]_vars

\* "Never a hang": every caller is answered, whatever becomes of the Check.
EveryoneIsAnswered ==
  \A c \in Callers :
    (requests[c] # NoRequest /\ requests[c].state = "waiting") ~> Answered(c)
=============================================================================
