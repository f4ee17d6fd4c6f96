--------------------------- MODULE SyncStream_proofs ---------------------------
(***************************************************************************)
(* Proofs about SyncStream, for every number of viewers and handlers.      *)
(***************************************************************************)
EXTENDS SyncStream, SyncJob_proofs

-----------------------------------------------------------------------------
(***************************************************************************)
(* The composition is SyncJob with an audience: whatever is proved of      *)
(* SyncJob holds here.                                                     *)
(***************************************************************************)
LEMMA JobSteps == [StreamNext]_allVars => [Next]_vars
<1>1. ASSUME NEW h \in Slots, Save(h) \/ OtherJobStep(h)
      PROVE  Next
  BY <1>1 DEF Save, OtherJobStep, Next, Continue
<1>2. ASSUME NEW h \in Slots, Tell(h)
      PROVE  UNCHANGED vars
  BY <1>2 DEF Tell
<1>3. ASSUME NEW c \in Viewers, ViewerStep(c)
      PROVE  UNCHANGED vars
  BY <1>3 DEF ViewerStep
<1>4. ASSUME \/ \E h \in WebhookSlots : LoadWebhook(h)
             \/ \E h \in UserSlots : LoadRequest(h)
      PROVE  Next
  BY <1>4 DEF LoadWebhook, LoadRequest, Next
<1>5. CASE UNCHANGED allVars
  BY <1>5 DEF allVars, vars
<1>6. CleanupStaleSessions \/ Tick \/ ExpireCompleted => Next
  BY DEF Next
<1> QED BY <1>1, <1>2, <1>3, <1>4, <1>5, <1>6 DEF StreamNext

\* The broadcasts and the viewers change nothing of the job: every behaviour
\* of the handlers with their audience is one of SyncJob.
THEOREM StreamImplementsJob == StreamSpec => Spec
<1>1. StreamInit => Init
  BY DEF StreamInit
<1> QED BY <1>1, JobSteps, PTL DEF StreamSpec, Spec

-----------------------------------------------------------------------------
(***************************************************************************)
(* The set of responses.                                                   *)
(***************************************************************************)
LEMMA NoStreamFields == NoStream.state = "idle" /\ NoStream \in Stream
BY DEF NoStream, In, Stream, StreamStates

LEMMA InFields ==
  ASSUME NEW state \in StreamStates
  PROVE  In(state).state = state /\ In(state) \in Stream
BY DEF In, Stream

\* What a step does to the viewers and the set, whoever takes it.
LEMMA StreamCases ==
  ASSUME [StreamNext]_allVars
  PROVE  \/ UNCHANGED <<sseConnections, streams>>
         \/ \E c \in Viewers : OpenStream(c) \/ Register(c) \/ ClientLeaves(c) \/ Close(c)
         \/ \E h \in Slots : Broadcast(h) \/ BroadcastCancel(h)
BY DEF StreamNext, LoadWebhook, LoadRequest, Save, OtherJobStep, Tell, ViewerStep,
       streamVars, allVars

LEMMA HearType ==
  ASSUME NEW stream \in Stream, NEW event
  PROVE  /\ Hear(stream, event).state = stream.state
         /\ Final(event) \in BOOLEAN => Hear(stream, event) \in Stream
BY DEF Hear, Stream

LEMMA FinalType ==
  ASSUME NEW event
  PROVE  Final(event) \in BOOLEAN
BY DEF Final

LEMMA EndStreamType ==
  ASSUME NEW stream \in Stream
  PROVE  EndStream(stream).state \in {"idle", "ended"} /\ EndStream(stream) \in Stream
BY NoStreamFields, InFields DEF EndStream, StreamStates

StreamsShaped ==
  /\ sseConnections = NoSet \/ sseConnections \in (SUBSET Viewers) \ {{}}
  /\ streams \in [Viewers -> Stream]

LEMMA StreamsShapedNext == StreamsShaped /\ [StreamNext]_allVars => StreamsShaped'
<1> SUFFICES ASSUME StreamsShaped, [StreamNext]_allVars
             PROVE  StreamsShaped'
  OBVIOUS
<1>0. Connected \in SUBSET Viewers
  BY DEF StreamsShaped, Connected
<1>1. CASE UNCHANGED <<sseConnections, streams>>
  BY <1>1 DEF StreamsShaped
<1>2. ASSUME NEW c \in Viewers, OpenStream(c) \/ ClientLeaves(c)
      PROVE  StreamsShaped'
  <2>1. \E s \in Stream : streams' = [streams EXCEPT ![c] = s]
    BY <1>2, InFields DEF OpenStream, ClientLeaves, StreamStates
  <2> QED BY <1>2, <2>1 DEF StreamsShaped, OpenStream, ClientLeaves
<1>3. ASSUME NEW c \in Viewers, Register(c)
      PROVE  StreamsShaped'
  <2>1. \E s \in Stream : streams' = [streams EXCEPT ![c] = s]
    BY <1>3, InFields DEF Register, StreamStates
  <2>2. sseConnections' \in (SUBSET Viewers) \ {{}}
    BY <1>0, <1>3 DEF Register
  <2> QED BY <2>1, <2>2 DEF StreamsShaped
<1>4. ASSUME NEW c \in Viewers, Close(c)
      PROVE  StreamsShaped'
  BY <1>0, <1>4, NoStreamFields DEF Close, StreamsShaped
<1>5. ASSUME NEW h \in Slots, Broadcast(h)
      PROVE  StreamsShaped'
  <2>1. \A c \in Viewers : Hear(streams[c], news[h]) \in Stream /\ streams[c] \in Stream
    BY HearType, FinalType DEF StreamsShaped
  <2> QED BY <1>5, <2>1 DEF Broadcast, StreamsShaped
<1>6. ASSUME NEW h \in Slots, BroadcastCancel(h)
      PROVE  StreamsShaped'
  <2>1. \A c \in Viewers : EndStream(streams[c]) \in Stream /\ streams[c] \in Stream
    BY EndStreamType DEF StreamsShaped
  <2> QED BY <1>6, <2>1 DEF BroadcastCancel, StreamsShaped
<1> QED BY <1>1, <1>2, <1>3, <1>4, <1>5, <1>6, StreamCases

LEMMA StreamsShapedAlways == StreamSpec => []StreamsShaped
<1>1. StreamInit => StreamsShaped
  BY NoStreamFields DEF StreamInit, StreamsShaped
<1> QED BY <1>1, StreamsShapedNext, PTL DEF StreamSpec

\* Shows that no interleaving of arrivals, departures and a cancellation
\* leaves a connected viewer out of the broadcasts.
THEOREM StreamsRegistered == StreamSpec => []OpenStreamsAreRegistered
<1>1. StreamInit => OpenStreamsAreRegistered
  BY NoStreamFields DEF StreamInit, OpenStreamsAreRegistered
<1>2. ASSUME StreamsShaped, OpenStreamsAreRegistered, [StreamNext]_allVars
      PROVE  OpenStreamsAreRegistered'
  <2>0. /\ \A set \in SUBSET Viewers : NoSet # set
        /\ Connected \in SUBSET Viewers
    BY <1>2, NoSetAssumption DEF StreamsShaped, Connected
  <2>1. CASE UNCHANGED <<sseConnections, streams>>
    BY <1>2, <2>1 DEF OpenStreamsAreRegistered, Connected
  <2>2. ASSUME NEW c \in Viewers, OpenStream(c) \/ ClientLeaves(c)
        PROVE  OpenStreamsAreRegistered'
    <3>1. \E state \in {"opening", "lost", "left"} :
            streams' = [streams EXCEPT ![c] = In(state)]
      BY <2>2 DEF OpenStream, ClientLeaves
    <3>2. \A v \in Viewers : streams'[v].state = "open" => streams'[v] = streams[v]
      BY <1>2, <3>1, InFields DEF StreamsShaped, StreamStates
    <3> QED BY <1>2, <2>2, <3>2
            DEF OpenStream, ClientLeaves, OpenStreamsAreRegistered, Connected
  <2>3. ASSUME NEW c \in Viewers, Register(c)
        PROVE  OpenStreamsAreRegistered'
    <3>1. Connected' = Connected \cup {c}
      BY <2>0, <2>3 DEF Register, Connected
    <3>2. \A v \in Viewers \ {c} : streams'[v] = streams[v]
      BY <1>2, <2>3 DEF Register, StreamsShaped
    <3> QED BY <1>2, <3>1, <3>2 DEF OpenStreamsAreRegistered
  <2>4. ASSUME NEW c \in Viewers, Close(c)
        PROVE  OpenStreamsAreRegistered'
    <3>1. Connected' = Connected \ {c}
      BY <2>0, <2>4 DEF Close, Connected
    <3>2. \A v \in Viewers : streams'[v].state = "open" =>
                               v # c /\ streams'[v] = streams[v]
      BY <1>2, <2>4, NoStreamFields DEF Close, StreamsShaped
    <3> QED BY <1>2, <3>1, <3>2 DEF OpenStreamsAreRegistered
  <2>5. ASSUME NEW h \in Slots, Broadcast(h)
        PROVE  OpenStreamsAreRegistered'
    <3>1. \A v \in Viewers : streams'[v].state = streams[v].state
      BY <1>2, <2>5, HearType DEF Broadcast, StreamsShaped
    <3> QED BY <1>2, <2>5, <3>1 DEF Broadcast, OpenStreamsAreRegistered, Connected
  <2>6. ASSUME NEW h \in Slots, BroadcastCancel(h)
        PROVE  OpenStreamsAreRegistered'
    <3>1. \A v \in Viewers : streams'[v].state # "open"
      BY <1>2, <2>6, EndStreamType
         DEF BroadcastCancel, StreamsShaped, OpenStreamsAreRegistered
    <3> QED BY <3>1 DEF OpenStreamsAreRegistered
  <2> QED BY <1>2, <2>1, <2>2, <2>3, <2>4, <2>5, <2>6, StreamCases
<1> QED BY <1>1, <1>2, StreamsShapedAlways, PTL DEF StreamSpec

\* Shows that a broadcast never writes to a response the server has ended or
\* forgotten.
THEOREM OnlyLiveStreams == StreamSpec => []NoDeadStreams
<1>1. StreamInit => NoDeadStreams
  BY DEF StreamInit, NoDeadStreams, Connected
<1>2. ASSUME StreamsShaped, NoDeadStreams, [StreamNext]_allVars
      PROVE  NoDeadStreams'
  <2>0. /\ \A set \in SUBSET Viewers : NoSet # set
        /\ Connected \in SUBSET Viewers
    BY <1>2, NoSetAssumption DEF StreamsShaped, Connected
  <2>1. CASE UNCHANGED <<sseConnections, streams>>
    BY <1>2, <2>1 DEF NoDeadStreams, Connected
  <2>2. ASSUME NEW c \in Viewers, OpenStream(c) \/ ClientLeaves(c)
        PROVE  NoDeadStreams'
    <3>1. Connected' = Connected /\ \A v \in Viewers \ {c} : streams'[v] = streams[v]
      BY <1>2, <2>2 DEF OpenStream, ClientLeaves, StreamsShaped, Connected
    <3>2. c \in Connected => streams'[c].state = "left"
      <4>1. c \in Connected => streams[c].state = "open"
        BY <1>2, <2>2, NoStreamFields DEF OpenStream, ClientLeaves, NoDeadStreams
      <4> QED BY <1>2, <2>2, <4>1, NoStreamFields, InFields
              DEF OpenStream, ClientLeaves, StreamsShaped, StreamStates
    <3> QED BY <1>2, <2>0, <3>1, <3>2 DEF NoDeadStreams
  <2>3. ASSUME NEW c \in Viewers, Register(c)
        PROVE  NoDeadStreams'
    <3>1. Connected' = Connected \cup {c}
      BY <2>0, <2>3 DEF Register, Connected
    <3>2. /\ \A v \in Viewers \ {c} : streams'[v] = streams[v]
          /\ streams'[c].state \in {"open", "leaked"}
      BY <1>2, <2>3, InFields DEF Register, StreamsShaped, StreamStates
    <3> QED BY <1>2, <2>0, <3>1, <3>2 DEF NoDeadStreams
  <2>4. ASSUME NEW c \in Viewers, Close(c)
        PROVE  NoDeadStreams'
    <3>1. Connected' = Connected \ {c}
      BY <2>0, <2>4 DEF Close, Connected
    <3>2. \A v \in Viewers \ {c} : streams'[v] = streams[v]
      BY <1>2, <2>4 DEF Close, StreamsShaped
    <3> QED BY <1>2, <2>0, <3>1, <3>2 DEF NoDeadStreams
  <2>5. ASSUME NEW h \in Slots, Broadcast(h)
        PROVE  NoDeadStreams'
    <3>1. \A v \in Viewers : streams'[v].state = streams[v].state
      BY <1>2, <2>5, HearType DEF Broadcast, StreamsShaped
    <3> QED BY <1>2, <2>0, <2>5, <3>1 DEF Broadcast, NoDeadStreams, Connected
  <2>6. ASSUME NEW h \in Slots, BroadcastCancel(h)
        PROVE  NoDeadStreams'
    BY <2>6 DEF BroadcastCancel, NoDeadStreams, Connected
  <2> QED BY <1>2, <2>1, <2>2, <2>3, <2>4, <2>5, <2>6, StreamCases
<1> QED BY <1>1, <1>2, StreamsShapedAlways, PTL DEF StreamSpec

-----------------------------------------------------------------------------
(***************************************************************************)
(* The news.                                                               *)
(***************************************************************************)
LEMMA NoNewsFields == NoNews.kind = "none" /\ NoNews \in News
BY DEF NoNews, News, Phases, TerminalPhases

LEMMA ToldType ==
  ASSUME TypeOK, NEW h \in Slots, handlers[h].kind \in SaveKinds
  PROVE  Told(handlers[h]) \in News
<1>1. handlers[h] \in Handler
  BY DEF TypeOK
<1> QED BY <1>1, NoNewsFields DEF Told, News, Handler, Doc, Phases, SaveKinds

\* A step either saves, or it forgets news and leaves the document alone,
\* removes it, or creates the next one.
NewsKept ==
  /\ \/ news' = news
     \/ \E h \in Slots : news' = [news EXCEPT ![h] = NoNews]
  /\ \/ job' \in {job, NoJob} /\ runs' = runs
     \/ job' = NewDoc(runs + 1) /\ runs' = runs + 1

LEMMA NewsCases ==
  ASSUME TypeOK, [StreamNext]_allVars
  PROVE  (\E h \in Slots : Save(h)) \/ NewsKept
<1>1. ASSUME NEW h \in Slots, NEW hd, Begins(h, hd), UNCHANGED news
      PROVE  NewsKept
  BY <1>1 DEF Begins, Start, NewsKept
<1>2. ASSUME NEW h \in WebhookSlots, LoadWebhook(h)
      PROVE  NewsKept
  <2>1. \E hd : Begins(h, hd)
    BY <1>2, ItemBegins, PhaseBegins, ListsOnlyBegins DEF LoadWebhook, Webhook
  <2> QED BY <1>1, <1>2, <2>1 DEF LoadWebhook, streamVars, Slots
<1>3. ASSUME NEW h \in UserSlots, LoadRequest(h)
      PROVE  NewsKept
  <2>1. \E hd : Begins(h, hd)
    BY <1>3, CloseBegins, CreateBegins DEF LoadRequest, UserRequest, LoadActiveJob
  <2> QED BY <1>1, <1>3, <2>1 DEF LoadRequest, streamVars, Slots
<1>4. ASSUME CleanupStaleSessions, UNCHANGED streamVars
      PROVE  NewsKept
  <2>1. \E hd : Begins(Timer, hd)
    BY <1>4, CloseBegins DEF CleanupStaleSessions
  <2> QED BY <1>1, <1>4, <2>1 DEF streamVars, Slots
<1>5. ASSUME NEW h \in Slots, OtherJobStep(h)
      PROVE  NewsKept
  BY <1>5 DEF OtherJobStep, DeleteFinishedJob, CreateJob, Abandon, streamVars, NewsKept
<1>6. ASSUME NEW h \in Slots, Tell(h)
      PROVE  NewsKept
  BY <1>6 DEF Tell, Broadcast, BroadcastCancel, vars, NewsKept
<1>7. ASSUME Tick \/ ExpireCompleted, UNCHANGED streamVars
      PROVE  NewsKept
  BY <1>7 DEF Tick, ExpireCompleted, streamVars, NewsKept
<1>8. ASSUME NEW c \in Viewers, ViewerStep(c)
      PROVE  NewsKept
  BY <1>8 DEF ViewerStep, OpenStream, Register, ClientLeaves, Close, vars, NewsKept
<1>9. CASE UNCHANGED allVars
  BY <1>9 DEF allVars, NewsKept
<1> QED BY <1>2, <1>3, <1>4, <1>5, <1>6, <1>7, <1>8, <1>9 DEF StreamNext

NewsShaped == news \in [Slots -> News]

LEMMA NewsShapedAlways == StreamSpec => []NewsShaped
<1>1. StreamInit => NewsShaped
  BY NoNewsFields DEF StreamInit, NewsShaped
<1>2. ASSUME TypeOK, NewsShaped, [StreamNext]_allVars
      PROVE  NewsShaped'
  <2>1. ASSUME NEW h \in Slots, Save(h)
        PROVE  NewsShaped'
    BY <1>2, <2>1, ToldType DEF Save, SaveJob, NewsShaped
  <2>2. NewsKept => NewsShaped'
    BY <1>2, NoNewsFields DEF NewsKept, NewsShaped
  <2> QED BY <1>2, <2>1, <2>2, NewsCases
<1> QED BY <1>1, <1>2, StreamImplementsJob, TypeCorrect, PTL DEF StreamSpec

\* The map of connections, the viewers and the untold news keep their shape,
\* and no empty set is left behind.
THEOREM StreamsTypeCorrect == StreamSpec => []StreamTypeOK
<1>1. StreamsShaped /\ NewsShaped => StreamTypeOK
  BY DEF StreamsShaped, NewsShaped, StreamTypeOK
<1> QED BY <1>1, StreamsShapedAlways, NewsShapedAlways, PTL

-----------------------------------------------------------------------------
(***************************************************************************)
(* News of a completion.  One webhook at a time: while its news is untold  *)
(* no other webhook is served, and cancel and cleanup only close the job.  *)
(***************************************************************************)
Completes(event) == event.kind \in {"item", "phase"} /\ Final(event)

NewsInv ==
  \A h \in Slots :
    /\ news[h].kind \in {"item", "phase"} => h \in WebhookSlots
    /\ news[h].kind # "none" => news[h].run \in 1..runs
    /\ Completes(news[h]) /\ job # NoJob /\ job.run = news[h].run => ~IsActive(job)

\* The save of a report that completes the run leaves the document closed.
LEMMA CompletingSave ==
  ASSUME TypeOK, QueueInv, SerialInv, NEW h \in Slots, SaveJob(h),
         Completes(Told(handlers[h]))
  PROVE  ~IsActive(job')
<1> DEFINE hd == handlers[h]
<1>1. /\ hd.kind \in {"item", "phase"} /\ Matches(hd)
      /\ hd.doc.phase \in {"completed", "failed"}
  BY NoNewsFields DEF Told, Completes, Final
<1>2. CopyShape(hd) /\ h \in WebhookSlots /\ job \in Doc
  BY <1>1 DEF QueueInv, CopiesShaped, TypeOK
<1>3. job.phase \in {hd.base.phase, "cancelled", "failed"}
  BY <1>1, <1>2 DEF SerialInv, CopyIsCurrent, Matches
<1>4. CASE ~hd.dirty
  <2>1. job' = job /\ hd.doc.phase = hd.base.phase
    BY <1>1, <1>2, <1>4 DEF SaveJob, CopyShape
  <2> QED BY <1>1, <1>3, <2>1 DEF IsActive, ActivePhases
<1>5. CASE hd.dirty
  <2>1. job' = Written(hd)
    BY <1>1, <1>5 DEF SaveJob
  <2>2. job'.phase \in {"completed", "cancelled", "failed"}
    BY <1>1, <1>2, <1>3, <2>1, WrittenFields
  <2> QED BY <2>2 DEF IsActive, ActivePhases
<1>6. hd.dirty \in BOOLEAN
  BY DEF TypeOK, Handler
<1> QED BY <1>4, <1>5, <1>6

LEMMA NewsInvNext ==
  ASSUME NEW w, WebhookSlots = {w},
         TypeOK, NewsShaped, QueueInv, SerialInv, NewsInv, [StreamNext]_allVars
  PROVE  NewsInv'
<1>0. runs \in Nat /\ NoJob.run = 0 /\ job \in Doc
  BY NoJobRun DEF TypeOK
<1>1. ASSUME NewsKept
      PROVE  NewsInv'
  <2>1. \A h \in Slots : news'[h] \in {news[h], NoNews}
    BY <1>1 DEF NewsKept, NewsShaped
  <2>2. ~Completes(NoNews)
    BY NoNewsFields DEF Completes
  <2>3. CASE job' \in {job, NoJob} /\ runs' = runs
    BY <2>1, <2>2, <2>3, NoNewsFields DEF NewsInv
  <2>4. CASE job' = NewDoc(runs + 1) /\ runs' = runs + 1
    <3>1. job'.run = runs + 1
      BY <2>4 DEF NewDoc
    <3>2. \A h \in Slots : Completes(news[h]) => news[h].run # runs + 1
      BY <1>0 DEF NewsInv, Completes
    <3> QED BY <1>0, <2>1, <2>2, <2>4, <3>1, <3>2, NoNewsFields DEF NewsInv
  <2> QED BY <1>1, <2>3, <2>4 DEF NewsKept
<1>2. ASSUME NEW h \in Slots, Save(h)
      PROVE  NewsInv'
  <2> DEFINE hd == handlers[h]
  <2>1. /\ SaveJob(h) /\ hd.kind \in SaveKinds /\ runs' = runs
        /\ job' \in {job, Written(hd)}
        /\ \A g \in Slots : news'[g] = IF g = h THEN Told(hd) ELSE news[g]
    BY <1>2 DEF Save, SaveJob, NewsShaped
  <2>2. CopyShape(hd) /\ hd \in Handler
    BY DEF QueueInv, CopiesShaped, TypeOK
  <2>3. /\ Told(hd).kind \in {"item", "phase"} => h \in WebhookSlots
        /\ Told(hd).kind # "none" => Told(hd).run \in 1..runs'
    <3>1. Told(hd).kind # "none" =>
            Told(hd).kind = hd.kind /\ Told(hd).run = hd.base.run
      BY NoNewsFields DEF Told
    <3>2. hd.base.run \in 1..runs
      BY <2>1 DEF QueueInv, CopiesShaped
    <3>3. hd.kind \in {"item", "phase"} => h \in WebhookSlots
      BY DEF QueueInv, CopiesShaped
    <3> QED BY <2>1, <3>1, <3>2, <3>3
  <2>4. Completes(Told(hd)) => ~IsActive(job')
    BY <2>1, CompletingSave
  <2>5. ASSUME NEW g \in Slots, g # h, Completes(news[g]), job' # NoJob,
               job'.run = news[g].run
        PROVE  ~IsActive(job')
    <3>1. g = w /\ h # w
      BY <2>5 DEF NewsInv, Completes
    <3>2. hd.kind \in {"cancel", "stale"}
      BY <2>1, <3>1 DEF QueueInv, CopiesShaped, SaveKinds
    <3>3. job'.run = job.run /\ job'.phase \in {job.phase, "cancelled", "failed"}
      BY <2>1, <2>2, <3>2, ClosingSave
    <3>4. job # NoJob
      <4>1. news[g].kind # "none"
        BY <2>5 DEF Completes
      <4>2. news[g].run \in 1..runs
        BY <4>1 DEF NewsInv
      <4> QED BY <1>0, <2>5, <3>3, <4>2
    <3>5. ~IsActive(job)
      BY <2>5, <3>3, <3>4 DEF NewsInv
    <3> QED BY <3>3, <3>5 DEF IsActive, ActivePhases
  <2> QED BY <2>1, <2>3, <2>4, <2>5 DEF NewsInv
<1> QED BY <1>1, <1>2, NewsCases

\* With one webhook at a time nobody is told that a run is complete while its
\* document is still active.
THEOREM CompletionNewsTrue ==
  ASSUME NEW w, WebhookSlots = {w}
  PROVE  StreamSpec => FinalNewsIsTrue
<1>1. StreamInit => NewsInv
  BY NoNewsFields DEF StreamInit, NewsInv, Completes
<1>2. TypeOK /\ NewsShaped /\ QueueInv /\ SerialInv /\ NewsInv /\ [StreamNext]_allVars
        => NewsInv'
  BY NewsInvNext
<1>3. NewsShaped /\ NewsInv =>
        [\A h \in Slots :
           /\ Tells(h) /\ Final(news[h]) /\ news[h].kind # "cancel"
           /\ job # NoJob /\ job.run = news[h].run
           => ~IsActive(job)]_allVars
  BY DEF NewsInv, Completes, Final
<1> QED BY <1>1, <1>2, <1>3, StreamImplementsJob, TypeCorrect, QueueInvariant,
           SerialInvariant, NewsShapedAlways, PTL
        DEF StreamSpec, FinalNewsIsTrue
=============================================================================
