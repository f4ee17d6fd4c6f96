------------------------------ MODULE SyncStream ------------------------------
(***************************************************************************)
(* The live view of a sync session: GET /sync/stream/:sessionId keeps the  *)
(* response of every viewer in sseConnections, and each handler of SyncJob *)
(* that has saved its change tells all of them (broadcastToSession in      *)
(* src/src/routes/syncRoutes.ts).  The module adds to SyncJob what a       *)
(* handler does after its save, and the viewers.                           *)
(*                                                                         *)
(* A stream request is two steps, its findOne and the synchronous code     *)
(* after it; a broadcast is one, and so is the end of all streams after a  *)
(* cancellation.  Between a save and its broadcast other handlers run: an  *)
(* item report first stores the scraped figure.  A heartbeat writes to one *)
(* response and changes none of this.                                      *)
(***************************************************************************)
EXTENDS SyncJob

CONSTANTS
  Viewers,   (* Stream requests served at the same time.                   *)
  NoSet      (* sseConnections has no entry for the session.               *)

ASSUME NoSetAssumption == \A set \in SUBSET Viewers : NoSet # set

VARIABLES
  sseConnections,  (* The set of responses of the session, or NoSet.        *)
  streams,         (* The stream request of each viewer.                    *)
  news             (* What the handler in each slot saved and has not told. *)

streamVars == <<sseConnections, streams, news>>
allVars == <<job, age, runs, handlers, sseConnections, streams, news>>

(***************************************************************************)
(* State of a stream request:                                              *)
(*   idle     there is none                                                *)
(*   opening  findOne has read the job; its answer is under way            *)
(*   lost     as opening, but the client has left                          *)
(*   open     registered, and the client listens                           *)
(*   left     the client has left and 'close' is about to be emitted       *)
(*   ended    the server has ended the response, 'close' about to come     *)
(*   leaked   registered after the client left: 'close' was emitted before *)
(*            anyone listened to it                                        *)
(* final says that the open stream was told 'sync-complete'; nothing else  *)
(* of what an event says is kept.                                          *)
(***************************************************************************)
StreamStates == {"idle", "opening", "lost", "open", "left", "ended", "leaked"}

Phases == ActivePhases \cup TerminalPhases

Stream == [state : StreamStates, final : BOOLEAN]

In(state) == [state |-> state, final |-> FALSE]

NoStream == In("idle")

News == [kind : {"none", "item", "phase", "cancel"}, run : Nat, phase : Phases]

NoNews == [kind |-> "none", run |-> 0, phase |-> "failed"]

Connected == IF sseConnections = NoSet THEN {} ELSE sseConnections

\* The events that are followed, or replaced, by 'sync-complete'.
Final(event) ==
  \/ event.kind = "item" /\ event.phase \in {"completed", "failed"}
  \/ event.kind = "phase" /\ event.phase = "completed"
  \/ event.kind = "cancel"

-----------------------------------------------------------------------------
(***************************************************************************)
(* The viewer.                                                             *)
(***************************************************************************)
\* The job is read; without one the request is answered 404.
OpenStream(c) ==
  /\ streams[c] = NoStream
  /\ job # NoJob
  /\ streams' = [streams EXCEPT ![c] = In("opening")]
  /\ UNCHANGED <<sseConnections, news>>

\* The response joins the set and says 'connected' with what was read.  The code does not ask whether the client is still there.
Register(c) ==
  /\ streams[c].state \in {"opening", "lost"}
  /\ sseConnections' = Connected \cup {c}
  /\ streams' = [streams EXCEPT ![c] =
                   In(IF streams[c].state = "opening" THEN "open" ELSE "leaked")]
  /\ UNCHANGED news

ClientLeaves(c) ==
  /\ streams[c].state \in {"opening", "open"}
  /\ streams' = [streams EXCEPT ![c] =
                   In(IF streams[c].state = "opening" THEN "lost" ELSE "left")]
  /\ UNCHANGED <<sseConnections, news>>

\* Faulty: the entry of the session goes with the first viewer who leaves.
FaultyClose(c) ==
  /\ streams[c].state \in {"left", "ended"}
  /\ sseConnections' = NoSet
  /\ streams' = [streams EXCEPT ![c] = NoStream]
  /\ UNCHANGED news

\* Faulty: the last viewer leaves an empty set behind.
FaultyCloseLast(c) ==
  /\ streams[c].state \in {"left", "ended"}
  /\ sseConnections' = IF sseConnections = NoSet THEN NoSet ELSE Connected \ {c}
  /\ streams' = [streams EXCEPT ![c] = NoStream]
  /\ UNCHANGED news

\* The 'close' listener: the set found by the session's id may be another
\* than the one the response was put in.
Close(c) ==
  /\ streams[c].state \in {"left", "ended"}
  /\ sseConnections' = IF Connected \ {c} = {} THEN NoSet ELSE Connected \ {c}
  /\ streams' = [streams EXCEPT ![c] = NoStream]
  /\ UNCHANGED news

-----------------------------------------------------------------------------
(***************************************************************************)
(* The handlers of SyncJob and what they tell.                             *)
(***************************************************************************)
\* Faulty: whoever closes the job, the viewers are told before the save.
FaultyLoadWebhook(h) ==
  /\ news[h] = NoNews
  /\ Webhook(h)
  /\ news' = [news EXCEPT ![h] =
                [kind |-> handlers'[h].kind, run |-> handlers'[h].base.run,
                 phase |-> handlers'[h].doc.phase]]
  /\ UNCHANGED <<sseConnections, streams>>

LoadWebhook(h) ==
  /\ news[h] = NoNews
  /\ Webhook(h)
  /\ UNCHANGED streamVars

LoadRequest(h) ==
  /\ news[h] = NoNews
  /\ UserRequest(h)
  /\ UNCHANGED streamVars

\* A save that found its document is told; failStaleJob tells nobody.
Told(hd) ==
  IF hd.kind # "stale" /\ Matches(hd)
    THEN [kind |-> hd.kind, run |-> hd.base.run, phase |-> hd.doc.phase]
    ELSE NoNews

Save(h) ==
  /\ SaveJob(h)
  /\ news' = [news EXCEPT ![h] = Told(handlers[h])]
  /\ UNCHANGED <<sseConnections, streams>>

OtherJobStep(h) ==
  /\ DeleteFinishedJob(h) \/ CreateJob(h) \/ Abandon(h)
  /\ UNCHANGED streamVars

\* What an event does to the stream it is written to.
Hear(stream, event) ==
  IF stream.state = "open" THEN [stream EXCEPT !.final = @ \/ Final(event)]
                           ELSE stream

\* Faulty: a figure that cannot be stored fails the webhook.
FaultyBroadcast(h) ==
  /\ news[h].kind \in {"item", "phase"}
  /\ \/ streams' = [c \in Viewers |->
                      IF c \in Connected THEN Hear(streams[c], news[h]) ELSE streams[c]]
     \/ news[h].kind = "item" /\ UNCHANGED streams
  /\ news' = [news EXCEPT ![h] = NoNews]
  /\ UNCHANGED sseConnections

\* Whether the scraped figure could be stored or not.
Broadcast(h) ==
  /\ news[h].kind \in {"item", "phase"}
  /\ streams' = [c \in Viewers |->
                   IF c \in Connected THEN Hear(streams[c], news[h]) ELSE streams[c]]
  /\ news' = [news EXCEPT ![h] = NoNews]
  /\ UNCHANGED sseConnections

\* The viewer is told and the response ended; that of a client who is long
\* gone leaves nothing behind.
EndStream(stream) == IF stream.state = "leaked" THEN NoStream ELSE In("ended")

\* Faulty: the ended responses stay in the set.
FaultyBroadcastCancel(h) ==
  /\ news[h].kind = "cancel"
  /\ streams' = [c \in Viewers |->
                   IF c \in Connected THEN EndStream(streams[c]) ELSE streams[c]]
  /\ news' = [news EXCEPT ![h] = NoNews]
  /\ UNCHANGED sseConnections

BroadcastCancel(h) ==
  /\ news[h].kind = "cancel"
  /\ streams' = [c \in Viewers |->
                   IF c \in Connected THEN EndStream(streams[c]) ELSE streams[c]]
  /\ sseConnections' = NoSet
  /\ news' = [news EXCEPT ![h] = NoNews]

-----------------------------------------------------------------------------
StreamInit ==
  /\ Init
  /\ sseConnections = NoSet
  /\ streams = [c \in Viewers |-> NoStream]
  /\ news = [h \in Slots |-> NoNews]

ViewerStep(c) ==
  /\ OpenStream(c) \/ Register(c) \/ ClientLeaves(c) \/ Close(c)
  /\ UNCHANGED vars

Tell(h) ==
  /\ Broadcast(h) \/ BroadcastCancel(h)
  /\ UNCHANGED vars

StreamNext ==
  \/ \E h \in WebhookSlots : LoadWebhook(h)
  \/ \E h \in UserSlots : LoadRequest(h)
  \/ \E h \in Slots : Save(h) \/ OtherJobStep(h) \/ Tell(h)
  \/ (CleanupStaleSessions \/ Tick \/ ExpireCompleted) /\ UNCHANGED streamVars
  \/ \E c \in Viewers : ViewerStep(c)

StreamSpec == StreamInit /\ [][StreamNext]_allVars

(***************************************************************************)
(* Node runs the code after an await once the awaited promise is settled,  *)
(* and emits 'close' for a connection that is gone.                        *)
(***************************************************************************)
StreamFairSpec ==
  /\ StreamSpec
  /\ \A h \in Slots : WF_allVars(Tell(h))
  /\ \A c \in Viewers : WF_allVars(Register(c) /\ UNCHANGED vars)
  /\ \A c \in Viewers : WF_allVars(Close(c) /\ UNCHANGED vars)

-----------------------------------------------------------------------------
\* The viewers, the set and the untold news keep their shape; the map keeps no
\* empty set.
StreamTypeOK ==
  /\ sseConnections = NoSet \/ sseConnections \in (SUBSET Viewers) \ {{}}
  /\ streams \in [Viewers -> Stream]
  /\ news \in [Slots -> News]

\* A viewer who is connected is in the set that broadcasts go to, whoever
\* else comes, leaves or is ended by a cancellation at the same time.
OpenStreamsAreRegistered ==
  \A c \in Viewers : streams[c].state = "open" => c \in Connected

\* The set holds no response that the server has ended, and none that a
\* 'close' listener has dealt with: nothing is written after the end, even if
\* the cancellation and new viewers come while old streams are closing.
NoDeadStreams ==
  \A c \in Connected : streams[c].state \in {"open", "left", "leaked"}

Tells(h) == news[h] # NoNews /\ news'[h] = NoNews

\* "If job is complete, broadcast completion event": when the viewers are told
\* that a run is complete, the stored document of that run is closed, though
\* the report that closed it was saved some time before.  It holds when the
\* scraper sends one webhook at a time; news of a cancellation may come after
\* a webhook that reopened the job.
FinalNewsIsTrue ==
  [][ \A h \in Slots :
        /\ Tells(h) /\ Final(news[h]) /\ news[h].kind # "cancel"
        /\ job # NoJob /\ job.run = news[h].run
        => ~IsActive(job) ]_allVars

\* "Don't fail the webhook": a viewer who is connected when a handler has
\* saved the end of the job hears of it, whatever becomes of the figure.
EndIsHeard ==
  \A h \in WebhookSlots \cup UserSlots, c \in Viewers :
    Final(news[h]) /\ streams[c].state = "open"
      ~> streams[c].final \/ streams[c].state # "open"
=============================================================================
