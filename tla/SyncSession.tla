----------------------------- MODULE SyncSession ------------------------------
(***************************************************************************)
(* What a sync session is to those who call it, without handlers, copies   *)
(* and versions: one document, and every request that changes it does so   *)
(* at one moment.  Where the webhooks of the scraper overlap, less is      *)
(* promised of them.                                                       *)
(***************************************************************************)
EXTENDS Naturals, Sequences

CONSTANTS
  MfcIds,          (* Figures a queue may name.                             *)
  Queues,          (* The non-empty lists of figures that are announced.    *)
  ReportStatuses,  (* What is reported of a figure.                         *)
  ScraperPhases,   (* The phases that are announced.                        *)
  Alone            (* Whether webhooks never overlap.                       *)

VARIABLES
  session,   (* The document, or NoSession; once it expires it may vanish.  *)
  born       (* Documents so far.                                           *)

sessionVars == <<session, born>>

-----------------------------------------------------------------------------
Over == {"completed", "failed", "cancelled"}

Finished(queue) ==
  \A i \in DOMAIN queue : queue[i].status \in {"completed", "failed", "skipped"}

\* The first entry of a figure has the status that is reported.
Reported(queue, mfc, status) ==
  [i \in DOMAIN queue |->
     IF queue[i].mfc = mfc /\ \A k \in 1 .. i - 1 : queue[k].mfc # mfc
       THEN [queue[i] EXCEPT !.status = status] ELSE queue[i]]

Pending(queue) == [i \in 1 .. Len(queue) |-> [mfc |-> queue[i], status |-> "pending"]]

NoSession == [run |-> 0, phase |-> "failed", queue |-> <<>>, expires |-> FALSE]

Become(phase, queue, expires) ==
  /\ session # NoSession
  /\ session' = [session EXCEPT !.phase = phase, !.queue = queue, !.expires = expires]
  /\ UNCHANGED born

-----------------------------------------------------------------------------
SessionInit == session = NoSession /\ born = 0

Create ==
  /\ session = NoSession
  /\ born' = born + 1
  /\ session' = 
       [run |-> born + 1, phase |-> "validating", queue |-> <<>>, expires |-> FALSE]

Remove == session' = NoSession /\ UNCHANGED born

\* A cancellation or the cleanup, also of a session that is over by then.
Close == \E phase \in {"cancelled", "failed"} : Become(phase, session.queue, TRUE)

\* A report changes one entry, and the last one completes the session, unless
\* it is over already.
Report(mfc, status) ==
  LET queue == Reported(session.queue, mfc, status) IN
    \/ Finished(queue) /\ Become("completed", queue, TRUE)
    \/ /\ Finished(queue) => session.phase \in Over
       /\ Become(session.phase, queue, session.expires \/ Finished(queue))

\* One that overlaps with another webhook may be lost, and may complete the
\* session or fail to, whatever the queue.
Overlap(mfc, status) ==
  /\ ~Alone
  /\ \E phase \in {session.phase, "completed"},
        queue \in {session.queue, Reported(session.queue, mfc, status)},
        expires \in {session.expires, TRUE} :
       /\ phase # session.phase => expires
       /\ Become(phase, queue, expires)

\* A phase is announced, with a queue or without one.  A close that came
\* between is not taken back.
Announce(phase, queue) ==
  LET new == IF queue = <<>> THEN session.queue ELSE Pending(queue) IN
    \/ Become(phase, new, session.expires)
    \/ (Alone => session.phase # "completed") /\ Become(session.phase, new, session.expires)

\* There was nothing but lists to sync: the one end without an expiry.
EndWithoutQueue ==
  /\ Alone => session.queue = <<>>
  /\ Become("completed", session.queue, session.expires)

SessionNext ==
  \/ Create \/ Remove \/ Close \/ EndWithoutQueue
  \/ \E mfc \in MfcIds, status \in ReportStatuses : Report(mfc, status) \/ Overlap(mfc, status)
  \/ \E phase \in ScraperPhases, queue \in Queues \cup {<<>>} : Announce(phase, queue)

SessionSpec == SessionInit /\ [][SessionNext]_sessionVars
=============================================================================
