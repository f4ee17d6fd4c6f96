---------------------------- MODULE EntitlementGate ----------------------------
(***************************************************************************)
(* What the entitlement module promises, without its cache and its checks: *)
(* whatever it answers about a subject rests on what the graph said, or on *)
(* a Check that failed, a bounded time before the question was put.        *)
(***************************************************************************)
EXTENDS EntitlementGraph

CONSTANTS
  Callers,       (* The requests served at the same time.                   *)
  Staleness,     (* How old the graph's word behind an answer may be.       *)
  FaultMemory,   (* How long a failed Check may keep denying.               *)
  NoAnswer       (* What a caller holds before and after its request.       *)

VARIABLES
  lastFailed,    (* When a Check about each subject last failed.            *)
  answer         (* What each caller was told, or NoAnswer.                 *)

gateVars == <<graph, lastFailed, answer>>

\* at is the moment the question was put.
Answer == [sub : Subjects, at : Nat, grant : BOOLEAN]

\* An answer that may be given when the Checks last failed at the moments of
\* failed.
Honest(a, failed) ==
  IF a.grant
    THEN lastGranted[a.sub] > a.at - Staleness
    ELSE \/ lastRefused[a.sub] > a.at - Staleness
         \/ failed[a.sub] > a.at - FaultMemory

GateInit ==
  /\ GraphInit
  /\ lastFailed = [s \in Subjects |-> Never]
  /\ answer = [c \in Callers |-> NoAnswer]

\* Answers are given, to one caller or to several at once, and forgotten.
Respond ==
  /\ answer' \in [Callers -> Answer \cup {NoAnswer}]
  /\ \A c \in Callers :
       answer'[c] # answer[c] /\ answer'[c] # NoAnswer =>
         Honest(answer'[c], lastFailed')
  /\ UNCHANGED graph

\* A Check about s fails, in the step of the answers it leads to.
Fail(s) == lastFailed' = [lastFailed EXCEPT ![s] = now]

GateNext ==
  \/ \E s \in WellFormed : (Grant(s) \/ Revoke(s)) /\ UNCHANGED <<lastFailed, answer>>
  \/ PassTime /\ UNCHANGED <<lastFailed, answer>>
  \/ Respond /\ (UNCHANGED lastFailed \/ \E s \in Subjects : Fail(s))

GateSpec == GateInit /\ [][GateNext]_gateVars
=============================================================================
