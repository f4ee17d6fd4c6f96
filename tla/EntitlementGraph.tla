--------------------------- MODULE EntitlementGraph ---------------------------
(***************************************************************************)
(* The clock and the authorization graph (OpenFGA), which is outside the   *)
(* repository: the set of subjects that hold the grant, and, so that the   *)
(* age of an answer can be spoken of, the last moment each subject held it *)
(* and the last moment it did not.                                         *)
(***************************************************************************)
EXTENDS Integers

CONSTANTS
  Subjects,      (* The identities a caller may present.                    *)
  WellFormed,    (* Those that are Authentik uuids; no tuple names another. *)
  Never          (* A moment too long ago for any answer to rest on it.     *)

ASSUME SubjectsAssumption == WellFormed \subseteq Subjects
ASSUME NeverAssumption == Never \in Int /\ Never < 0

VARIABLES
  now,           (* The clock.                                              *)
  granted,       (* The subjects that hold the grant.                       *)
  lastGranted,   (* When each subject last held it; now when it does.       *)
  lastRefused    (* When each subject last did not; now when it does not.   *)

graph == <<now, granted, lastGranted, lastRefused>>

GraphInit ==
  /\ now = 0
  /\ granted \in SUBSET WellFormed
  /\ lastGranted = [s \in Subjects |-> IF s \in granted THEN 0 ELSE Never]
  /\ lastRefused = [s \in Subjects |-> IF s \in granted THEN Never ELSE 0]

Grant(s) ==
  /\ s \notin granted
  /\ granted' = granted \cup {s}
  /\ lastGranted' = [lastGranted EXCEPT ![s] = now]
  /\ UNCHANGED <<now, lastRefused>>

Revoke(s) ==
  /\ s \in granted
  /\ granted' = granted \ {s}
  /\ lastRefused' = [lastRefused EXCEPT ![s] = now]
  /\ UNCHANGED <<now, lastGranted>>

PassTime ==
  /\ now' = now + 1
  /\ lastGranted' = [s \in Subjects |-> IF s \in granted THEN now + 1 ELSE lastGranted[s]]
  /\ lastRefused' = [s \in Subjects |-> IF s \in granted THEN lastRefused[s] ELSE now + 1]
  /\ UNCHANGED granted
=============================================================================
