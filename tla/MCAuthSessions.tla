---------------------------- MODULE MCAuthSessions ----------------------------
(* Small instances of AuthSessions. *)
EXTENDS AuthSessions
=============================================================================
