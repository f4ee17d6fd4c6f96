-------------------------- MODULE MCEntitlementGrants --------------------------
(* Small instances of EntitlementGrants. *)
EXTENDS EntitlementGrants, TLC

MCNever == -4

\* No definition names a subject or a caller.
Interchangeable == Permutations(WellFormed) \cup Permutations(Callers)
=============================================================================
