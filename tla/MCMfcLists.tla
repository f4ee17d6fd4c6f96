------------------------------ MODULE MCMfcLists ------------------------------
(* Small instances of MfcLists. *)
EXTENDS MfcLists, TLC

CONSTANTS a, b, n, m, l1, l2

Make(name, items, count) == [name |-> name, items |-> items, count |-> count]

MCNew == {Make(n, {a, b}, Unnamed)}

\* A new name; other members, or a list that is sent back as it was received.
MCPuts == {Make(m, Unnamed, Unnamed), Make(n, {a}, 1)}

Entry(l, items, count) == [list |-> l, name |-> n, items |-> items, count |-> count]

\* One list with members and one without.
MCSyncs == {<<Entry(l1, {a}, 0), Entry(l2, Unnamed, 2)>>}

SlotSymmetry == Permutations(Slots)
=============================================================================
