----------------------------- MODULE MCSyncStream -----------------------------
(* Small instances of SyncStream. *)
EXTENDS SyncStream

CONSTANT
  a   \* a figure

OneFigure == <<a>>

MCQueues == {OneFigure}
=============================================================================
