------------------------------ MODULE MCSyncJob ------------------------------
(* Small instances of SyncJob. *)
EXTENDS SyncJob, TLC

CONSTANTS
  a, b,   \* figures
  w1, w2  \* webhook slots

TwoFigures == <<a, b>>

OneFigure == <<b>>

MCQueues == {TwoFigures, OneFigure}

\* Webhook slots are interchangeable: no definition names one.
WebhookSymmetry == Permutations(WebhookSlots)
=============================================================================
