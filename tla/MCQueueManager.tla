--------------------------- MODULE MCQueueManager ---------------------------
(* Two messages in one virtual queue, whose threads are fewer. *)
EXTENDS QueueManager, TLC

CONSTANTS m1, m2, q1

SameQueue == (m1 :> q1) @@ (m2 :> q1)
=============================================================================
