----------------------------- MODULE MCEdgeGate -----------------------------
(* Instances of EdgeGate: the Mac connects a few times.                     *)
EXTENDS EdgeGate
=============================================================================
