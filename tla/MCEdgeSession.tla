---------------------------- MODULE MCEdgeSession ----------------------------
(* Instances of EdgeSession: a few public connections and DATA frames.      *)
EXTENDS EdgeSession
=============================================================================
