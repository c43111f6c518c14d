---------------------------- MODULE MCPushManager ----------------------------
(* Instances of PushManager: a user, a group it is in, and a few changes.  *)
EXTENDS PushManager

CONSTANTS u, g, n1, n2, c1

(* n1 is a change of the user, n2 a calendar alert of the group, which     *)
(* goes in a request of its own.                                           *)
AboutWhom == [n \in Notes |-> IF n = n2 THEN g ELSE u]
Parts == [n \in Notes |-> IF n = n2 THEN "alert" ELSE "state"]
=============================================================================
