---------------------------- MODULE MCTaskOwners -----------------------------
(* One node; a calendar event, and a task of its own or of a report, which *)
(* share one slot of a channel.                                            *)
EXTENDS TaskOwners

CONSTANTS a, other

OneType == [t \in Ids |-> other]
AllRoles == {[n \in Nodes |-> Types]}
One == [y \in Types |-> 1]
AlarmTimes == {{}, {3}, {2, 3}, {2, 3, 5}}
=============================================================================
