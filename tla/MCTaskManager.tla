---------------------------- MODULE MCTaskManager ----------------------------
(* Tasks of one type, one of them for a file, on one node or on both nodes *)
(* of a cluster.                                                           *)
EXTENDS TaskManager, TLC

CONSTANTS n1, n2, index

OneType == [t \in Ids |-> index]
OneOrBoth == {[n \in Nodes |-> IF n \in on THEN Types ELSE {}] : on \in {{n1}, {n2}, {n1, n2}}}
One == [y \in Types |-> 1]
Two == [y \in Types |-> 2]
Symmetry == Permutations(Nodes)
=============================================================================
