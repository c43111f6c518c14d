------------------------------ MODULE MCKvLock ------------------------------
(* Three workers contending for one key over four leases of two seconds.   *)
EXTENDS KvLock, TLC

Symmetry == Permutations(Workers)
=============================================================================
