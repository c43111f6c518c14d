------------------------------- MODULE Lease -------------------------------
(***************************************************************************)
(* What the lock of the in-memory store promises its callers: an exclusive *)
(* lease of bounded length.  A worker that was granted the lock is its     *)
(* only live holder until it gives it up or `Duration` seconds have gone   *)
(* by.  The promise is void once somebody deleted a lock that was not its  *)
(* own (`stray`): remove_lock and the purge delete by key, not by owner.   *)
(***************************************************************************)
EXTENDS Naturals

CONSTANTS
    Workers,     \* queue workers and task workers of every node
    Duration,    \* length of a lease in seconds
    MaxNow       \* bound: the clock stops here

VARIABLES
    now,         \* wall clock, in seconds
    lease,       \* lease[w]: expiry of the lease w works under, 0 if none
    stray        \* a live lock was deleted by someone who did not own it

vars == <<now, lease, stray>>

Live(w) == lease[w] > now

Init ==
    /\ now = 1
    /\ lease = [w \in Workers |-> 0]
    /\ stray = FALSE

(* A grant may be shorter than Duration: the caller's clock was read       *)
(* before the write took effect.                                           *)
Grant(w) ==
    /\ lease[w] = 0
    /\ stray \/ \A v \in Workers : ~Live(v)
    /\ \E e \in 1..(now + Duration) : lease' = [lease EXCEPT ![w] = e]
    /\ UNCHANGED <<now, stray>>

(* Unlocking, or dying. *)
GiveUp(w) ==
    /\ lease[w] # 0
    /\ lease' = [lease EXCEPT ![w] = 0]
    /\ stray' \in {stray, TRUE}
    /\ UNCHANGED now

Disturb ==
    /\ stray' = TRUE
    /\ UNCHANGED <<now, lease>>

Tick ==
    /\ now < MaxNow
    /\ now' = now + 1
    /\ UNCHANGED <<lease, stray>>

Next ==
    \/ \E w \in Workers : Grant(w) \/ GiveUp(w)
    \/ Disturb
    \/ Tick

Spec == Init /\ [][Next]_vars
=============================================================================
