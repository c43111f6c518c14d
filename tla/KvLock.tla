------------------------------- MODULE KvLock -------------------------------
(***************************************************************************)
(* The lock of the in-memory store when it lives in a data store           *)
(* (InMemoryStore::Store): one key whose value is the second at which the  *)
(* lock expires.  try_lock reads the key, looks at the clock and writes    *)
(* under an assertion on the value it read; remove_lock deletes the key    *)
(* whoever wrote it; purge_in_memory_store lists the expired keys and      *)
(* deletes them in a later batch.  The queue locks its events with it      *)
(* (smtp queue/spool.rs) and the task manager its tasks.                   *)
(*                                                                         *)
(* The key may still hold a value that an earlier release wrote and that   *)
(* is no u64; try_lock clears it, in a batch that asserts nothing, and     *)
(* goes on as if the key had been absent.                                  *)
(*                                                                         *)
(* One key is modelled: no operation touches two.  All the nodes read the  *)
(* same clock.                                                             *)
(***************************************************************************)
EXTENDS Naturals

CONSTANTS
    Workers,     \* queue workers and task workers of every node
    Duration,    \* seconds a lock is taken for (LOCK_EXPIRY, DEFAULT_LOCK_EXPIRY)
    MaxNow       \* bound: the clock stops here

ASSUME DurationAssumption == Duration \in Nat \ {0}
ASSUME MaxNowAssumption == MaxNow \in Nat

VARIABLES
    now,         \* wall clock, in seconds
    lock,        \* value of the key in the store, NoLock if the key is absent
    garbled,     \* the key holds a value that u64::deserialize refuses
    pc,          \* pc[w]: where worker w is
    seen,        \* seen[w]: the lock_expiry that w's try_lock read
    asOf,        \* asOf[w]: the clock as w's try_lock read it
    lease,       \* lease[w]: the expiry that w wrote, 0 if it wrote none
    listed,      \* the purge has the key among its expired_keys
    stray        \* history: a live lock was deleted by someone not its owner

vars == <<now, lock, garbled, pc, seen, asOf, lease, listed, stray>>

NoLock == 0

PCs == {"idle", "clear", "read", "set", "held"}

(* Every variable holds what try_lock and remove_lock can leave in it.     *)
TypeOK ==
    /\ now \in Nat \ {0}
    /\ lock \in Nat
    /\ garbled \in BOOLEAN
    /\ pc \in [Workers -> PCs]
    /\ seen \in [Workers -> Nat]
    /\ asOf \in [Workers -> Nat]
    /\ lease \in [Workers -> Nat]
    /\ listed \in BOOLEAN
    /\ stray \in BOOLEAN

Init ==
    /\ now = 1
    /\ lock = NoLock
    /\ garbled \in BOOLEAN
    /\ pc = [w \in Workers |-> "idle"]
    /\ seen = [w \in Workers |-> NoLock]
    /\ asOf = [w \in Workers |-> 0]
    /\ lease = [w \in Workers |-> 0]
    /\ listed = FALSE
    /\ stray = FALSE

Holds(w) == pc[w] = "held"
Live(w) == Holds(w) /\ lease[w] > now

-----------------------------------------------------------------------------
(* try_lock *)

(* The attempt moves on, or is over, with nothing read from the key or the *)
(* clock.                                                                  *)
Leave(w, where) ==
    /\ pc' = [pc EXCEPT ![w] = where]
    /\ seen' = [seen EXCEPT ![w] = NoLock]
    /\ asOf' = [asOf EXCEPT ![w] = 0]

(* get_value of the key: its expiry, or DataCorruption.                    *)
ReadLock(w) ==
    /\ pc[w] = "idle"
    /\ seen' = [seen EXCEPT ![w] = lock]
    /\ pc' = [pc EXCEPT ![w] = IF garbled THEN "clear" ELSE "read"]
    /\ UNCHANGED <<now, lock, garbled, asOf, lease, listed, stray>>

(* The unreadable value is cleared, whatever the key holds by now, and the *)
(* attempt goes on with no lock_expiry.  `ok` is FALSE when the batch took *)
(* effect and the caller was told that it failed.                          *)
ClearCorrupt(w, ok) ==
    /\ pc[w] = "clear"
    /\ lock' = NoLock
    /\ garbled' = FALSE
    /\ stray' = (stray \/ lock > now)
    /\ Leave(w, IF ok THEN "read" ELSE "idle")
    /\ UNCHANGED <<now, lease, listed>>

(* Mutant: the test of the expiry is missing. *)
CheckExpiry_NoTest(w) ==
    /\ pc[w] = "read"
    /\ pc' = [pc EXCEPT ![w] = "set"]
    /\ asOf' = [asOf EXCEPT ![w] = now]
    /\ UNCHANGED <<now, lock, garbled, seen, lease, listed, stray>>

(* now() is read after the key; an unexpired lock is somebody else's. *)
CheckExpiry(w) ==
    /\ pc[w] = "read"
    /\ \/ /\ seen[w] > now
          /\ Leave(w, "idle")
       \/ /\ seen[w] <= now
          /\ pc' = [pc EXCEPT ![w] = "set"]
          /\ asOf' = [asOf EXCEPT ![w] = now]
          /\ UNCHANGED seen
    /\ UNCHANGED <<now, lock, garbled, lease, listed, stray>>

(* Mutant: the write asserts nothing. *)
WriteLock_NoAssert(w, ok) ==
    /\ pc[w] = "set"
    /\ lock' = asOf[w] + Duration
    /\ garbled' = FALSE
    /\ Leave(w, IF ok THEN "held" ELSE "idle")
    /\ lease' = [lease EXCEPT ![w] = IF ok THEN lock' ELSE 0]
    /\ UNCHANGED <<now, listed, stray>>

(* Mutant: the clock is added twice, an absolute time taken for a duration. *)
WriteLock_AbsoluteDuration(w, ok) ==
    /\ pc[w] = "set"
    /\ lock = seen[w] /\ ~garbled
    /\ lock' = asOf[w] + now + Duration
    /\ Leave(w, IF ok THEN "held" ELSE "idle")
    /\ lease' = [lease EXCEPT ![w] = IF ok THEN lock' ELSE 0]
    /\ UNCHANGED <<now, garbled, listed, stray>>

(* The batch: assert that the key still has the value read, then set it.   *)
(* `ok` is FALSE when the write took effect and the caller was told that   *)
(* it failed, in which case nobody owns the lock until it expires.         *)
WriteLock(w, ok) ==
    /\ pc[w] = "set"
    /\ lock = seen[w] /\ ~garbled
    /\ lock' = asOf[w] + Duration
    /\ Leave(w, IF ok THEN "held" ELSE "idle")
    /\ lease' = [lease EXCEPT ![w] = IF ok THEN lock' ELSE 0]
    /\ UNCHANGED <<now, garbled, listed, stray>>

(* Mutant: the caller unlocks on every path, the failed attempt included. *)
GiveUpTrying_Unlock(w) ==
    /\ pc[w] \in {"clear", "read", "set"}
    /\ Leave(w, "idle")
    /\ lock' = NoLock
    /\ garbled' = FALSE
    /\ stray' = (stray \/ lock > now)
    /\ UNCHANGED <<now, lease, listed>>

(* The assertion failed, or the read or the write did: Ok(false) or an     *)
(* error that try_lock_event and try_lock_task turn into false.            *)
GiveUpTrying(w) ==
    /\ pc[w] \in {"clear", "read", "set"}
    /\ Leave(w, "idle")
    /\ UNCHANGED <<now, lock, garbled, lease, listed, stray>>

-----------------------------------------------------------------------------
(* remove_lock: the key is deleted whatever its value is.                  *)
RemoveLock(w) ==
    /\ Holds(w)
    /\ lock' = NoLock
    /\ garbled' = FALSE
    /\ pc' = [pc EXCEPT ![w] = "idle"]
    /\ lease' = [lease EXCEPT ![w] = 0]
    /\ stray' = (stray \/ (lock > now /\ lock # lease[w]))
    /\ UNCHANGED <<now, seen, asOf, listed>>

(* The worker's process dies, or remove_lock fails and is only logged: the *)
(* key stays.                                                              *)
Abandon(w) ==
    /\ Holds(w)
    /\ pc' = [pc EXCEPT ![w] = "idle"]
    /\ lease' = [lease EXCEPT ![w] = 0]
    /\ UNCHANGED <<now, lock, garbled, seen, asOf, listed, stray>>

-----------------------------------------------------------------------------
(* purge_in_memory_store: list the expired keys, then delete the list.  It *)
(* takes the first eight bytes of a longer value for the expiry.           *)
PurgeScan ==
    /\ ~listed
    /\ garbled \/ (lock # NoLock /\ lock <= now)
    /\ listed' = TRUE
    /\ UNCHANGED <<now, lock, garbled, pc, seen, asOf, lease, stray>>

PurgeDelete ==
    /\ listed
    /\ listed' = FALSE
    /\ lock' = NoLock
    /\ garbled' = FALSE
    /\ stray' = (stray \/ lock > now)
    /\ UNCHANGED <<now, pc, seen, asOf, lease>>

Tick ==
    /\ now < MaxNow
    /\ now' = now + 1
    /\ UNCHANGED <<lock, garbled, pc, seen, asOf, lease, listed, stray>>

Next ==
    \/ \E w \in Workers :
          \/ ReadLock(w)
          \/ \E ok \in BOOLEAN : ClearCorrupt(w, ok)
          \/ CheckExpiry(w)
          \/ \E ok \in BOOLEAN : WriteLock(w, ok)
          \/ GiveUpTrying(w)
          \/ RemoveLock(w)
          \/ Abandon(w)
    \/ PurgeScan
    \/ PurgeDelete
    \/ Tick

Spec == Init /\ [][Next]_vars

-----------------------------------------------------------------------------
(* As long as nobody deleted a live lock that was not its own, at most one *)
(* worker holds an unexpired lease, whatever the interleaving of try_lock, *)
(* remove_lock, purge, failed writes and crashes.                          *)
MutualExclusion ==
    ~stray => \A w, v \in Workers : Live(w) /\ Live(v) => w = v

(* A lock never outlives the second in which it was written by more than   *)
(* Duration: whoever dies holding it blocks the others for no longer.      *)
ExpiryBounded == lock <= now + Duration

(* An unexpired lock is never overwritten, only deleted: an attempt that   *)
(* finds the lock taken does not push its expiry further away.             *)
NoOverwrite == [][lock' \in {lock, NoLock} \/ lock <= now]_vars

(* A live lock is deleted by its owner, except for the three races that    *)
(* `stray` records: a worker that overran its lease, a purge that listed   *)
(* the key before it was taken again, and an attempt that read the value   *)
(* of an earlier release and clears the key after another worker has       *)
(* cleared it and taken the lock.  So strays need one of the three.        *)
StrayNeedsCause ==
    [][(stray' /\ ~stray) =>
          \/ listed
          \/ \E w \in Workers : pc[w] = "clear"
          \/ \E w \in Workers : Holds(w) /\ lease[w] <= now]_vars

(* The inductive invariant behind the four properties.  Besides the types: *)
(* an attempt that is about to write read an expired value at a clock that *)
(* has not run backwards; only a holder has a lease; a live holder's       *)
(* lease is the value of the key, so the assertion in try_lock fails for   *)
(* everybody else; and the value of an earlier release is no lock.         *)
LockInv ==
    /\ TypeOK
    /\ ExpiryBounded
    /\ MutualExclusion
    /\ garbled => lock = NoLock
    /\ \A w \in Workers :
          /\ pc[w] = "set" => seen[w] <= asOf[w] /\ asOf[w] <= now
          /\ ~Holds(w) => lease[w] = 0
          /\ Live(w) /\ ~stray => lock = lease[w]

-----------------------------------------------------------------------------
(* The lock as a lease: what a worker holds is its lease.                  *)
LeasePromise ==
    INSTANCE Lease WITH
        lease <- [w \in Workers |-> IF Holds(w) THEN lease[w] ELSE 0]

(* try_lock and remove_lock keep the promise of module Lease: exclusive    *)
(* leases of bounded length, lost early only to a stray deletion.          *)
Implements == LeasePromise!Spec
=============================================================================
