---------------------------- MODULE KvLockProofs ----------------------------
(***************************************************************************)
(* The lock of the in-memory store is correct for every set of workers,    *)
(* every length of lease and every horizon: LockInv is inductive, the      *)
(* properties of module KvLock follow, and the lock implements Lease.      *)
(***************************************************************************)
EXTENDS KvLock, TLAPS

USE DurationAssumption, MaxNowAssumption

(* No worker holds anything at the start.                                  *)
LEMMA InitLockInv == Init => LockInv
<1> SUFFICES ASSUME Init PROVE LockInv
  OBVIOUS
<1> USE DEF Init, NoLock
<1>1. listed \in BOOLEAN /\ stray \in BOOLEAN
  BY Zenon
<1>2. \A w \in Workers : ~Holds(w) /\ ~Live(w) /\ pc[w] # "set" /\ lease[w] = 0
  BY DEF Holds, Live
<1>3. TypeOK
  BY <1>1 DEF TypeOK, PCs
<1>4. ExpiryBounded
  BY DEF ExpiryBounded
<1> QED
  BY <1>2, <1>3, <1>4 DEF LockInv, MutualExclusion

(* Every step of try_lock, remove_lock, the purge, a crash or the clock    *)
(* preserves the invariant.                                                *)
LEMMA NextLockInv == LockInv /\ [Next]_vars => LockInv'
<1> SUFFICES ASSUME LockInv, [Next]_vars PROVE LockInv'
  OBVIOUS
<1> USE DEF LockInv, TypeOK, ExpiryBounded, MutualExclusion, Live, Holds,
            NoLock, PCs
<1>1. ASSUME NEW w \in Workers, ReadLock(w) PROVE LockInv'
  BY <1>1 DEF ReadLock
<1>2. ASSUME NEW w \in Workers, CheckExpiry(w) PROVE LockInv'
  BY <1>2 DEF CheckExpiry, Leave
<1>3. ASSUME NEW w \in Workers, NEW ok \in BOOLEAN, WriteLock(w, ok)
      PROVE LockInv'
  <2> USE <1>3 DEF WriteLock, Leave
  <2>1. lock <= now
    OBVIOUS
  <2>2. ~stray => \A v \in Workers : ~Live(v)
    BY <2>1
  <2>3. TypeOK' /\ ExpiryBounded'
    OBVIOUS
  <2>4. MutualExclusion'
    BY <2>2
  <2>5. (\A v \in Workers : Live(v) /\ ~stray => lock = lease[v])'
    BY <2>2
  <2> QED
    BY <2>3, <2>4, <2>5
<1>4. ASSUME NEW w \in Workers, GiveUpTrying(w) PROVE LockInv'
  BY <1>4 DEF GiveUpTrying, Leave
<1>5. ASSUME NEW w \in Workers, RemoveLock(w) PROVE LockInv'
  <2> USE <1>5 DEF RemoveLock
  <2>1. /\ stray' \in BOOLEAN /\ garbled' \in BOOLEAN
        /\ ~stray' => ~stray /\ ~(lock > now /\ lock # lease[w])
    BY Zenon
  <2>2. ~stray' => lock <= now \/ lock = lease[w]
    BY <2>1
  <2>3. \A v \in Workers : Live(v) /\ ~stray' => v = w
    BY <2>1, <2>2
  <2>4. TypeOK' /\ ExpiryBounded'
    BY <2>1
  <2>5. \A v \in Workers : Live(v)' /\ ~stray' => FALSE
    BY <2>3
  <2> QED
    BY <2>4, <2>5
<1>6. ASSUME NEW w \in Workers, Abandon(w) PROVE LockInv'
  BY <1>6 DEF Abandon
<1>7. CASE PurgeScan
  BY <1>7 DEF PurgeScan
<1>8. CASE PurgeDelete
  <2> USE <1>8 DEF PurgeDelete
  <2>1. /\ {stray', listed', garbled'} \subseteq BOOLEAN
        /\ ~stray' => ~stray /\ ~(lock > now)
    BY Zenon
  <2>2. ~stray' => lock <= now
    BY <2>1
  <2>3. \A v \in Workers : Live(v)' /\ ~stray' => FALSE
    BY <2>1, <2>2
  <2>4. TypeOK' /\ ExpiryBounded'
    BY <2>1
  <2> QED
    BY <2>3, <2>4
<1>9. CASE Tick
  BY <1>9 DEF Tick
<1>10. CASE UNCHANGED vars
  BY <1>10 DEF vars
<1>11. ASSUME NEW w \in Workers, NEW ok \in BOOLEAN, ClearCorrupt(w, ok)
       PROVE LockInv'
  <2> USE <1>11 DEF ClearCorrupt, Leave
  <2>1. /\ stray' \in BOOLEAN /\ garbled' \in BOOLEAN
        /\ ~stray' => ~stray /\ ~(lock > now)
    BY Zenon
  <2>2. ~stray' => lock <= now
    BY <2>1
  <2>3. \A v \in Workers : Live(v)' /\ ~stray' => FALSE
    BY <2>1, <2>2
  <2>4. TypeOK' /\ ExpiryBounded'
    BY <2>1
  <2> QED
    BY <2>3, <2>4
<1> QED
  BY <1>1, <1>2, <1>3, <1>4, <1>5, <1>6, <1>7, <1>8, <1>9, <1>10, <1>11
     DEF Next

(* The invariant holds in every reachable state.                           *)
THEOREM LockInvariant == Spec => []LockInv
  BY InitLockInv, NextLockInv, PTL DEF Spec

(* try_lock never has two live holders unless a live lock was deleted by   *)
(* someone who did not own it.                                             *)
THEOREM LockMutualExclusion == Spec => []MutualExclusion
<1>1. LockInv => MutualExclusion
  BY DEF LockInv
<1> QED
  BY <1>1, LockInvariant, PTL

(* Whoever dies with the lock blocks the others for at most Duration.      *)
THEOREM LockExpiryBounded == Spec => []ExpiryBounded
<1>1. LockInv => ExpiryBounded
  BY DEF LockInv
<1> QED
  BY <1>1, LockInvariant, PTL

(* A failed attempt never refreshes the expiry of a live lock.             *)
THEOREM LockNoOverwrite == Spec => NoOverwrite
<1>1. LockInv /\ [Next]_vars => [lock' \in {lock, NoLock} \/ lock <= now]_vars
  <2> SUFFICES ASSUME LockInv, Next
               PROVE  lock' \in {lock, NoLock} \/ lock <= now
    BY DEF vars
  <2>1. ASSUME NEW w \in Workers, NEW ok \in BOOLEAN, WriteLock(w, ok)
        PROVE  lock <= now
    BY <2>1 DEF WriteLock, LockInv, TypeOK
  <2> QED
    BY <2>1 DEF Next, ReadLock, ClearCorrupt, CheckExpiry, GiveUpTrying,
                RemoveLock, Abandon, PurgeScan, PurgeDelete, Tick
<1> QED
  BY <1>1, LockInvariant, PTL DEF Spec, NoOverwrite

(* A live lock is deleted by a non-owner only if a worker overran its      *)
(* lease, the purge had listed the key, or an attempt clears the value of  *)
(* an earlier release that it read.                                        *)
THEOREM LockStrayNeedsCause == Spec => StrayNeedsCause
<1> DEFINE Cause == \/ listed
                    \/ \E w \in Workers : pc[w] = "clear"
                    \/ \E w \in Workers : Holds(w) /\ lease[w] <= now
<1>1. LockInv /\ [Next]_vars => [(stray' /\ ~stray) => Cause]_vars
  <2> SUFFICES ASSUME LockInv, Next, stray', ~stray PROVE Cause
    BY DEF vars
  <2>1. ASSUME NEW w \in Workers, RemoveLock(w) PROVE Cause
    BY <2>1 DEF RemoveLock, LockInv, TypeOK, Live, Holds
  <2>2. CASE PurgeDelete
    BY <2>2 DEF PurgeDelete
  <2>3. ASSUME NEW w \in Workers, NEW ok \in BOOLEAN, ClearCorrupt(w, ok)
        PROVE  Cause
    BY <2>3 DEF ClearCorrupt
  <2> QED
    BY <2>1, <2>2, <2>3 DEF Next, ReadLock, CheckExpiry, WriteLock, GiveUpTrying,
                      Abandon, PurgeScan, Tick
<1> QED
  BY <1>1, LockInvariant, PTL DEF Spec, StrayNeedsCause

-----------------------------------------------------------------------------
(* The initial state and every step of the lock are allowed by Lease.      *)
LEMMA InitImplements == Init => LeasePromise!Init
  BY DEF Init, LeasePromise!Init, Holds

LEMMA NextImplements ==
    LockInv /\ [Next]_vars => [LeasePromise!Next]_(LeasePromise!vars)
<1> SUFFICES ASSUME LockInv, [Next]_vars
             PROVE  [LeasePromise!Next]_(LeasePromise!vars)
  OBVIOUS
<1> DEFINE granted == [w \in Workers |-> IF Holds(w) THEN lease[w] ELSE 0]
<1> USE DEF LockInv, TypeOK
<1>1. ASSUME NEW w \in Workers,
             ReadLock(w) \/ CheckExpiry(w) \/ GiveUpTrying(w)
                \/ WriteLock(w, FALSE)
      PROVE UNCHANGED LeasePromise!vars
  <2>1. UNCHANGED <<now, stray>>
    BY <1>1 DEF ReadLock, CheckExpiry, GiveUpTrying, WriteLock
  <2>2. \A v \in Workers : (Holds(v)' <=> Holds(v)) /\ (Holds(v) => lease'[v] = lease[v])
    BY <1>1 DEF ReadLock, CheckExpiry, GiveUpTrying, WriteLock, Leave, Holds, PCs
  <2>3. granted' = granted
    BY <2>2
  <2> QED
    BY <2>1, <2>3 DEF LeasePromise!vars
<1>2. ASSUME NEW w \in Workers, WriteLock(w, TRUE) PROVE LeasePromise!Grant(w)
  <2> USE <1>2 DEF WriteLock, Leave, Holds
  <2>1. ~Holds(w) /\ granted[w] = 0 /\ UNCHANGED <<now, stray>>
    OBVIOUS
  <2>2. lock <= now
    OBVIOUS
  <2>3. ~stray => \A v \in Workers : ~(granted[v] > now)
    BY <2>2 DEF Live
  <2>4. asOf[w] + Duration \in 1..(now + Duration)
    OBVIOUS
  <2>5. granted' = [granted EXCEPT ![w] = asOf[w] + Duration]
    OBVIOUS
  <2> QED
    BY <2>1, <2>3, <2>4, <2>5 DEF LeasePromise!Grant, LeasePromise!Live
<1>3. ASSUME NEW w \in Workers, RemoveLock(w) \/ Abandon(w)
      PROVE  LeasePromise!Next \/ UNCHANGED LeasePromise!vars
  <2>1. UNCHANGED now /\ granted' = [granted EXCEPT ![w] = 0]
    BY <1>3 DEF RemoveLock, Abandon, Holds
  <2>2. stray' \in {stray, TRUE}
    BY <1>3, Zenon DEF RemoveLock, Abandon
  <2>3. CASE granted[w] # 0
    BY <2>1, <2>2, <2>3 DEF LeasePromise!GiveUp, LeasePromise!Next
  <2>4. CASE granted[w] = 0
    <3>1. granted' = granted
      BY <2>1, <2>4
    <3> QED
      BY <2>1, <2>2, <3>1 DEF LeasePromise!Disturb, LeasePromise!Next, LeasePromise!vars
  <2> QED
    BY <2>3, <2>4
<1>4. CASE PurgeScan \/ UNCHANGED vars
  BY <1>4 DEF PurgeScan, vars, LeasePromise!vars, Holds
<1>5. CASE PurgeDelete
  <2>1. UNCHANGED now /\ granted' = granted
    BY <1>5 DEF PurgeDelete, Holds
  <2>2. stray' = stray \/ stray' = TRUE
    BY <1>5, Zenon DEF PurgeDelete
  <2> QED
    BY <2>1, <2>2 DEF LeasePromise!Disturb, LeasePromise!Next, LeasePromise!vars
<1>6. CASE Tick
  BY <1>6 DEF Tick, LeasePromise!Tick, LeasePromise!Next, Holds
<1>7. ASSUME NEW w \in Workers, NEW ok \in BOOLEAN, ClearCorrupt(w, ok)
      PROVE  LeasePromise!Next \/ UNCHANGED LeasePromise!vars
  <2>1. \A v \in Workers : (Holds(v)' <=> Holds(v)) /\ lease'[v] = lease[v]
    BY <1>7 DEF ClearCorrupt, Leave, Holds, PCs
  <2>2. UNCHANGED now /\ granted' = granted
    BY <1>7, <2>1 DEF ClearCorrupt
  <2>3. stray' = stray \/ stray' = TRUE
    BY <1>7, Zenon DEF ClearCorrupt
  <2> QED
    BY <2>2, <2>3 DEF LeasePromise!Disturb, LeasePromise!Next, LeasePromise!vars
<1> QED
  <2>1. ASSUME NEW w \in Workers, NEW ok \in BOOLEAN, WriteLock(w, ok)
        PROVE  WriteLock(w, TRUE) \/ WriteLock(w, FALSE)
    BY <2>1, Zenon
  <2> QED
    BY <1>1, <1>2, <1>3, <1>4, <1>5, <1>6, <1>7, <2>1 DEF Next, LeasePromise!Next

(* try_lock, remove_lock and the purge implement an exclusive lease of     *)
(* bounded length.                                                         *)
THEOREM LockImplementsLease == Spec => Implements
  BY InitImplements, NextImplements, LockInvariant, PTL
     DEF Spec, Implements, LeasePromise!Spec
=============================================================================
