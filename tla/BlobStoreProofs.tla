--------------------------- MODULE BlobStoreProofs ---------------------------
(***************************************************************************)
(* The two stores of a blob agree for every set of writers, of whatever    *)
(* kind, every hold time and every number of faults: BlobInv is inductive, *)
(* and no document dangles without one of the causes the model names.      *)
(***************************************************************************)
EXTENDS BlobStore, TLAPS

USE BlobAssumptions

(* Nothing has been written yet.                                           *)
LEMMA InitBlobInv == Init => BlobInv
<1> SUFFICES ASSUME Init PROVE BlobInv
  OBVIOUS
<1>1. {data, commit, late, raced, torn} \subseteq BOOLEAN /\ ~commit /\ ~data
  BY Zenon DEF Init
<1>2. purge.pc = "wait" /\ purge.expired = {} /\ links = {}
      /\ \A w \in Writers : pc[w] = "reserve"
  BY DEF Init, Waiting
<1>3. TypeOK
  <2>1. purge \in [pc : {"wait", "delete", "clear"}, unlinked : BOOLEAN, expired : SUBSET TempLinks]
    BY DEF Init, Waiting
  <2>2. now \in 1..MaxNow /\ faults \in 0..MaxFaults
    BY DEF Init
  <2> QED
    BY <1>1, <2>1, <2>2 DEF Init, TypeOK
<1>4. WritersSafe
  BY <1>2 DEF WritersSafe, Ready
<1>5. PurgeSafe
  BY <1>2, Zenon DEF PurgeSafe, Purging
<1>6. CommitMeansData /\ NoLeak
  BY <1>1, Zenon DEF CommitMeansData, NoLeak
<1> QED
  BY <1>3, <1>4, <1>5, <1>6 DEF BlobInv

(* What a step of a writer leaves alone; and a writer that was not late    *)
(* still has its temporary link.                                           *)
LEMMA StepFacts ==
    ASSUME TypeOK, NEW w \in Writers, NEW from, NEW to, Step(w, from, to)
    PROVE  /\ late' \in BOOLEAN
           /\ ~late' => ~late /\ (from \notin {"reserve", "linked"} => until[w] > now)
           /\ pc[w] = from /\ pc' = [pc EXCEPT ![w] = to]
           /\ UNCHANGED <<now, purge, torn, faults>>
<1>1. late' \in BOOLEAN
  BY Zenon DEF Step
<1>2. ~late' => ~late /\ ~(from \notin {"reserve", "linked"} /\ until[w] <= now)
  BY Zenon DEF Step
<1>3. ~(until[w] <= now) => until[w] > now
  BY DEF TypeOK
<1>4. ~late' => ~late /\ (from \notin {"reserve", "linked"} => until[w] > now)
  BY <1>2, <1>3, Zenon
<1> QED
  BY <1>1, <1>4 DEF Step

(* Every step of a writer, of the purge or of the clock preserves BlobInv. *)
LEMMA NextBlobInv == BlobInv /\ [Next]_vars => BlobInv'
<1> SUFFICES ASSUME BlobInv, [Next]_vars PROVE BlobInv'
  OBVIOUS
<1> USE DEF BlobInv
<1>1. ASSUME NEW w \in Writers, Reserve(w) PROVE BlobInv'
  <2>1. /\ late' \in BOOLEAN /\ (~late' => ~late)
        /\ pc[w] = "reserve" /\ pc' = [pc EXCEPT ![w] = IF Kind[w] = "upload" THEN "check" ELSE "put"]
        /\ UNCHANGED <<now, purge, torn, faults>>
    BY <1>1, StepFacts DEF Reserve
  <2>2. /\ until' = [until EXCEPT ![w] = now + HoldFor]
        /\ temp' = temp \cup {[account |-> Account[w], until |-> now + HoldFor]}
        /\ UNCHANGED <<data, commit, links, raced>>
    BY <1>1 DEF Reserve
  <2>4. TypeOK'
    BY <2>1, <2>2 DEF TypeOK, TempLinks
  <2>5. CommitMeansData' /\ NoLeak'
    BY <2>1, <2>2 DEF CommitMeansData, NoLeak, WritersSafe, Ready, Purging, TypeOK
  <2>6. WritersSafe'
    BY <2>1, <2>2 DEF WritersSafe, CommitMeansData, PurgeSafe, Ready, Link, Purging, TypeOK
  <2>7. PurgeSafe'
    BY <2>1, <2>2 DEF PurgeSafe, WritersSafe, Ready, Purging, TypeOK
  <2> QED
    BY <2>4, <2>5, <2>6, <2>7
<1>2. ASSUME NEW w \in Writers, Check(w) PROVE BlobInv'
  <2>1. /\ late' \in BOOLEAN /\ (~late' => ~late /\ until[w] > now)
        /\ pc[w] = "check" /\ pc' = [pc EXCEPT ![w] = IF commit THEN "ready" ELSE "put"]
        /\ UNCHANGED <<now, purge, torn, faults>>
    BY <1>2, StepFacts DEF Check
  <2>2. /\ UNCHANGED <<data, commit, temp, links, until>>
    BY <1>2 DEF Check, store
  <2>3. /\ raced' \in BOOLEAN
        /\ ~raced' => ~raced /\ ~(commit /\ Purging)
    BY <1>2, Zenon DEF Check, TypeOK
  <2>4. TypeOK'
    BY <2>1, <2>2, <2>3 DEF TypeOK, TempLinks
  <2>5. CommitMeansData' /\ NoLeak'
    BY <2>1, <2>2, <2>3 DEF CommitMeansData, NoLeak, WritersSafe, Ready, Purging, TypeOK
  <2>6. WritersSafe'
    BY <2>1, <2>2, <2>3 DEF WritersSafe, CommitMeansData, PurgeSafe, Ready, Link, Purging, TypeOK
  <2>7. PurgeSafe'
    BY <2>1, <2>2, <2>3 DEF PurgeSafe, WritersSafe, Ready, Purging, TypeOK
  <2> QED
    BY <2>4, <2>5, <2>6, <2>7
<1>3. ASSUME NEW w \in Writers, Put(w) PROVE BlobInv'
  <2>1. /\ late' \in BOOLEAN /\ (~late' => ~late /\ until[w] > now)
        /\ pc[w] = "put" /\ pc' = [pc EXCEPT ![w] = IF Kind[w] = "queue" THEN "ready" ELSE "commit"]
        /\ UNCHANGED <<now, purge, torn, faults>>
    BY <1>3, StepFacts DEF Put
  <2>2. /\ UNCHANGED <<commit, temp, links, until>>
    BY <1>3 DEF Put
  <2>3. /\ data' \in BOOLEAN /\ data'
        /\ raced' \in BOOLEAN
        /\ ~raced' => ~raced /\ ~Purging
    BY <1>3, Zenon DEF Put, TypeOK
  <2>4. TypeOK'
    BY <2>1, <2>2, <2>3 DEF TypeOK, TempLinks
  <2>5. CommitMeansData' /\ NoLeak'
    BY <2>1, <2>2, <2>3 DEF CommitMeansData, NoLeak, WritersSafe, Ready, Purging, TypeOK
  <2>6. WritersSafe'
    BY <2>1, <2>2, <2>3 DEF WritersSafe, CommitMeansData, PurgeSafe, Ready, Link, Purging, TypeOK
  <2>7. PurgeSafe'
    BY <2>1, <2>2, <2>3 DEF PurgeSafe, WritersSafe, Ready, Purging, TypeOK
  <2> QED
    BY <2>4, <2>5, <2>6, <2>7
<1>4. ASSUME NEW w \in Writers, Commit(w) PROVE BlobInv'
  <2>1. /\ late' \in BOOLEAN /\ (~late' => ~late /\ until[w] > now)
        /\ pc[w] = "commit" /\ pc' = [pc EXCEPT ![w] = "ready"]
        /\ UNCHANGED <<now, purge, torn, faults>>
    BY <1>4, StepFacts DEF Commit
  <2>2. /\ UNCHANGED <<data, temp, links, until>>
    BY <1>4 DEF Commit
  <2>3. /\ commit' \in BOOLEAN /\ commit'
        /\ raced' \in BOOLEAN
        /\ ~raced' => ~raced /\ ~Purging
    BY <1>4, Zenon DEF Commit, TypeOK
  <2>4. TypeOK'
    BY <2>1, <2>2, <2>3 DEF TypeOK, TempLinks
  <2>5. CommitMeansData' /\ NoLeak'
    BY <2>1, <2>2, <2>3 DEF CommitMeansData, NoLeak, WritersSafe, Ready, Purging, TypeOK
  <2>6. WritersSafe'
    BY <2>1, <2>2, <2>3 DEF WritersSafe, CommitMeansData, PurgeSafe, Ready, Link, Purging, TypeOK
  <2>7. PurgeSafe'
    BY <2>1, <2>2, <2>3 DEF PurgeSafe, WritersSafe, Ready, Purging, TypeOK
  <2> QED
    BY <2>4, <2>5, <2>6, <2>7
<1>5. ASSUME NEW w \in Writers, CopyCheck(w) PROVE BlobInv'
  <2>1. /\ late' \in BOOLEAN /\ (~late' => ~late)
        /\ pc[w] = "reserve" /\ pc' = [pc EXCEPT ![w] = "copy"]
        /\ UNCHANGED <<now, purge, torn, faults>>
    BY <1>5, StepFacts DEF CopyCheck
  <2>2. /\ until' = [until EXCEPT ![w] = now + HoldFor]
        /\ UNCHANGED <<data, commit, temp, links, raced>>
    BY <1>5 DEF CopyCheck, store
  <2>4. TypeOK'
    BY <2>1, <2>2 DEF TypeOK, TempLinks
  <2>5. CommitMeansData' /\ NoLeak'
    BY <2>1, <2>2 DEF CommitMeansData, NoLeak, WritersSafe, Ready, Purging, TypeOK
  <2>6. WritersSafe'
    BY <2>1, <2>2 DEF WritersSafe, CommitMeansData, PurgeSafe, Ready, Link, Purging, TypeOK
  <2>7. PurgeSafe'
    BY <2>1, <2>2 DEF PurgeSafe, WritersSafe, Ready, Purging, TypeOK
  <2> QED
    BY <2>4, <2>5, <2>6, <2>7
<1>6. ASSUME NEW w \in Writers, Copy(w) PROVE BlobInv'
  <2>1. /\ late' \in BOOLEAN /\ (~late' => ~late /\ until[w] > now)
        /\ pc[w] = "copy" /\ pc' = [pc EXCEPT ![w] = "ready"]
        /\ UNCHANGED <<now, purge, torn, faults>>
    BY <1>6, StepFacts DEF Copy
  <2>2. /\ until' = [until EXCEPT ![w] = now + HoldFor]
        /\ temp' = temp \cup {[account |-> Account[w], until |-> now + HoldFor]}
        /\ UNCHANGED <<data, commit, links>>
    BY <1>6 DEF Copy
  <2>3. /\ raced' \in BOOLEAN
        /\ ~raced' => ~raced /\ links # {}
    BY <1>6, Zenon DEF Copy, TypeOK
  <2>4. TypeOK'
    BY <2>1, <2>2, <2>3 DEF TypeOK, TempLinks
  <2>5. CommitMeansData' /\ NoLeak'
    BY <2>1, <2>2, <2>3 DEF CommitMeansData, NoLeak, WritersSafe, Ready, Purging, TypeOK
  <2>6. WritersSafe'
    BY <2>1, <2>2, <2>3 DEF WritersSafe, CommitMeansData, PurgeSafe, Ready, Link, Purging, TypeOK
  <2>7. PurgeSafe'
    BY <2>1, <2>2, <2>3 DEF PurgeSafe, WritersSafe, Ready, Purging, TypeOK
  <2> QED
    BY <2>4, <2>5, <2>6, <2>7
<1>7. ASSUME NEW w \in Writers, MakeLink(w) PROVE BlobInv'
  <2>1. /\ late' \in BOOLEAN /\ (~late' => ~late /\ until[w] > now)
        /\ pc[w] = "ready" /\ pc' = [pc EXCEPT ![w] = "linked"]
        /\ UNCHANGED <<now, purge, torn, faults>>
    BY <1>7, StepFacts DEF MakeLink
  <2>2. /\ temp' = temp \ {Link(w)}
        /\ links' = links \cup {w}
        /\ UNCHANGED <<data, until>>
    BY <1>7 DEF MakeLink
  <2>3. /\ commit' \in BOOLEAN /\ (commit' <=> commit \/ Kind[w] = "queue")
        /\ raced' \in BOOLEAN
        /\ ~raced' => ~raced /\ \A v \in Writers \ {w} : pc[v] # "linked" /\ until[v] # 0 => Link(v) # Link(w)
    BY <1>7, Zenon DEF MakeLink, TypeOK
  <2>4. TypeOK'
    BY <2>1, <2>2, <2>3 DEF TypeOK, TempLinks
  <2>5. CommitMeansData' /\ NoLeak'
    BY <2>1, <2>2, <2>3 DEF CommitMeansData, NoLeak, WritersSafe, Ready, Purging, TypeOK
  <2>6. WritersSafe'
    BY <2>1, <2>2, <2>3 DEF WritersSafe, CommitMeansData, PurgeSafe, Ready, Link, Purging, TypeOK
  <2>7. PurgeSafe'
    BY <2>1, <2>2, <2>3 DEF PurgeSafe, WritersSafe, Ready, Purging, TypeOK
  <2> QED
    BY <2>4, <2>5, <2>6, <2>7
<1>8. ASSUME NEW w \in Writers, Unlink(w) PROVE BlobInv'
  <2>1. /\ late' \in BOOLEAN /\ (~late' => ~late)
        /\ pc[w] = "linked" /\ pc' = [pc EXCEPT ![w] = "gone"]
        /\ UNCHANGED <<now, purge, torn, faults>>
    BY <1>8, StepFacts DEF Unlink
  <2>2. /\ links' = links \ {w}
        /\ UNCHANGED <<data, commit, temp, until, raced>>
    BY <1>8 DEF Unlink
  <2>4. TypeOK'
    BY <2>1, <2>2 DEF TypeOK, TempLinks
  <2>5. CommitMeansData' /\ NoLeak'
    BY <2>1, <2>2 DEF CommitMeansData, NoLeak, WritersSafe, Ready, Purging, TypeOK
  <2>6. WritersSafe'
    BY <2>1, <2>2 DEF WritersSafe, CommitMeansData, PurgeSafe, Ready, Link, Purging, TypeOK
  <2>7. PurgeSafe'
    BY <2>1, <2>2 DEF PurgeSafe, WritersSafe, Ready, Purging, TypeOK
  <2> QED
    BY <2>4, <2>5, <2>6, <2>7
<1>9. ASSUME NEW w \in Writers, Abandon(w) PROVE BlobInv'
  <2>1. /\ pc' = [pc EXCEPT ![w] = "gone"] /\ faults' \in 0..MaxFaults
        /\ UNCHANGED <<now, data, commit, temp, links, until, purge, late, raced, torn>>
    BY <1>9 DEF Abandon, store, history, TypeOK
  <2>2. TypeOK'
    BY <2>1 DEF TypeOK
  <2>3. CommitMeansData' /\ NoLeak'
    BY <2>1 DEF CommitMeansData, NoLeak, Purging
  <2>4. WritersSafe'
    BY <2>1 DEF WritersSafe, Ready, Link, TypeOK
  <2>5. PurgeSafe'
    BY <2>1 DEF PurgeSafe, Ready, Purging, TypeOK
  <2> QED
    BY <2>2, <2>3, <2>4, <2>5
<1>10. CASE PurgeScan
  <2>1. /\ purge'.pc = "delete" /\ purge'.expired = {t \in temp : t.until <= now}
        /\ purge'.unlinked \in BOOLEAN
        /\ purge'.unlinked <=> links = {} /\ temp \subseteq {t \in temp : t.until <= now}
        /\ UNCHANGED <<now, data, commit, temp, links, pc, until, late, raced, torn, faults>>
    BY <1>10 DEF PurgeScan, Unlinked, Expired, store, history
  <2>2. purge' \in [pc : {"wait", "delete", "clear"}, unlinked : BOOLEAN, expired : SUBSET TempLinks]
    BY <1>10 DEF PurgeScan, Unlinked, Expired, TypeOK
  <2>3. TypeOK'
    BY <2>1, <2>2 DEF TypeOK
  <2>4. CommitMeansData' /\ NoLeak'
    BY <1>10, <2>1 DEF CommitMeansData, NoLeak, Purging, PurgeScan
  <2>5. WritersSafe'
    BY <2>1 DEF WritersSafe, Ready, Link
  <2>6. PurgeSafe'
    <3> SUFFICES ASSUME ~late, ~raced PROVE PurgeSafe'
      BY <2>1 DEF PurgeSafe
    <3>1. ASSUME purge'.unlinked, NEW w \in Writers PROVE ~Ready(w)
      <4>1. Link(w) \in temp => Link(w).until <= now
        BY <2>1, <3>1
      <4> QED
        BY <4>1 DEF WritersSafe, Ready, Link, TypeOK
    <3>2. ~purge'.unlinked => commit \/ temp \ purge'.expired # {}
      BY <2>1 DEF WritersSafe
    <3> QED
      BY <2>1, <3>1, <3>2 DEF PurgeSafe, Purging, Ready
  <2> QED
    BY <2>3, <2>4, <2>5, <2>6
<1>11. CASE PurgeDelete
  <2>1. /\ purge.pc = "delete" /\ purge' = [purge EXCEPT !.pc = "clear"]
        /\ UNCHANGED <<now, commit, temp, links, pc, until, late, raced, torn, faults>>
    BY <1>11 DEF PurgeDelete, history
  <2>2. data' \in BOOLEAN /\ (data' <=> data /\ ~purge.unlinked)
    BY <1>11, Zenon DEF PurgeDelete, TypeOK
  <2>3. TypeOK'
    BY <2>1, <2>2 DEF TypeOK
  <2>4. CommitMeansData' /\ NoLeak'
    BY <2>1, <2>2 DEF CommitMeansData, NoLeak, Purging, TypeOK
  <2>5. WritersSafe'
    BY <2>1, <2>2 DEF WritersSafe, PurgeSafe, Purging, Ready, Link, TypeOK
  <2>6. PurgeSafe'
    BY <2>1, <2>2 DEF PurgeSafe, Ready, Purging, TypeOK
  <2> QED
    BY <2>3, <2>4, <2>5, <2>6
<1>12. CASE PurgeClear
  <2>1. /\ purge.pc = "clear" /\ purge' = Waiting /\ temp' = temp \ purge.expired
        /\ UNCHANGED <<now, data, links, pc, until, late, raced, torn, faults>>
    BY <1>12 DEF PurgeClear, history
  <2>2. commit' \in BOOLEAN /\ (commit' <=> commit /\ ~purge.unlinked)
    BY <1>12, Zenon DEF PurgeClear, TypeOK
  <2>3. TypeOK'
    BY <2>1, <2>2 DEF TypeOK, Waiting
  <2>4. CommitMeansData' /\ NoLeak'
    BY <2>1, <2>2 DEF CommitMeansData, NoLeak, PurgeSafe, Purging, TypeOK
  <2>5. WritersSafe'
    BY <2>1, <2>2 DEF WritersSafe, PurgeSafe, Purging, Ready, Link, TypeOK, TempLinks
  <2>6. PurgeSafe'
    BY <2>1, <2>2 DEF PurgeSafe, Purging, Waiting
  <2> QED
    BY <2>3, <2>4, <2>5, <2>6
<1>13. CASE PurgeFails
  <2>1. /\ purge' = Waiting /\ faults' \in 0..MaxFaults
        /\ UNCHANGED <<now, data, commit, temp, links, pc, until, late, raced>>
    BY <1>13 DEF PurgeFails, store, TypeOK
  <2>2. torn' \in BOOLEAN /\ (~torn' => ~torn /\ ~(purge.pc = "clear" /\ purge.unlinked))
    BY <1>13, Zenon DEF PurgeFails
  <2>3. TypeOK'
    BY <2>1, <2>2 DEF TypeOK, Waiting
  <2>4. CommitMeansData' /\ NoLeak'
    BY <2>1, <2>2 DEF CommitMeansData, NoLeak, Purging, TypeOK
  <2>5. WritersSafe'
    BY <2>1, <2>2 DEF WritersSafe, Ready, Link, TypeOK
  <2>6. PurgeSafe'
    BY <2>1 DEF PurgeSafe, Purging, Waiting
  <2> QED
    BY <2>3, <2>4, <2>5, <2>6
<1>14. CASE Tick
  <2>1. /\ now < MaxNow /\ now' = now + 1
        /\ UNCHANGED <<data, commit, temp, links, pc, until, purge, late, raced, torn, faults>>
    BY <1>14 DEF Tick, store, history
  <2>2. TypeOK'
    BY <2>1 DEF TypeOK
  <2>3. CommitMeansData' /\ NoLeak'
    BY <2>1 DEF CommitMeansData, NoLeak, Purging
  <2>4. WritersSafe'
    BY <2>1 DEF WritersSafe, Ready, Link, TypeOK
  <2>5. PurgeSafe'
    BY <2>1 DEF PurgeSafe, Ready, Purging, TypeOK, TempLinks
  <2> QED
    BY <2>2, <2>3, <2>4, <2>5
<1>15. CASE UNCHANGED vars
  BY <1>15 DEF vars, TypeOK, CommitMeansData, NoLeak, WritersSafe, PurgeSafe, Ready, Link, Purging
<1> QED
  BY <1>1, <1>2, <1>3, <1>4, <1>5, <1>6, <1>7, <1>8, <1>9, <1>10, <1>11, <1>12, <1>13,
     <1>14, <1>15 DEF Next

(* The data and the keys of a blob agree in every reachable state: no data *)
(* leaks, and a Commit key stands for data.                                *)
THEOREM BlobInvariant == Spec => []BlobInv
  BY InitBlobInv, NextBlobInv, PTL DEF Spec

(* put_temporary_blob, queue, Blob/copy and purge_blobs: a document without*)
(* its content has a late writer, a race with a purge or a purge that      *)
(* stopped half way behind it.                                             *)
THEOREM BlobDanglingNeedsCause == Spec => []DanglingNeedsCause
<1>1. BlobInv => DanglingNeedsCause
  BY DEF BlobInv, WritersSafe, DanglingNeedsCause
<1> QED
  BY <1>1, BlobInvariant, PTL
=============================================================================
