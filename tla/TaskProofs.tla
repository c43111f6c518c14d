----------------------------- MODULE TaskProofs -----------------------------
(***************************************************************************)
(* The task manager and the tasks of events and reports on top of it, for  *)
(* every cluster, every assignment of roles, every channel and batch size  *)
(* and every number of faults.                                             *)
(*                                                                         *)
(* For TaskManager, Ind is inductive; TaskInv, KeysMatch, Exclusive and    *)
(* ResultsApplied follow from it, and so does the action property          *)
(* FinishedStaysGone.  For TaskOwners (every set of alarm times and every  *)
(* number of requests, overruns of locks included), OwnedInd is inductive; *)
(* it needs nothing of the locks or of the memory of the managers, since   *)
(* it only speaks of what a worker is about to write.                      *)
(***************************************************************************)
EXTENDS TaskOwners, FiniteSetTheorems, SequenceTheorems, TLAPS

-----------------------------------------------------------------------------
(* Operators of the model.                                                 *)

(* A set without two different members has at most one.                    *)
LEMMA AtMostOne ==
    ASSUME NEW S, \A x, y \in S : x = y
    PROVE  Cardinality(S) <= 1
<1>1. CASE S = {}
  BY <1>1, FS_EmptySet
<1>2. CASE S # {}
  <2>1. PICK x \in S : TRUE
    BY <1>2
  <2>2. S = {x}
    BY <2>1
  <2>3. Cardinality({x}) = 1
    BY FS_Singleton
  <2> QED
    BY <2>2, <2>3
<1> QED
  BY <1>1, <1>2

(* Max of FiniteSetsExt is the greatest element of a bounded set.          *)
LEMMA MaxIsGreatest ==
    ASSUME NEW N \in Nat, NEW S \in SUBSET (0..N), S # {}
    PROVE  Max(S) \in S /\ \A x \in S : Max(S) >= x
<1> DEFINE R == {ss \in Nat \X Nat : ss[1] < ss[2]}
           T == {n \in Nat : \A x \in S : x <= n}
<1>1. IsWellFoundedOn(R, Nat)
  BY NatLessThanWellFounded DEF OpToRel
<1>2. T \subseteq Nat /\ N \in T
  OBVIOUS
<1>3. \E m \in T : \A y \in T : ~(<<y, m>> \in R)
  <2> HIDE DEF R, T
  <2> QED
    BY <1>1, <1>2, WFMin
<1>4. PICK m \in T : \A y \in T : ~(<<y, m>> \in R)
  BY <1>3
<1>5. \A y \in T : m <= y
  <2> SUFFICES ASSUME NEW y \in T, y < m PROVE FALSE
    OBVIOUS
  <2>1. <<y, m>> \in R
    OBVIOUS
  <2> QED
    BY <1>4, <2>1
<1>6. m \in S
  <2> SUFFICES ASSUME m \notin S PROVE FALSE
    OBVIOUS
  <2>1. \A x \in S : x < m
    OBVIOUS
  <2>2. m \in Nat /\ m # 0
    <3>1. PICK x \in S : x \in 0..N
      OBVIOUS
    <3> QED
      BY <1>4, <2>1, <3>1
  <2>3. \A x \in S : x <= m - 1
    BY <2>1, <2>2
  <2>4. m - 1 \in T
    BY <2>2, <2>3
  <2> QED
    BY <1>5, <2>2, <2>4
<1> QED
  BY <1>6 DEF Max

(* The index of the last result for a task. *)
LEMMA LastOfIsLast ==
    ASSUME NEW b \in Seq(Entries), NEW t \in Ids, \E i \in DOMAIN b : b[i].id = t
    PROVE  /\ LastOf(b, t) \in DOMAIN b /\ b[LastOf(b, t)].id = t
           /\ \A i \in DOMAIN b : b[i].id = t => i <= LastOf(b, t)
<1> DEFINE S == {i \in DOMAIN b : b[i].id = t}
<1>1. Len(b) \in Nat /\ DOMAIN b = 1..Len(b)
  BY LenProperties
<1>2. S \in SUBSET (0..Len(b)) /\ S # {}
  BY <1>1
<1>3. Max(S) \in S /\ \A x \in S : Max(S) >= x
  <2> HIDE DEF S
  <2> QED
    BY <1>1, <1>2, MaxIsGreatest
<1> QED
  BY <1>1, <1>3 DEF LastOf

(* What a channel holds after a send and after a receive. *)
LEMMA Appended ==
    ASSUME NEW S, NEW s \in Seq(S), NEW e \in S
    PROVE  /\ Append(s, e) \in Seq(S) /\ Len(Append(s, e)) = Len(s) + 1 /\ Len(s) \in Nat
           /\ Append(s, e) # <<>>
           /\ \A i \in DOMAIN Append(s, e) :
                 \/ i \in DOMAIN s /\ Append(s, e)[i] = s[i]
                 \/ i = Len(s) + 1 /\ i \notin DOMAIN s /\ Append(s, e)[i] = e
<1>1. Len(s) \in Nat /\ DOMAIN s = 1..Len(s)
  BY LenProperties
<1> QED
  BY <1>1

LEMMA Removed ==
    ASSUME NEW S, NEW s \in Seq(S), s # <<>>
    PROVE  /\ Head(s) \in S /\ Tail(s) \in Seq(S) /\ Len(Tail(s)) <= Len(s)
           /\ 1 \in DOMAIN s /\ s[1] = Head(s)
           /\ \A i \in DOMAIN Tail(s) : i + 1 \in DOMAIN s /\ i + 1 # 1 /\ Tail(s)[i] = s[i + 1] /\ i \in Int
<1>1. Len(s) \in Nat /\ DOMAIN s = 1..Len(s) /\ Len(s) # 0
  BY LenProperties, EmptySeq
<1> QED
  BY <1>1

LEMMA WorkerIsPair == \A w \in Workers : w[1] \in Nodes /\ w[2] \in Types /\ w = <<w[1], w[2]>>
  BY DEF Workers

LEMMA JobTypes ==
    ASSUME TypeOK, NEW w \in Workers
    PROVE  /\ \A i \in DOMAIN chan[w] :
                 chan[w][i] \in Jobs /\ chan[w][i].id \in Ids /\ chan[w][i].due \in Nat
           /\ \A i \in DOMAIN batch[w] :
                 batch[w][i] \in Entries /\ batch[w][i].id \in Ids /\ batch[w][i].due \in Nat
<1>1. chan[w] \in Seq(Jobs) /\ batch[w] \in Seq(Entries) /\ Never \in Nat
  BY TaskAssumptions DEF TypeOK, Never, Latest
<1>2. \A i \in DOMAIN chan[w] : chan[w][i] \in Jobs
  BY <1>1, LenProperties
<1>3. \A i \in DOMAIN batch[w] : batch[w][i] \in Entries
  BY <1>1, LenProperties
<1> QED
  BY <1>1, <1>2, <1>3 DEF Jobs, Entries

(* What a result leaves is a task record: none after a success, a due task *)
(* after a failure.                                                        *)
LEMMA TaskAfterType ==
    ASSUME TypeOK, NEW e \in Entries, e.res.typ \in Outcomes
    PROVE  /\ TaskAfter(e) \in TaskRecords
           /\ e.res.typ \in {"success", "followup"} => TaskAfter(e) = Gone
           /\ e.res.typ \in Failures => TaskAfter(e) # Gone /\ TaskAfter(e).due \in 1..Never
           /\ e.res.typ \in Failures \cup {"success", "followup"}
<1>1. e.res.typ \in {"success", "followup", "temporary", "backoff", "permanent"}
  BY TaskAssumptions
<1>2. now \in 1..MaxNow /\ e.task \in TaskRecords
  BY DEF TypeOK, Entries
<1>3. Gone \in TaskRecords
  BY TaskAssumptions DEF Gone, TaskRecords, Never, Latest
<1>4. CASE e.res.typ \in {"success", "followup"}
  BY <1>3, <1>4 DEF TaskAfter, Failures
<1>5. CASE e.res.typ \in Failures
  <2> DEFINE at == RetryAt(e.res.typ, e.task)
  <2>1. at = Never \/ (at \in 1..Latest /\ e.task.attempt < MaxAttempts)
    BY TaskAssumptions, <1>2, <1>5 DEF RetryAt, NextRetryTime, Failures, Latest, Never, TaskRecords
  <2>2. TaskAfter(e) = FailedTask(e.res.typ, e.task)
    BY <1>5 DEF TaskAfter, Failures
  <2>3. FailedTask(e.res.typ, e.task) \in TaskRecords
    BY TaskAssumptions, <1>2, <2>1 DEF FailedTask, TaskRecords, Never, Latest
  <2>4. /\ FailedTask(e.res.typ, e.task).status # "gone"
        /\ FailedTask(e.res.typ, e.task).due \in 1..Never
    BY TaskAssumptions, <1>2, <2>1 DEF FailedTask, Never, Latest
  <2> QED
    BY <1>5, <2>2, <2>3, <2>4 DEF Gone, Failures
<1> QED
  BY <1>1, <1>4, <1>5 DEF Failures

-----------------------------------------------------------------------------
(* The inductive invariant: TaskInv without NeverEarly, which follows from *)
(* the rest, and ResultsApplied.                                           *)
Ind == TypeOK /\ NotStranded /\ NoLostTask /\ JobsKnown /\ LocksHeld /\ MemoryKept
       /\ ResultsApplied

(* A task that only one node works on. *)
LEMMA OneNode ==
    ASSUME TypeOK, NEW t \in Ids, Undisturbed(t), NEW m \in Nodes, NEW n \in Nodes,
           TypeOf[t] \in roles[m], TypeOf[t] \in roles[n]
    PROVE  m = n
<1> DEFINE S == {k \in Nodes : TypeOf[t] \in roles[k]}
<1>1. IsFiniteSet(S)
  BY TaskAssumptions, FS_Subset
<1>2. Cardinality(S) = 1
  BY DEF Undisturbed
<1>3. \E x : S = {x}
  <2> HIDE DEF S
  <2> QED
    BY <1>1, <1>2, FS_Singleton
<1> QED
  BY <1>3

(* What disturbs the memory of a manager disturbs it for good.             *)
LEMMA UndisturbedBefore ==
    ASSUME UNCHANGED roles, overran => overran', forgot => forgot'
    PROVE  \A t : Undisturbed(t)' => Undisturbed(t)
  BY DEF Undisturbed

LEMMA InFlightJobs ==
    ASSUME NEW w \in Workers
    PROVE  /\ \A i \in DOMAIN chan[w] : InFlight(w[1], chan[w][i].id)
           /\ \A i \in DOMAIN batch[w] : InFlight(w[1], batch[w][i].id)
<1>1. ASSUME NEW i \in DOMAIN chan[w] PROVE InFlight(w[1], chan[w][i].id)
  <2>1. <<w, "chan", i>> \in JobsOf(chan[w][i].id)
    BY DEF JobsOf
  <2> QED
    BY <2>1 DEF InFlight
<1>2. ASSUME NEW i \in DOMAIN batch[w] PROVE InFlight(w[1], batch[w][i].id)
  <2>1. <<w, "batch", i>> \in JobsOf(batch[w][i].id)
    BY DEF JobsOf
  <2> QED
    BY <2>1 DEF InFlight
<1> QED
  BY <1>1, <1>2

(* NeverEarly is what MemoryKept and JobsKnown say of the entries. *)
LEMMA NotEarly == JobsKnown /\ MemoryKept => NeverEarly
<1> SUFFICES ASSUME JobsKnown, MemoryKept,
                    NEW w \in Workers, NEW i \in DOMAIN batch[w], Undisturbed(batch[w][i].id)
             PROVE  batch[w][i].task.due <= now
  BY DEF NeverEarly
<1>1. batch[w][i].due <= now
  BY DEF JobsKnown
<1>2. batch[w][i].task.due = batch[w][i].due
  BY DEF MemoryKept
<1> QED
  BY <1>1, <1>2

(* Nothing is scheduled yet.                                               *)
LEMMA InitInd == Init => Ind
<1> SUFFICES ASSUME Init PROVE Ind
  OBVIOUS
<1>1. {overran, forgot} \subseteq BOOLEAN
  BY Zenon DEF Init
<1>2. /\ \A w \in Workers : chan[w] = <<>> /\ batch[w] = <<>> /\ pc[w] = "recv"
      /\ \A n \in Nodes : todo[n] = {}
      /\ \A t \in Ids : tasks[t] = Gone
      /\ dueKeys = {} /\ born = {}
  BY DEF Init
<1>3. \A w \in Workers : DOMAIN chan[w] = {} /\ DOMAIN batch[w] = {}
  BY <1>2
<1>4. TypeOK
  <2>1. \A w \in Workers : /\ chan[w] \in Seq(Jobs) /\ Len(chan[w]) <= Capacity[w[2]]
                           /\ batch[w] \in Seq(Entries) /\ Len(batch[w]) <= BatchSize[w[2]]
    <3>1. \A y \in Types : Capacity[y] \in Nat /\ BatchSize[y] \in Nat
      BY TaskAssumptions
    <3>2. <<>> \in Seq(Jobs) /\ <<>> \in Seq(Entries) /\ Len(<<>>) = 0
      BY EmptySeq
    <3>3. \A w \in Workers : 0 <= Capacity[w[2]] /\ 0 <= BatchSize[w[2]]
      BY <3>1, WorkerIsPair
    <3> QED
      BY <1>2, <3>2, <3>3, Zenon
  <2>2. Gone \in TaskRecords
    BY TaskAssumptions DEF Gone, TaskRecords, Never, Latest
  <2>3. roles \in [Nodes -> SUBSET Types]
    BY TaskAssumptions DEF Init
  <2>4. /\ now \in 1..MaxNow /\ events \in 0..MaxEvents
        /\ locked \in [Nodes -> [Ids -> 0..Never]] /\ todo \in [Nodes -> SUBSET Jobs]
        /\ lock \in [Ids -> Nodes \cup {"free"}] /\ pc \in [Workers -> {"recv", "write", "unlock"}]
    BY TaskAssumptions DEF Init, NoEntry, Never, Latest
  <2> QED
    BY <1>1, <2>1, <2>2, <2>3, <2>4 DEF Init, TypeOK
<1>5. NotStranded /\ NoLostTask
  BY <1>2 DEF NotStranded, NoLostTask
<1>6. JobsKnown /\ LocksHeld /\ MemoryKept /\ ResultsApplied
  BY <1>2, <1>3 DEF JobsKnown, LocksHeld, MemoryKept, ResultsApplied
<1> QED
  BY <1>4, <1>5, <1>6 DEF Ind

-----------------------------------------------------------------------------
(* schedule_task writes a task nobody knows of yet.                        *)
LEMMA ScheduleKeeps ==
    ASSUME Ind, NEW t \in Ids, NEW due \in now..MaxNow, Schedule(t, due)
    PROVE  Ind'
<1> USE DEF Ind
<1>1. /\ t \notin born /\ born' = born \cup {t}
      /\ tasks' = [tasks EXCEPT ![t] = Pending(due)]
      /\ UNCHANGED <<roles, now, lock, locked, todo, chan, pc, batch, finished, swapped, overran, forgot>>
  BY DEF Schedule, node, worker
<1>2. dueKeys' = dueKeys \cup {[id |-> t, due |-> due, typ |-> "task"]}
  <2>1. \A k \in dueKeys : k.id # t
    BY <1>1 DEF JobsKnown
  <2> QED
    BY <2>1 DEF Schedule, SetDue, ClearDue
<1>3. Pending(due) \in TaskRecords /\ Pending(due) # Gone /\ Pending(due).due = due
      /\ due \in 1..Never
  BY TaskAssumptions DEF Pending, TaskRecords, Gone, TypeOK, Never, Latest
<1>4. events' \in 0..MaxEvents
  BY TaskAssumptions DEF Schedule, Happens, TypeOK
<1>5. TypeOK'
  <2>1. tasks' \in [Ids -> TaskRecords]
    BY <1>1, <1>3 DEF TypeOK
  <2>2. dueKeys' \subseteq [id : Ids, due : 1..Never, typ : {"task"}]
    BY <1>2, <1>3 DEF TypeOK
  <2>3. born' \subseteq Ids /\ finished' \subseteq born' /\ swapped' \subseteq born'
    BY <1>1 DEF TypeOK
  <2> QED
    BY <1>1, <1>4, <2>1, <2>2, <2>3 DEF TypeOK
<1>0. tasks \in [Ids -> TaskRecords] /\ finished \subseteq born /\ swapped \subseteq born
  BY DEF TypeOK
<1>6. NotStranded'
  <2> HIDE DEF Ind
  <2>1. NotStranded
    BY DEF Ind
  <2>2. [id |-> t, due |-> due, typ |-> "task"] \in dueKeys'
    BY <1>2
  <2>3. \A u \in Ids : u # t => tasks'[u] = tasks[u]
    BY <1>0, <1>1
  <2> QED
    BY <1>2, <2>1, <2>2, <2>3 DEF NotStranded
<1>11. NoLostTask'
  <2> HIDE DEF Ind
  <2>1. NoLostTask
    BY DEF Ind
  <2> QED
    BY <1>0, <1>1, <1>3, <2>1 DEF NoLostTask
<1>7. JobsKnown'
  BY <1>1, <1>2, <1>3 DEF JobsKnown, TypeOK
<1>8. LocksHeld'
  BY <1>1, <1>3 DEF LocksHeld, JobsKnown, TypeOK
<1>9. MemoryKept'
  <2>1. \A u : Undisturbed(u)' => Undisturbed(u)
    BY <1>1, UndisturbedBefore
  <2>2. \A u \in Ids : u # t => tasks'[u] = tasks[u]
    BY <1>1 DEF TypeOK
  <2>3. \A k \in dueKeys' : Undisturbed(k.id)' => tasks'[k.id] # Gone /\ k.due = tasks'[k.id].due
    BY <1>1, <1>2, <1>3, <2>1 DEF MemoryKept, JobsKnown, TypeOK
  <2> QED
    BY <1>1, <2>1, <2>2, <2>3 DEF MemoryKept, JobsKnown, TypeOK
<1>10. ResultsApplied'
  BY <1>1 DEF ResultsApplied, JobsKnown, TypeOK
<1> QED
  BY <1>5, <1>6, <1>7, <1>8, <1>9, <1>10, <1>11

-----------------------------------------------------------------------------
(* process_tasks.                                                          *)

(* The entry of a task after a scan that saw a Due key of it, or none.     *)
LEMMA ScannedFacts ==
    ASSUME TypeOK, NEW n \in Nodes, NEW seen \in SUBSET dueKeys, Scanned(n, seen)
    PROVE  /\ locked' \in [Nodes -> [Ids -> 0..Never]]
           /\ todo' \in [Nodes -> SUBSET Jobs]
           /\ \A m \in Nodes \ {n} : locked'[m] = locked[m] /\ todo'[m] = todo[m]
           /\ \A k \in seen : locked'[n][k.id] >= k.due /\ locked'[n][k.id] >= locked[n][k.id]
           /\ \A t \in Ids : locked'[n][t] # NoEntry => \E k \in seen : k.id = t
           /\ \A j \in todo'[n] : \E k \in seen : j.id = k.id /\ j.due = k.due /\ locked[n][k.id] < k.due
<1> DEFINE at(t) == {k.due : k \in {j \in seen : j.id = t}}
<1>0. /\ locked \in [Nodes -> [Ids -> 0..Never]] /\ todo \in [Nodes -> SUBSET Jobs]
      /\ \A k \in seen : k.id \in Ids /\ k.due \in 1..Never
      /\ Never \in Nat
  BY TaskAssumptions DEF TypeOK, Never, Latest
<1>1. /\ todo' = [todo EXCEPT ![n] = {Job(k) : k \in {j \in seen : locked[n][j.id] < j.due}}]
      /\ locked' = [locked EXCEPT ![n] = [t \in Ids |->
                      IF at(t) = {} THEN NoEntry ELSE Max(at(t) \cup {locked[n][t]})]]
  BY DEF Scanned
<1>2. ASSUME NEW t \in Ids
      PROVE  /\ locked'[n][t] \in 0..Never
             /\ \A k \in seen : k.id = t => locked'[n][t] >= k.due /\ locked'[n][t] >= locked[n][t]
             /\ locked'[n][t] # NoEntry => \E k \in seen : k.id = t
  <2>1. CASE at(t) = {}
    <3>1. locked'[n][t] = NoEntry
      BY <1>0, <1>1, <2>1
    <3>2. \A k \in seen : k.id = t => k.due \in at(t)
      OBVIOUS
    <3>3. \A k \in seen : k.id # t
      <4> HIDE DEF at
      <4> QED
        BY <2>1, <3>2
    <3> QED
      BY <1>0, <3>1, <3>3 DEF NoEntry
  <2>2. CASE at(t) # {}
    <3> DEFINE S == at(t) \cup {locked[n][t]}
    <3>1. S \in SUBSET (0..Never) /\ S # {}
      <4>1. at(t) \subseteq 0..Never
        BY <1>0
      <4>2. locked[n][t] \in 0..Never
        BY <1>0
      <4> QED
        BY <4>1, <4>2
    <3>2. Max(S) \in S /\ \A x \in S : Max(S) >= x
      <4> HIDE DEF S
      <4> QED
        BY <1>0, <3>1, MaxIsGreatest
    <3>3. locked'[n][t] = Max(S)
      BY <1>0, <1>1, <2>2
    <3>4. \A k \in seen : k.id = t => k.due \in S
      OBVIOUS
    <3>5. \E k \in seen : k.id = t
      BY <2>2
    <3> QED
      BY <3>1, <3>2, <3>3, <3>4, <3>5
  <2> QED
    BY <2>1, <2>2
<1>3. locked' \in [Nodes -> [Ids -> 0..Never]]
  <2>1. locked'[n] \in [Ids -> 0..Never]
    BY <1>0, <1>1, <1>2
  <2> QED
    BY <1>0, <1>1, <2>1
<1>4. /\ \A m \in Nodes \ {n} : locked'[m] = locked[m] /\ todo'[m] = todo[m]
      /\ \A j \in todo'[n] : \E k \in seen : j.id = k.id /\ j.due = k.due /\ locked[n][k.id] < k.due
  BY <1>0, <1>1 DEF Job
<1>5. todo' \in [Nodes -> SUBSET Jobs]
  <2>1. {Job(k) : k \in {j \in seen : locked[n][j.id] < j.due}} \subseteq Jobs
    BY <1>0 DEF Job, Jobs
  <2> QED
    BY <1>0, <1>1, <2>1
<1> QED
  BY <1>0, <1>2, <1>3, <1>4, <1>5

(* A scan keeps the invariant if it saw the key of every job in flight of  *)
(* a task whose memory is to be trusted.                                   *)
LEMMA ScannedKeeps ==
    ASSUME Ind, NEW n \in Nodes, NEW seen \in SUBSET dueKeys, Scanned(n, seen), todo[n] = {},
           \A k \in seen : k.due <= now /\ TypeOf[k.id] \in roles[n],
           UNCHANGED <<roles, now, tasks, dueKeys, lock, chan, pc, batch, born, finished, swapped, overran>>,
           forgot' \in BOOLEAN, forgot => forgot', events' \in 0..MaxEvents,
           \A w \in Workers : w[1] = n =>
              /\ \A i \in DOMAIN chan[w] : Undisturbed(chan[w][i].id)' =>
                    \E k \in seen : k.id = chan[w][i].id
              /\ \A i \in DOMAIN batch[w] : pc[w] # "unlock" /\ Undisturbed(batch[w][i].id)' =>
                    \E k \in seen : k.id = batch[w][i].id
    PROVE  Ind'
<1>0. TypeOK /\ NotStranded /\ NoLostTask /\ JobsKnown /\ LocksHeld /\ MemoryKept /\ ResultsApplied
  BY DEF Ind
<1>1. /\ locked' \in [Nodes -> [Ids -> 0..Never]]
      /\ todo' \in [Nodes -> SUBSET Jobs]
      /\ \A m \in Nodes \ {n} : locked'[m] = locked[m] /\ todo'[m] = todo[m]
      /\ \A k \in seen : locked'[n][k.id] >= k.due /\ locked'[n][k.id] >= locked[n][k.id]
      /\ \A j \in todo'[n] : \E k \in seen : j.id = k.id /\ j.due = k.due /\ locked[n][k.id] < k.due
  BY <1>0, ScannedFacts
<1>2. \A t : Undisturbed(t)' => Undisturbed(t)
  BY UndisturbedBefore
<1>3. TypeOK'
  BY <1>0, <1>1 DEF TypeOK
<1>4. NotStranded' /\ NoLostTask' /\ LocksHeld' /\ ResultsApplied'
  BY <1>0 DEF NotStranded, NoLostTask, LocksHeld, ResultsApplied
<1>5. JobsKnown'
  <2>1. \A m \in Nodes : \A j \in todo'[m] :
            j.id \in born /\ j.due <= now /\ TypeOf[j.id] \in roles[m]
    <3>1. ASSUME NEW j \in todo'[n]
          PROVE  j.id \in born /\ j.due <= now /\ TypeOf[j.id] \in roles[n]
      <4>1. PICK k \in seen : j.id = k.id /\ j.due = k.due
        BY <1>1
      <4> QED
        BY <1>0, <4>1 DEF JobsKnown
    <3>2. ASSUME NEW m \in Nodes \ {n}, NEW j \in todo'[m]
          PROVE  j.id \in born /\ j.due <= now /\ TypeOf[j.id] \in roles[m]
      BY <1>0, <1>1 DEF JobsKnown
    <3> QED
      BY <3>1, <3>2
  <2> QED
    BY <1>0, <2>1 DEF JobsKnown
<1>6. MemoryKept'
  <2>1. \A k \in dueKeys' : Undisturbed(k.id)' => tasks'[k.id] # Gone /\ k.due = tasks'[k.id].due
    BY <1>0, <1>2 DEF MemoryKept
  <2>2. \A m \in Nodes : \A j \in todo'[m] : Undisturbed(j.id)' =>
            tasks'[j.id].due = j.due /\ locked'[m][j.id] >= j.due
    BY <1>0, <1>1, <1>2 DEF MemoryKept
  <2>3. \A k \in seen : k.id \in Ids /\ k.due \in Nat /\ locked[n][k.id] \in Nat /\ locked'[n][k.id] \in Nat
    BY <1>0, <1>1 DEF TypeOK
  <2>4. ASSUME NEW w \in Workers, NEW i \in DOMAIN chan[w], Undisturbed(chan[w][i].id)'
        PROVE  /\ tasks'[chan[w][i].id].due = chan[w][i].due
               /\ locked'[w[1]][chan[w][i].id] >= chan[w][i].due
               /\ \A j \in todo'[w[1]] : j.id # chan[w][i].id
    <3> DEFINE t == chan[w][i].id
    <3>1. /\ tasks[t].due = chan[w][i].due /\ locked[w[1]][t] >= chan[w][i].due
          /\ \A j \in todo[w[1]] : j.id # t
      BY <1>0, <1>2, <2>4 DEF MemoryKept
    <3>2. t \in Ids /\ chan[w][i].due \in Nat
      BY <1>0, JobTypes
    <3>3. CASE w[1] # n
      BY <1>1, <3>1, <3>3, WorkerIsPair
    <3>4. CASE w[1] = n
      <4>1. PICK k \in seen : k.id = t
        BY <2>4, <3>4
      <4>2. locked'[n][t] >= locked[n][t]
        BY <1>1, <4>1
      <4>3. \A j \in todo'[n] : j.id # t
        <5> SUFFICES ASSUME NEW j \in todo'[n], j.id = t PROVE FALSE
          OBVIOUS
        <5>1. PICK h \in seen : h.id = t /\ locked[n][t] < h.due
          BY <1>1
        <5>2. h.due = tasks[t].due
          BY <1>0, <1>2, <2>4, <5>1 DEF MemoryKept
        <5> QED
          BY <2>3, <3>1, <3>2, <3>4, <5>1, <5>2
      <4> QED
        BY <2>3, <3>1, <3>2, <3>4, <4>1, <4>2, <4>3
    <3> QED
      BY <3>3, <3>4
  <2>5. ASSUME NEW w \in Workers, NEW i \in DOMAIN batch[w], Undisturbed(batch[w][i].id)'
        PROVE  /\ batch[w][i].task.due = batch[w][i].due
               /\ pc[w] # "unlock" =>
                    /\ tasks'[batch[w][i].id] = batch[w][i].task
                    /\ locked'[w[1]][batch[w][i].id] >= batch[w][i].due
                    /\ \A j \in todo'[w[1]] : j.id # batch[w][i].id
    <3> DEFINE t == batch[w][i].id
    <3>1. /\ batch[w][i].task.due = batch[w][i].due
          /\ pc[w] # "unlock" =>
                /\ tasks[t] = batch[w][i].task /\ locked[w[1]][t] >= batch[w][i].due
                /\ \A j \in todo[w[1]] : j.id # t
      BY <1>0, <1>2, <2>5 DEF MemoryKept
    <3>2. t \in Ids /\ batch[w][i].due \in Nat
      BY <1>0, JobTypes
    <3>3. CASE w[1] # n \/ pc[w] = "unlock"
      BY <1>1, <3>1, <3>3, WorkerIsPair
    <3>4. CASE w[1] = n /\ pc[w] # "unlock"
      <4>1. PICK k \in seen : k.id = t
        BY <2>5, <3>4
      <4>2. locked'[n][t] >= locked[n][t]
        BY <1>1, <4>1
      <4>3. \A j \in todo'[n] : j.id # t
        <5> SUFFICES ASSUME NEW j \in todo'[n], j.id = t PROVE FALSE
          OBVIOUS
        <5>1. PICK h \in seen : h.id = t /\ locked[n][t] < h.due
          BY <1>1
        <5>2. h.due = tasks[t].due
          BY <1>0, <1>2, <2>5, <5>1 DEF MemoryKept
        <5> QED
          BY <2>3, <3>1, <3>2, <3>4, <5>1, <5>2
      <4> QED
        BY <2>3, <3>1, <3>2, <3>4, <4>1, <4>2, <4>3
    <3> QED
      BY <3>3, <3>4
  <2> QED
    BY <2>1, <2>2, <2>4, <2>5 DEF MemoryKept
<1> QED
  BY <1>3, <1>4, <1>5, <1>6 DEF Ind

(* The Due key of a job that is in flight, while it can be trusted.        *)
LEMMA KeyOfJob ==
    ASSUME Ind, NEW t \in Ids, Undisturbed(t), tasks[t].due # 0
    PROVE  \E k \in dueKeys : k.id = t /\ k.due = tasks[t].due
<1>1. tasks[t] # Gone
  BY DEF Gone
<1>2. PICK k \in dueKeys : k.id = t
  BY <1>1 DEF Ind, NotStranded
<1>3. k.due = tasks[t].due
  BY <1>2 DEF Ind, MemoryKept
<1> QED
  BY <1>2, <1>3

LEMMA ScanKeeps ==
    ASSUME Ind, NEW n \in Nodes, Scan(n)
    PROVE  Ind'
<1> DEFINE seen == Visible(n, Reached({k \in dueKeys : k.due <= now}))
<1>0. TypeOK /\ JobsKnown /\ MemoryKept
  BY DEF Ind
<1>1. seen = {k \in dueKeys : k.due <= now /\ TypeOf[k.id] \in roles[n]}
  BY <1>0 DEF TypeOK, Visible, Reached
<1>2. /\ Scanned(n, seen) /\ todo[n] = {}
      /\ UNCHANGED <<roles, now, tasks, dueKeys, lock, chan, pc, batch, born, finished, swapped, overran>>
      /\ UNCHANGED <<forgot, events>>
  BY DEF Scan, store, worker, history
<1>3. \A t : Undisturbed(t)' => Undisturbed(t)
  BY <1>2, UndisturbedBefore
<1>4. ASSUME NEW w \in Workers, w[1] = n, NEW i \in DOMAIN chan[w], Undisturbed(chan[w][i].id)'
      PROVE  \E k \in seen : k.id = chan[w][i].id
  <2> DEFINE t == chan[w][i].id
  <2>1. /\ t \in Ids /\ chan[w][i].due \in 1..Never /\ chan[w][i].due <= now
        /\ TypeOf[t] = w[2] /\ w[2] \in roles[n]
    <3>1. chan[w] # <<>> /\ chan[w][i] \in Jobs
      BY <1>0, <1>4, JobTypes
    <3> QED
      BY <1>0, <1>4, <3>1 DEF JobsKnown, Jobs
  <2>2. Undisturbed(t) /\ tasks[t].due = chan[w][i].due
    BY <1>2, <1>0, <1>3, <1>4 DEF MemoryKept
  <2>3. PICK k \in dueKeys : k.id = t /\ k.due = tasks[t].due
    BY <2>1, <2>2, KeyOfJob
  <2> QED
    BY <1>1, <2>1, <2>2, <2>3
<1>5. ASSUME NEW w \in Workers, w[1] = n, NEW i \in DOMAIN batch[w],
             pc[w] # "unlock", Undisturbed(batch[w][i].id)'
      PROVE  \E k \in seen : k.id = batch[w][i].id
  <2> DEFINE t == batch[w][i].id
  <2>1. /\ t \in Ids /\ batch[w][i].due \in 1..Never /\ batch[w][i].due <= now
        /\ TypeOf[t] = w[2] /\ w[2] \in roles[n]
    <3>1. batch[w] # <<>> /\ batch[w][i] \in Entries
      BY <1>0, <1>5, JobTypes
    <3> QED
      BY <1>0, <1>5, <3>1 DEF JobsKnown, Entries
  <2>2. Undisturbed(t) /\ tasks[t].due = batch[w][i].due
    BY <1>2, <1>0, <1>3, <1>5 DEF MemoryKept
  <2>3. PICK k \in dueKeys : k.id = t /\ k.due = tasks[t].due
    BY <2>1, <2>2, KeyOfJob
  <2> QED
    BY <1>1, <2>1, <2>2, <2>3
<1>6. seen \in SUBSET dueKeys /\ (\A k \in seen : k.due <= now /\ TypeOf[k.id] \in roles[n])
      /\ forgot' \in BOOLEAN /\ (forgot => forgot') /\ events' \in 0..MaxEvents
  BY <1>0, <1>1, <1>2 DEF TypeOK
<1> QED
  <2> HIDE DEF seen
  <2> QED
    BY <1>2, <1>4, <1>5, <1>6, ScannedKeeps

(* A scan that fails half way and drops the entry of a job in flight sets  *)
(* `forgot`: whatever it did not see is not to be trusted any more.        *)
LEMMA ScanFailsKeeps ==
    ASSUME Ind, NEW n \in Nodes, ScanFails(n)
    PROVE  Ind'
<1>0. TypeOK /\ JobsKnown
  BY DEF Ind
<1>1. PICK f \in dueKeys :
          Scanned(n, Visible(n, Reached({k \in dueKeys : k.due <= now /\ Before(k, f)})))
  BY DEF ScanFails
<1> DEFINE seen == Visible(n, Reached({k \in dueKeys : k.due <= now /\ Before(k, f)}))
<1>2. /\ Scanned(n, seen) /\ todo[n] = {}
      /\ UNCHANGED <<roles, now, tasks, dueKeys, lock, chan, pc, batch, born, finished, swapped, overran>>
  BY <1>1 DEF ScanFails, store, worker
<1>3. events' \in 0..MaxEvents
  <2>1. Happens
    BY DEF ScanFails, Fault
  <2>2. events \in 0..MaxEvents /\ MaxEvents \in Nat
    BY <1>0, TaskAssumptions DEF TypeOK
  <2> QED
    BY <2>1, <2>2 DEF Happens
<1>4. /\ forgot' \in BOOLEAN /\ (forgot => forgot')
      /\ ~forgot' => \A t \in Ids : InFlight(n, t) => locked'[n][t] # NoEntry
  <2>1. forgot' = (forgot \/ \E t \in Ids : InFlight(n, t) /\ locked'[n][t] = NoEntry)
    BY DEF ScanFails
  <2> QED
    BY <2>1, Zenon
<1>5. seen \in SUBSET dueKeys /\ \A k \in seen : k.due <= now /\ TypeOf[k.id] \in roles[n]
  BY DEF Visible, Reached
<1>6. \A t \in Ids : locked'[n][t] # NoEntry => \E k \in seen : k.id = t
  <2> HIDE DEF seen
  <2> QED
    BY <1>0, <1>2, <1>5, ScannedFacts
<1>7. \A t \in Ids : Undisturbed(t)' /\ InFlight(n, t) => \E k \in seen : k.id = t
  BY <1>4, <1>6 DEF Undisturbed
<1>8. \A w \in Workers : w[1] = n =>
          /\ \A i \in DOMAIN chan[w] : chan[w][i].id \in Ids /\ InFlight(n, chan[w][i].id)
          /\ \A i \in DOMAIN batch[w] : batch[w][i].id \in Ids /\ InFlight(n, batch[w][i].id)
  BY <1>0, JobTypes, InFlightJobs
<1> QED
  <2> HIDE DEF seen
  <2> QED
    BY <1>2, <1>3, <1>4, <1>5, <1>7, <1>8, ScannedKeeps

(* A job is dropped, or the channel is full: the memory only shrinks.      *)
LEMMA DropKeeps ==
    ASSUME Ind, NEW n \in Nodes, NEW j \in todo[n],
           todo' = [todo EXCEPT ![n] = @ \ {j}],
           \/ UNCHANGED locked
           \/ locked' = [locked EXCEPT ![n][j.id] = NoEntry],
           events' \in 0..MaxEvents,
           UNCHANGED <<roles, now, tasks, dueKeys, lock, chan, pc, batch, born, finished, swapped,
                       overran, forgot>>
    PROVE  Ind'
<1>0. TypeOK /\ NotStranded /\ NoLostTask /\ JobsKnown /\ LocksHeld /\ MemoryKept /\ ResultsApplied
  BY DEF Ind
<1>1. /\ todo \in [Nodes -> SUBSET Jobs] /\ locked \in [Nodes -> [Ids -> 0..Never]]
      /\ j.id \in Ids /\ Never \in Nat
      /\ \A m \in Nodes : todo'[m] \subseteq todo[m]
  BY <1>0, TaskAssumptions DEF TypeOK, Jobs, Never, Latest
<1>2. /\ \A m \in Nodes, t \in Ids : locked'[m][t] = locked[m][t] \/ (m = n /\ t = j.id)
      /\ locked' \in [Nodes -> [Ids -> 0..Never]] /\ todo' \in [Nodes -> SUBSET Jobs]
  <2>1. todo' \in [Nodes -> SUBSET Jobs]
    BY <1>1
  <2>2. CASE UNCHANGED locked
    BY <1>1, <2>1, <2>2
  <2>3. CASE locked' = [locked EXCEPT ![n][j.id] = NoEntry]
    <3>1. NoEntry \in 0..Never
      BY <1>1 DEF NoEntry
    <3> QED
      BY <1>1, <2>1, <2>3, <3>1
  <2> QED
    BY <2>2, <2>3
<1>3. TypeOK'
  BY <1>0, <1>2 DEF TypeOK
<1>4. NotStranded' /\ NoLostTask' /\ LocksHeld' /\ ResultsApplied'
  BY <1>0 DEF NotStranded, NoLostTask, LocksHeld, ResultsApplied
<1>5. JobsKnown'
  BY <1>0, <1>1 DEF JobsKnown
<1>6. MemoryKept'
  <2>1. \A t : Undisturbed(t)' => Undisturbed(t)
    BY UndisturbedBefore
  <2>2. \A k \in dueKeys' : Undisturbed(k.id)' => tasks'[k.id] # Gone /\ k.due = tasks'[k.id].due
    BY <1>0, <2>1 DEF MemoryKept
  <2>3. ASSUME NEW m \in Nodes, NEW h \in todo'[m], Undisturbed(h.id)'
        PROVE  tasks'[h.id].due = h.due /\ locked'[m][h.id] >= h.due
    <3>1. h \in todo[m] /\ h \in Jobs /\ j \in Jobs
      BY <1>1
    <3>2. tasks[h.id].due = h.due /\ locked[m][h.id] >= h.due
      BY <1>0, <2>1, <2>3, <3>1 DEF MemoryKept
    <3>3. m = n => h.id # j.id
      <4> SUFFICES ASSUME m = n, h.id = j.id PROVE FALSE
        OBVIOUS
      <4>1. h.due = j.due
        BY <1>0, <2>1, <2>3, <3>1, <3>2 DEF MemoryKept
      <4>2. h = j
        BY <3>1, <4>1 DEF Jobs
      <4> QED
        BY <1>1, <4>2
    <3> QED
      BY <1>2, <3>1, <3>2, <3>3 DEF Jobs
  <2>4. ASSUME NEW w \in Workers, NEW i \in DOMAIN chan[w], Undisturbed(chan[w][i].id)
        PROVE  /\ tasks[chan[w][i].id].due = chan[w][i].due
               /\ locked'[w[1]][chan[w][i].id] >= chan[w][i].due
               /\ \A h \in todo'[w[1]] : h.id # chan[w][i].id
    <3>1. /\ tasks[chan[w][i].id].due = chan[w][i].due
          /\ locked[w[1]][chan[w][i].id] >= chan[w][i].due
          /\ \A h \in todo[w[1]] : h.id # chan[w][i].id
      BY <1>0, <2>4 DEF MemoryKept
    <3>2. chan[w][i].id \in Ids
      BY <1>0, JobTypes
    <3> QED
      BY <1>1, <1>2, <3>1, <3>2, WorkerIsPair
  <2>5. ASSUME NEW w \in Workers, NEW i \in DOMAIN batch[w], Undisturbed(batch[w][i].id)
        PROVE  /\ batch[w][i].task.due = batch[w][i].due
               /\ pc[w] # "unlock" =>
                    /\ tasks[batch[w][i].id] = batch[w][i].task
                    /\ locked'[w[1]][batch[w][i].id] >= batch[w][i].due
                    /\ \A h \in todo'[w[1]] : h.id # batch[w][i].id
    <3>1. /\ batch[w][i].task.due = batch[w][i].due
          /\ pc[w] # "unlock" =>
               /\ tasks[batch[w][i].id] = batch[w][i].task
               /\ locked[w[1]][batch[w][i].id] >= batch[w][i].due
               /\ \A h \in todo[w[1]] : h.id # batch[w][i].id
      BY <1>0, <2>5 DEF MemoryKept
    <3>2. batch[w][i].id \in Ids
      BY <1>0, JobTypes
    <3> QED
      BY <1>1, <1>2, <3>1, <3>2, WorkerIsPair
  <2> QED
    BY <2>1, <2>2, <2>3, <2>4, <2>5 DEF MemoryKept
<1> QED
  BY <1>3, <1>4, <1>5, <1>6 DEF Ind

(* A job is sent with the lock of its task, which nobody had.              *)
Sends(n, j) ==
    /\ HasRoom(n, j.id)
    /\ TryLock(n, j.id, TRUE)
    /\ todo' = [todo EXCEPT ![n] = @ \ {j}]
    /\ chan' = [chan EXCEPT ![<<n, TypeOf[j.id]>>] = Append(@, j)]
    /\ UNCHANGED <<roles, now, tasks, dueKeys, locked, pc, batch, born, finished, swapped,
                   overran, forgot, events>>

LEMMA SendKeeps ==
    ASSUME Ind, NEW n \in Nodes, NEW j, j \in todo[n], Sends(n, j)
    PROVE  Ind'
<1> DEFINE w0 == <<n, TypeOf[j.id]>>
<1>0. TypeOK /\ NotStranded /\ NoLostTask /\ JobsKnown /\ LocksHeld /\ MemoryKept /\ ResultsApplied
  BY DEF Ind
<1>1. /\ todo \in [Nodes -> SUBSET Jobs] /\ j \in Jobs /\ j.id \in Ids
      /\ TypeOf[j.id] \in Types
      /\ \A m \in Nodes : todo'[m] \subseteq todo[m]
      /\ todo' \in [Nodes -> SUBSET Jobs]
  <2>1. todo \in [Nodes -> SUBSET Jobs] /\ j \in Jobs /\ j.id \in Ids
    BY <1>0 DEF TypeOK, Jobs
  <2>2. TypeOf[j.id] \in Types
    BY <2>1, TaskAssumptions
  <2>3. todo' = [todo EXCEPT ![n] = @ \ {j}]
    BY DEF Sends
  <2> QED
    BY <2>1, <2>2, <2>3
<1>u. UNCHANGED <<roles, now, tasks, dueKeys, locked, pc, batch, born, finished, swapped,
                  overran, forgot, events>>
  BY DEF Sends
<1>2. w0 \in Workers /\ w0[1] = n /\ w0[2] = TypeOf[j.id]
  BY <1>1 DEF Workers
<1>3. lock[j.id] = "free" /\ lock' = [lock EXCEPT ![j.id] = n]
  BY DEF Sends, TryLock
<1>4. chan[w0] \in Seq(Jobs) /\ DOMAIN chan = Workers
  BY <1>0, <1>2 DEF TypeOK
<1>5. /\ chan'[w0] = Append(chan[w0], j) /\ DOMAIN chan' = Workers
      /\ \A w \in Workers : w # w0 => chan'[w] = chan[w]
  BY <1>2, <1>4 DEF Sends
<1> HIDE DEF w0
<1>6. chan'[w0] \in Seq(Jobs) /\ Len(chan'[w0]) = Len(chan[w0]) + 1 /\ Len(chan[w0]) \in Nat
  <2>1. Append(chan[w0], j) \in Seq(Jobs) /\ Len(Append(chan[w0], j)) = Len(chan[w0]) + 1
        /\ Len(chan[w0]) \in Nat
    BY <1>1, <1>4, Appended
  <2> QED
    BY <1>5, <2>1
<1>7. \A i \in DOMAIN chan'[w0] :
          \/ i \in DOMAIN chan[w0] /\ chan'[w0][i] = chan[w0][i]
          \/ i = Len(chan[w0]) + 1 /\ i \notin DOMAIN chan[w0] /\ chan'[w0][i] = j
  <2>1. \A i \in DOMAIN Append(chan[w0], j) :
          \/ i \in DOMAIN chan[w0] /\ Append(chan[w0], j)[i] = chan[w0][i]
          \/ i = Len(chan[w0]) + 1 /\ i \notin DOMAIN chan[w0] /\ Append(chan[w0], j)[i] = j
    BY <1>1, <1>4, Appended
  <2> QED
    BY <1>5, <2>1
<1>8. TypeOK'
  <2>1. Len(chan'[w0]) <= Capacity[w0[2]]
    <3>1. Len(chan[w0]) < Capacity[w0[2]] /\ Capacity[w0[2]] \in Nat
      BY <1>1, <1>2, TaskAssumptions DEF Sends, HasRoom, w0
    <3> QED
      BY <1>6, <3>1
  <2>2. lock' \in [Ids -> Nodes \cup {"free"}]
    BY <1>0, <1>3 DEF TypeOK
  <2>3. \A w \in Workers : chan'[w] \in Seq(Jobs) /\ Len(chan'[w]) <= Capacity[w[2]]
    BY <1>0, <1>5, <1>6, <2>1 DEF TypeOK
  <2> QED
    BY <1>0, <1>u, <1>1, <1>5, <2>2, <2>3 DEF TypeOK
<1>9. NotStranded' /\ NoLostTask' /\ ResultsApplied'
  BY <1>0, <1>u DEF NotStranded, NoLostTask, ResultsApplied
<1>10. JobsKnown'
  <2>1. j.id \in born /\ j.due <= now /\ TypeOf[j.id] \in roles[n]
    BY <1>0 DEF JobsKnown
  <2>2. \A w \in Workers : \A i \in DOMAIN chan'[w] :
            chan'[w][i].id \in born /\ chan'[w][i].due <= now /\ TypeOf[chan'[w][i].id] = w[2]
    BY <1>0, <1>2, <1>5, <1>7, <2>1 DEF JobsKnown
  <2>3. \A w \in Workers : w[2] \in roles[w[1]] \/ (chan'[w] = <<>> /\ batch[w] = <<>>)
    BY <1>0, <1>2, <1>5, <2>1 DEF JobsKnown
  <2> QED
    BY <1>0, <1>u, <1>1, <2>2, <2>3 DEF JobsKnown
<1>11. LocksHeld'
  <2> SUFFICES ASSUME ~overran PROVE LocksHeld'
    BY <1>u DEF LocksHeld
  <2>1. \A w \in Workers : /\ \A i \in DOMAIN chan[w] : chan[w][i].id # j.id
                           /\ \A i \in DOMAIN batch[w] : batch[w][i].id # j.id
    BY <1>0, <1>3, TaskAssumptions, WorkerIsPair DEF LocksHeld
  <2>2. \A t \in Ids : lock'[t] = IF t = j.id THEN n ELSE lock[t]
    BY <1>0, <1>3 DEF TypeOK
  <2>3. ASSUME NEW w \in Workers, NEW i \in DOMAIN batch[w]
        PROVE  /\ lock'[batch[w][i].id] = w[1]
               /\ \A h \in DOMAIN batch[w] : batch[w][i].id = batch[w][h].id => i = h
               /\ pc[w] # "unlock" => tasks[batch[w][i].id] # Gone
    <3>1. batch[w][i].id \in Ids /\ batch[w][i].id # j.id
      BY <1>0, <2>1, JobTypes
    <3>2. lock'[batch[w][i].id] = lock[batch[w][i].id]
      BY <2>2, <3>1
    <3>3. /\ lock[batch[w][i].id] = w[1]
          /\ \A h \in DOMAIN batch[w] : batch[w][i].id = batch[w][h].id => i = h
          /\ pc[w] # "unlock" => tasks[batch[w][i].id] # Gone
      BY <1>0 DEF LocksHeld
    <3> QED
      BY <3>2, <3>3
  <2>4. ASSUME NEW w \in Workers, w # w0, NEW i \in DOMAIN chan'[w]
        PROVE  /\ lock'[chan'[w][i].id] = w[1]
               /\ \A h \in DOMAIN chan'[w] : chan'[w][i].id = chan'[w][h].id => i = h
               /\ \A h \in DOMAIN batch[w] : chan'[w][i].id # batch[w][h].id
    BY <1>0, <1>5, <2>1, <2>2, <2>4, JobTypes DEF LocksHeld
  <2>5. ASSUME NEW i \in DOMAIN chan'[w0]
        PROVE  /\ lock'[chan'[w0][i].id] = w0[1]
               /\ \A h \in DOMAIN chan'[w0] : chan'[w0][i].id = chan'[w0][h].id => i = h
               /\ \A h \in DOMAIN batch[w0] : chan'[w0][i].id # batch[w0][h].id
    <3>1. \A h \in DOMAIN chan[w0] :
              /\ chan[w0][h].id \in Ids /\ chan[w0][h].id # j.id /\ lock[chan[w0][h].id] = w0[1]
              /\ \A g \in DOMAIN chan[w0] : chan[w0][h].id = chan[w0][g].id => h = g
              /\ \A g \in DOMAIN batch[w0] : chan[w0][h].id # batch[w0][g].id
      BY <1>0, <1>2, <2>1, JobTypes DEF LocksHeld
    <3>2. lock'[chan'[w0][i].id] = w0[1]
      BY <1>1, <1>2, <1>7, <2>2, <3>1
    <3>3. \A h \in DOMAIN chan'[w0] : chan'[w0][i].id = chan'[w0][h].id => i = h
      BY <1>7, <3>1
    <3>4. \A h \in DOMAIN batch[w0] : chan'[w0][i].id # batch[w0][h].id
      <4>1. \A h \in DOMAIN batch[w0] : batch[w0][h].id # j.id
        BY <1>2, <2>1
      <4>2. CASE i \in DOMAIN chan[w0] /\ chan'[w0][i] = chan[w0][i]
        BY <3>1, <4>2
      <4>3. CASE chan'[w0][i] = j
        BY <4>1, <4>3
      <4> QED
        BY <1>7, <4>2, <4>3
    <3> QED
      BY <3>2, <3>3, <3>4
  <2>6. ASSUME NEW w \in Workers, NEW i \in DOMAIN chan'[w]
        PROVE  /\ lock'[chan'[w][i].id] = w[1]
               /\ \A h \in DOMAIN chan'[w] : chan'[w][i].id = chan'[w][h].id => i = h
               /\ \A h \in DOMAIN batch[w] : chan'[w][i].id # batch[w][h].id
    BY <2>4, <2>5
  <2> QED
    BY <1>u, <2>3, <2>6 DEF LocksHeld
<1>12. MemoryKept'
  <2>1. \A t : Undisturbed(t)' => Undisturbed(t)
    BY <1>u, UndisturbedBefore
  <2>2. Undisturbed(j.id) => /\ tasks[j.id].due = j.due /\ locked[n][j.id] >= j.due
                             /\ \A h \in todo'[n] : h.id # j.id
    <3> SUFFICES ASSUME Undisturbed(j.id)
                 PROVE  /\ tasks[j.id].due = j.due /\ locked[n][j.id] >= j.due
                        /\ \A h \in todo'[n] : h.id # j.id
      OBVIOUS
    <3>1. \A h \in todo[n] : h.id = j.id => h.due = tasks[j.id].due /\ locked[n][h.id] >= h.due
      BY <1>0 DEF MemoryKept
    <3>2. \A h \in todo[n] : h.id = j.id => h = j
      <4> SUFFICES ASSUME NEW h \in todo[n], h.id = j.id PROVE h = j
        OBVIOUS
      <4>1. h.due = j.due
        BY <3>1
      <4> QED
        BY <1>1, <4>1 DEF Jobs
    <3>3. \A h \in todo'[n] : h \in todo[n] /\ h # j
      BY <1>1 DEF Sends
    <3> QED
      BY <3>1, <3>2, <3>3
  <2>3. \A w \in Workers : \A i \in DOMAIN chan[w] : Undisturbed(chan[w][i].id) =>
             /\ tasks[chan[w][i].id].due = chan[w][i].due
             /\ locked[w[1]][chan[w][i].id] >= chan[w][i].due
             /\ \A h \in todo'[w[1]] : h.id # chan[w][i].id
    BY <1>0, <1>1, WorkerIsPair DEF MemoryKept
  <2>4. \A w \in Workers : \A i \in DOMAIN chan'[w] : Undisturbed(chan'[w][i].id) =>
             /\ tasks[chan'[w][i].id].due = chan'[w][i].due
             /\ locked[w[1]][chan'[w][i].id] >= chan'[w][i].due
             /\ \A h \in todo'[w[1]] : h.id # chan'[w][i].id
    <3> SUFFICES ASSUME NEW w \in Workers, NEW i \in DOMAIN chan'[w], Undisturbed(chan'[w][i].id)
                 PROVE  /\ tasks[chan'[w][i].id].due = chan'[w][i].due
                        /\ locked[w[1]][chan'[w][i].id] >= chan'[w][i].due
                        /\ \A h \in todo'[w[1]] : h.id # chan'[w][i].id
      OBVIOUS
    <3>1. CASE i \in DOMAIN chan[w] /\ chan'[w][i] = chan[w][i]
      BY <2>3, <3>1
    <3>2. CASE w = w0 /\ chan'[w][i] = j
      BY <1>2, <2>2, <3>2
    <3> QED
      BY <1>5, <1>7, <3>1, <3>2
  <2>5. \A w \in Workers : \A i \in DOMAIN batch[w] : Undisturbed(batch[w][i].id) =>
             /\ batch[w][i].task.due = batch[w][i].due
             /\ pc[w] # "unlock" =>
                    /\ tasks[batch[w][i].id] = batch[w][i].task
                    /\ locked[w[1]][batch[w][i].id] >= batch[w][i].due
                    /\ \A h \in todo'[w[1]] : h.id # batch[w][i].id
    BY <1>0, <1>1, WorkerIsPair DEF MemoryKept
  <2>6. /\ \A k \in dueKeys : Undisturbed(k.id) => tasks[k.id] # Gone /\ k.due = tasks[k.id].due
        /\ \A m \in Nodes : \A h \in todo'[m] : Undisturbed(h.id) =>
              tasks[h.id].due = h.due /\ locked[m][h.id] >= h.due
    BY <1>0, <1>1 DEF MemoryKept
  <2> QED
    BY <1>u, <2>1, <2>4, <2>5, <2>6 DEF MemoryKept
<1> QED
  BY <1>8, <1>9, <1>10, <1>11, <1>12 DEF Ind

LEMMA DispatchKeeps ==
    ASSUME Ind, NEW n \in Nodes, NEW t \in Ids, Dispatch(n, t)
    PROVE  Ind'
<1>1. PICK j \in todo[n] :
        /\ j.id = t
        /\ todo' = [todo EXCEPT ![n] = @ \ {j}]
        /\ \/ /\ HasRoom(n, t) /\ TryLock(n, t, TRUE)
              /\ chan' = [chan EXCEPT ![<<n, TypeOf[t]>>] = Append(@, j)]
              /\ UNCHANGED locked
           \/ /\ HasRoom(n, t) /\ TryLock(n, t, FALSE)
              /\ UNCHANGED <<chan, locked>>
           \/ /\ ~HasRoom(n, t)
              /\ locked' = [locked EXCEPT ![n][t] = NoEntry]
              /\ UNCHANGED <<lock, chan>>
        /\ UNCHANGED <<roles, now, tasks, dueKeys, pc, batch, born, finished, swapped, overran, forgot, events>>
  BY DEF Dispatch, history
<1>2. CASE HasRoom(n, t) /\ TryLock(n, t, TRUE) /\ UNCHANGED locked
           /\ chan' = [chan EXCEPT ![<<n, TypeOf[t]>>] = Append(@, j)]
  BY <1>1, <1>2, SendKeeps DEF Sends
<1>3. CASE TryLock(n, t, FALSE) /\ UNCHANGED <<chan, locked>>
  BY <1>1, <1>3, DropKeeps DEF TryLock, Ind, TypeOK
<1>4. CASE locked' = [locked EXCEPT ![n][t] = NoEntry] /\ UNCHANGED <<lock, chan>>
  BY <1>1, <1>4, DropKeeps DEF Ind, TypeOK
<1> QED
  BY <1>1, <1>2, <1>3, <1>4

LEMMA DispatchFailsKeeps ==
    ASSUME Ind, NEW n \in Nodes, DispatchFails(n)
    PROVE  Ind'
<1>1. PICK j \in todo[n] : todo' = [todo EXCEPT ![n] = @ \ {j}]
  BY DEF DispatchFails
<1>2. events' \in 0..MaxEvents
  BY TaskAssumptions DEF DispatchFails, Fault, Happens, Ind, TypeOK
<1>3. UNCHANGED <<roles, now, tasks, dueKeys, lock, locked, chan, pc, batch, born, finished, swapped,
                  overran, forgot>>
  BY DEF DispatchFails, store, worker, history
<1> QED
  BY <1>1, <1>2, <1>3, DropKeeps

-----------------------------------------------------------------------------
(* The workers.                                                            *)

(* A worker takes the first job of its channel and keeps it if the task is *)
(* still there: the job moves, with the lock and the entry it has.         *)
LEMMA RecvKeeps ==
    ASSUME Ind, NEW w0, w0 \in Workers, Recv(w0)
    PROVE  Ind'
<1> DEFINE j == Head(chan[w0])
           e == [id |-> j.id, due |-> j.due, task |-> tasks[j.id], res |-> Res("none")]
<1>0. TypeOK /\ NotStranded /\ NoLostTask /\ JobsKnown /\ LocksHeld /\ MemoryKept /\ ResultsApplied
  BY DEF Ind
<1>u. UNCHANGED <<roles, now, tasks, dueKeys, lock, locked, todo, pc, born, finished, swapped,
                  overran, forgot>>
  BY DEF Recv, store, node, history
<1>1. /\ pc[w0] = "recv" /\ chan[w0] # <<>> /\ Len(batch[w0]) < BatchSize[w0[2]]
      /\ chan' = [chan EXCEPT ![w0] = Tail(chan[w0])]
      /\ \/ batch' = [batch EXCEPT ![w0] = Append(batch[w0], e)] /\ tasks[j.id] # Gone
         \/ UNCHANGED batch
  BY DEF Recv
<1>2. events' \in 0..MaxEvents
  BY TaskAssumptions, <1>0 DEF Recv, Fault, Happens, TypeOK
<1>3. /\ chan[w0] \in Seq(Jobs) /\ batch[w0] \in Seq(Entries)
      /\ DOMAIN chan = Workers /\ DOMAIN batch = Workers
      /\ Len(chan[w0]) <= Capacity[w0[2]] /\ Len(batch[w0]) <= BatchSize[w0[2]]
      /\ Capacity[w0[2]] \in Nat /\ BatchSize[w0[2]] \in Nat
  <2>1. Capacity[w0[2]] \in Nat /\ BatchSize[w0[2]] \in Nat
    BY TaskAssumptions, WorkerIsPair
  <2> QED
    BY <1>0, <2>1 DEF TypeOK
<1>4. /\ j \in Jobs /\ Tail(chan[w0]) \in Seq(Jobs) /\ Len(Tail(chan[w0])) <= Len(chan[w0])
      /\ 1 \in DOMAIN chan[w0] /\ chan[w0][1] = j
      /\ \A i \in DOMAIN Tail(chan[w0]) :
            i + 1 \in DOMAIN chan[w0] /\ i + 1 # 1 /\ Tail(chan[w0])[i] = chan[w0][i + 1] /\ i \in Int
  BY <1>1, <1>3, Removed
<1>5. /\ chan'[w0] = Tail(chan[w0]) /\ DOMAIN chan' = Workers
      /\ \A w \in Workers : w # w0 => chan'[w] = chan[w]
  BY <1>1, <1>3
<1>6. /\ chan'[w0] \in Seq(Jobs) /\ Len(chan'[w0]) <= Capacity[w0[2]]
      /\ \A i \in DOMAIN chan'[w0] :
            i + 1 \in DOMAIN chan[w0] /\ i + 1 # 1 /\ chan'[w0][i] = chan[w0][i + 1] /\ i \in Int
  <2>1. Len(chan[w0]) \in Nat /\ Len(Tail(chan[w0])) \in Nat
    BY <1>3, <1>4, LenProperties
  <2> HIDE DEF j
  <2> QED
    BY <1>3, <1>4, <1>5, <2>1
<1>7. \A w \in Workers : \A i \in DOMAIN chan'[w] :
          \E h \in DOMAIN chan[w] : chan'[w][i] = chan[w][h] /\ (w = w0 => h # 1)
  BY <1>5, <1>6
<1>8. /\ e \in Entries /\ e.id = j.id /\ e.due = j.due /\ e.task = tasks[j.id] /\ j.id \in Ids
      /\ e.res.typ = "none"
  BY <1>0, <1>4 DEF Entries, Jobs, Res, TypeOK
<1> HIDE DEF j, e
<1>9. /\ DOMAIN batch' = Workers
      /\ \A w \in Workers : w # w0 => batch'[w] = batch[w]
      /\ batch'[w0] = batch[w0] \/ (batch'[w0] = Append(batch[w0], e) /\ tasks[j.id] # Gone)
  BY <1>1, <1>3
<1>10. /\ batch'[w0] \in Seq(Entries) /\ Len(batch'[w0]) <= BatchSize[w0[2]]
       /\ \A i \in DOMAIN batch'[w0] :
             \/ i \in DOMAIN batch[w0] /\ batch'[w0][i] = batch[w0][i]
             \/ /\ i = Len(batch[w0]) + 1 /\ i \notin DOMAIN batch[w0] /\ batch'[w0][i] = e
                /\ tasks[j.id] # Gone
  <2>1. CASE batch'[w0] = batch[w0]
    BY <1>3, <2>1
  <2>2. CASE batch'[w0] = Append(batch[w0], e) /\ tasks[j.id] # Gone
    <3>1. /\ Append(batch[w0], e) \in Seq(Entries)
          /\ Len(Append(batch[w0], e)) = Len(batch[w0]) + 1 /\ Len(batch[w0]) \in Nat
          /\ \A i \in DOMAIN Append(batch[w0], e) :
                \/ i \in DOMAIN batch[w0] /\ Append(batch[w0], e)[i] = batch[w0][i]
                \/ i = Len(batch[w0]) + 1 /\ i \notin DOMAIN batch[w0] /\ Append(batch[w0], e)[i] = e
      BY <1>3, <1>8, Appended
    <3>2. Len(batch[w0]) + 1 <= BatchSize[w0[2]]
      BY <1>1, <1>3, <3>1
    <3> QED
      BY <2>2, <3>1, <3>2
  <2> QED
    BY <1>9, <2>1, <2>2
<1>11. \A w \in Workers : \A i \in DOMAIN batch'[w] :
          \/ i \in DOMAIN batch[w] /\ batch'[w][i] = batch[w][i]
          \/ w = w0 /\ i \notin DOMAIN batch[w0] /\ i = Len(batch[w0]) + 1 /\ batch'[w][i] = e
             /\ tasks[j.id] # Gone
  BY <1>9, <1>10
<1>12. TypeOK'
  <2>1. \A w \in Workers :
          /\ chan'[w] \in Seq(Jobs) /\ Len(chan'[w]) <= Capacity[w[2]]
          /\ batch'[w] \in Seq(Entries) /\ Len(batch'[w]) <= BatchSize[w[2]]
    <3> SUFFICES ASSUME NEW w \in Workers
                 PROVE  /\ chan'[w] \in Seq(Jobs) /\ Len(chan'[w]) <= Capacity[w[2]]
                        /\ batch'[w] \in Seq(Entries) /\ Len(batch'[w]) <= BatchSize[w[2]]
      OBVIOUS
    <3>1. CASE w = w0
      BY <1>6, <1>10, <3>1
    <3>2. CASE w # w0
      BY <1>0, <1>5, <1>9, <3>2 DEF TypeOK
    <3> QED
      BY <3>1, <3>2
  <2> QED
    BY <1>0, <1>u, <1>2, <1>5, <1>9, <2>1 DEF TypeOK
<1>13. NotStranded' /\ NoLostTask'
  BY <1>0, <1>u DEF NotStranded, NoLostTask
<1>14. ResultsApplied'
  BY <1>0, <1>u, <1>1, <1>9 DEF ResultsApplied
<1>15. JobsKnown'
  <2>1. /\ j.id \in born /\ j.due <= now /\ TypeOf[j.id] = w0[2]
        /\ w0[2] \in roles[w0[1]]
    BY <1>0, <1>1, <1>4 DEF JobsKnown
  <2>2. \A w \in Workers : \A i \in DOMAIN chan'[w] :
            chan'[w][i].id \in born /\ chan'[w][i].due <= now /\ TypeOf[chan'[w][i].id] = w[2]
    BY <1>0, <1>7 DEF JobsKnown
  <2>3. \A w \in Workers : w[2] \in roles[w[1]] \/ (chan'[w] = <<>> /\ batch'[w] = <<>>)
    BY <1>0, <1>5, <1>9, <2>1 DEF JobsKnown
  <2>4. \A w \in Workers : \A i \in DOMAIN batch'[w] :
          /\ batch'[w][i].id \in born /\ batch'[w][i].due <= now /\ TypeOf[batch'[w][i].id] = w[2]
          /\ pc[w] = "write" /\ batch'[w][i].id \notin Silent => batch'[w][i].res.typ \in Outcomes
          /\ batch'[w][i].res.typ \in {"success", "followup"} => batch'[w][i].id \in finished
    <3> SUFFICES ASSUME NEW w \in Workers, NEW i \in DOMAIN batch'[w]
                 PROVE  /\ batch'[w][i].id \in born /\ batch'[w][i].due <= now
                        /\ TypeOf[batch'[w][i].id] = w[2]
                        /\ pc[w] = "write" /\ batch'[w][i].id \notin Silent => batch'[w][i].res.typ \in Outcomes
                        /\ batch'[w][i].res.typ \in {"success", "followup"} =>
                              batch'[w][i].id \in finished
      OBVIOUS
    <3>1. CASE i \in DOMAIN batch[w] /\ batch'[w][i] = batch[w][i]
      BY <1>0, <3>1 DEF JobsKnown
    <3>2. CASE w = w0 /\ batch'[w][i] = e
      BY <1>1, <1>8, <2>1, <3>2
    <3> QED
      BY <1>11, <3>1, <3>2
  <2> QED
    BY <1>0, <1>u, <2>2, <2>3, <2>4 DEF JobsKnown
<1>16. LocksHeld'
  <2> SUFFICES ASSUME ~overran PROVE LocksHeld'
    BY <1>u DEF LocksHeld
  <2>1. \A w \in Workers : \A i \in DOMAIN chan[w] :
              /\ lock[chan[w][i].id] = w[1]
              /\ \A h \in DOMAIN chan[w] : chan[w][i].id = chan[w][h].id => i = h
              /\ \A h \in DOMAIN batch[w] : chan[w][i].id # batch[w][h].id
    BY <1>0 DEF LocksHeld
  <2>2. \A w \in Workers : \A i \in DOMAIN batch[w] :
              /\ lock[batch[w][i].id] = w[1]
              /\ \A h \in DOMAIN batch[w] : batch[w][i].id = batch[w][h].id => i = h
              /\ pc[w] # "unlock" => tasks[batch[w][i].id] # Gone
    BY <1>0 DEF LocksHeld
  <2>3. /\ lock[j.id] = w0[1]
        /\ \A h \in DOMAIN chan[w0] : chan[w0][h].id = j.id => h = 1
        /\ \A h \in DOMAIN batch[w0] : batch[w0][h].id # j.id
    BY <1>4, <2>1
  <2>4. ASSUME NEW w \in Workers, NEW i \in DOMAIN chan'[w]
        PROVE  /\ lock[chan'[w][i].id] = w[1]
               /\ \A h \in DOMAIN chan'[w] : chan'[w][i].id = chan'[w][h].id => i = h
               /\ \A h \in DOMAIN batch'[w] : chan'[w][i].id # batch'[w][h].id
    <3>1. PICK g \in DOMAIN chan[w] : chan'[w][i] = chan[w][g] /\ (w = w0 => g # 1)
      BY <1>7
    <3>2. lock[chan'[w][i].id] = w[1]
      BY <2>1, <3>1
    <3>3. \A h \in DOMAIN chan'[w] : chan'[w][i].id = chan'[w][h].id => i = h
      <4>1. CASE w = w0
        <5> SUFFICES ASSUME NEW h \in DOMAIN chan'[w0], chan'[w0][i].id = chan'[w0][h].id
                     PROVE  i = h
          BY <4>1
        <5>1. i + 1 = h + 1
          BY <1>6, <2>1, <4>1
        <5> QED
          BY <1>6, <4>1, <5>1
      <4>2. CASE w # w0
        BY <1>5, <2>1, <4>2
      <4> QED
        BY <4>1, <4>2
    <3>4. \A h \in DOMAIN batch'[w] : chan'[w][i].id # batch'[w][h].id
      <4> SUFFICES ASSUME NEW h \in DOMAIN batch'[w] PROVE chan[w][g].id # batch'[w][h].id
        BY <3>1
      <4>1. CASE h \in DOMAIN batch[w] /\ batch'[w][h] = batch[w][h]
        BY <2>1, <4>1
      <4>2. CASE w = w0 /\ batch'[w][h] = e
        BY <1>8, <2>3, <3>1, <4>2
      <4> QED
        BY <1>11, <4>1, <4>2
    <3> QED
      BY <3>2, <3>3, <3>4
  <2>5. ASSUME NEW w \in Workers, NEW i \in DOMAIN batch'[w]
        PROVE  /\ lock[batch'[w][i].id] = w[1]
               /\ \A h \in DOMAIN batch'[w] : batch'[w][i].id = batch'[w][h].id => i = h
               /\ pc[w] # "unlock" => tasks[batch'[w][i].id] # Gone
    <3>1. CASE i \in DOMAIN batch[w] /\ batch'[w][i] = batch[w][i]
      <4>1. \A h \in DOMAIN batch'[w] : batch'[w][i].id = batch'[w][h].id => i = h
        BY <1>8, <1>11, <2>2, <2>3, <3>1
      <4> QED
        BY <2>2, <3>1, <4>1
    <3>2. CASE w = w0 /\ i \notin DOMAIN batch[w0] /\ i = Len(batch[w0]) + 1 /\ batch'[w][i] = e
               /\ tasks[j.id] # Gone
      <4>1. \A h \in DOMAIN batch'[w] : batch'[w][i].id = batch'[w][h].id => i = h
        BY <1>8, <1>11, <2>3, <3>2
      <4> QED
        BY <1>8, <2>3, <3>2, <4>1
    <3> QED
      BY <1>11, <3>1, <3>2
  <2> QED
    BY <1>u, <2>4, <2>5 DEF LocksHeld
<1>17. MemoryKept'
  <2>1. \A t : Undisturbed(t)' => Undisturbed(t)
    BY <1>u, UndisturbedBefore
  <2>2. \A w \in Workers : \A i \in DOMAIN chan[w] : Undisturbed(chan[w][i].id) =>
             /\ tasks[chan[w][i].id].due = chan[w][i].due
             /\ locked[w[1]][chan[w][i].id] >= chan[w][i].due
             /\ \A h \in todo[w[1]] : h.id # chan[w][i].id
    BY <1>0 DEF MemoryKept
  <2>3. \A w \in Workers : \A i \in DOMAIN chan'[w] : Undisturbed(chan'[w][i].id) =>
             /\ tasks[chan'[w][i].id].due = chan'[w][i].due
             /\ locked[w[1]][chan'[w][i].id] >= chan'[w][i].due
             /\ \A h \in todo[w[1]] : h.id # chan'[w][i].id
    BY <1>7, <2>2
  <2>4. \A w \in Workers : \A i \in DOMAIN batch'[w] : Undisturbed(batch'[w][i].id) =>
             /\ batch'[w][i].task.due = batch'[w][i].due
             /\ pc[w] # "unlock" =>
                    /\ tasks[batch'[w][i].id] = batch'[w][i].task
                    /\ locked[w[1]][batch'[w][i].id] >= batch'[w][i].due
                    /\ \A h \in todo[w[1]] : h.id # batch'[w][i].id
    <3> SUFFICES ASSUME NEW w \in Workers, NEW i \in DOMAIN batch'[w], Undisturbed(batch'[w][i].id)
                 PROVE  /\ batch'[w][i].task.due = batch'[w][i].due
                        /\ pc[w] # "unlock" =>
                              /\ tasks[batch'[w][i].id] = batch'[w][i].task
                              /\ locked[w[1]][batch'[w][i].id] >= batch'[w][i].due
                              /\ \A h \in todo[w[1]] : h.id # batch'[w][i].id
      OBVIOUS
    <3>1. CASE i \in DOMAIN batch[w] /\ batch'[w][i] = batch[w][i]
      BY <1>0, <3>1 DEF MemoryKept
    <3>2. CASE w = w0 /\ batch'[w][i] = e
      BY <1>4, <1>8, <2>2, <3>2
    <3> QED
      BY <1>11, <3>1, <3>2
  <2>5. /\ \A k \in dueKeys : Undisturbed(k.id) => tasks[k.id] # Gone /\ k.due = tasks[k.id].due
        /\ \A m \in Nodes : \A h \in todo[m] : Undisturbed(h.id) =>
              tasks[h.id].due = h.due /\ locked[m][h.id] >= h.due
    BY <1>0 DEF MemoryKept
  <2> QED
    BY <1>u, <2>1, <2>3, <2>4, <2>5 DEF MemoryKept
<1> QED
  BY <1>12, <1>13, <1>14, <1>15, <1>16, <1>17 DEF Ind

(* A worker that marks the results of its batch still has the same jobs.   *)
LEMMA Mapped ==
    ASSUME NEW S, NEW s \in Seq(S), NEW f \in [DOMAIN s -> S]
    PROVE  f \in Seq(S) /\ Len(f) = Len(s) /\ DOMAIN f = DOMAIN s
<1>1. Len(s) \in Nat /\ DOMAIN s = 1..Len(s)
  BY LenProperties
<1>2. f \in Seq(S)
  BY <1>1, SeqDef
<1>3. Len(f) \in Nat /\ DOMAIN f = 1..Len(f)
  BY <1>2, LenProperties
<1>4. 1..Len(f) = 1..Len(s) /\ DOMAIN f = DOMAIN s
  BY <1>1, <1>3
<1> QED
  BY <1>1, <1>2, <1>3, <1>4

LEMMA SameJobsKeep ==
    ASSUME Ind, TypeOK', NoLostTask', JobsKnown', ResultsApplied',
           \A w \in Workers :
              /\ DOMAIN batch'[w] = DOMAIN batch[w]
              /\ \A i \in DOMAIN batch[w] : /\ batch'[w][i].id = batch[w][i].id
                                            /\ batch'[w][i].due = batch[w][i].due
                                            /\ batch'[w][i].task = batch[w][i].task
              /\ pc'[w] # "unlock" => pc[w] # "unlock",
           UNCHANGED <<roles, tasks, dueKeys, lock, locked, todo, chan, overran, forgot>>
    PROVE  Ind'
<1>0. NotStranded /\ LocksHeld /\ MemoryKept
  BY DEF Ind
<1>1. NotStranded'
  BY <1>0 DEF NotStranded
<1>2. LocksHeld'
  BY <1>0 DEF LocksHeld
<1>3. MemoryKept'
  <2>1. \A t : Undisturbed(t)' => Undisturbed(t)
    BY UndisturbedBefore
  <2>2. \A k \in dueKeys : Undisturbed(k.id) => tasks[k.id] # Gone /\ k.due = tasks[k.id].due
    BY <1>0 DEF MemoryKept
  <2>3. \A m \in Nodes : \A j \in todo[m] : Undisturbed(j.id) =>
          tasks[j.id].due = j.due /\ locked[m][j.id] >= j.due
    BY <1>0 DEF MemoryKept
  <2>4. \A w \in Workers : \A i \in DOMAIN chan[w] : Undisturbed(chan[w][i].id) =>
             /\ tasks[chan[w][i].id].due = chan[w][i].due
             /\ locked[w[1]][chan[w][i].id] >= chan[w][i].due
             /\ \A h \in todo[w[1]] : h.id # chan[w][i].id
    BY <1>0 DEF MemoryKept
  <2>5. \A w \in Workers : \A i \in DOMAIN batch'[w] : Undisturbed(batch'[w][i].id) =>
             /\ batch'[w][i].task.due = batch'[w][i].due
             /\ pc'[w] # "unlock" =>
                    /\ tasks[batch'[w][i].id] = batch'[w][i].task
                    /\ locked[w[1]][batch'[w][i].id] >= batch'[w][i].due
                    /\ \A h \in todo[w[1]] : h.id # batch'[w][i].id
    BY <1>0 DEF MemoryKept
  <2> QED
    BY <2>1, <2>2, <2>3, <2>4, <2>5 DEF MemoryKept
<1> QED
  BY <1>1, <1>2, <1>3 DEF Ind

(* The work ends: a success is on record before it is written.             *)
LEMMA RunKeeps ==
    ASSUME Ind, NEW w0, w0 \in Workers, Run(w0, AnyOutcome)
    PROVE  Ind'
<1>0. TypeOK /\ NoLostTask /\ JobsKnown /\ ResultsApplied
  BY DEF Ind
<1>u. UNCHANGED <<roles, now, tasks, dueKeys, lock, locked, todo, chan, born, swapped,
                  overran, forgot, events>>
  BY DEF Run, store, node
<1>1. pc[w0] = "recv" /\ pc' = [pc EXCEPT ![w0] = "write"]
  BY DEF Run
<1>2. PICK res \in [DOMAIN batch[w0] -> UNION {ResultsOf(AnyOutcome, t) : t \in Ids}] :
          /\ \A i \in DOMAIN batch[w0] : res[i] \in ResultsOf(AnyOutcome, batch[w0][i].id)
          /\ batch' = [batch EXCEPT ![w0] = [i \in DOMAIN @ |-> [@[i] EXCEPT !.res = res[i]]]]
          /\ finished' = finished \cup {batch[w0][i].id : i \in
                {j \in DOMAIN batch[w0] : res[j].typ \in {"success", "followup"}}}
  BY DEF Run
<1>3. \A i \in DOMAIN batch[w0] : \E o \in Outcomes \cup {"none"} :
          /\ res[i] = [typ |-> o, at |-> 0]
          /\ batch[w0][i].id \notin Silent => o \in Outcomes
  <2> SUFFICES ASSUME NEW i \in DOMAIN batch[w0]
               PROVE  \E o \in Outcomes \cup {"none"} :
                         /\ res[i] = [typ |-> o, at |-> 0]
                         /\ batch[w0][i].id \notin Silent => o \in Outcomes
    OBVIOUS
  <2>1. batch[w0][i].id \in Ids /\ res[i] \in ResultsOf(AnyOutcome, batch[w0][i].id)
    BY <1>0, <1>2, JobTypes
  <2>2. CASE batch[w0][i].id \in Silent
    BY <2>1, <2>2 DEF ResultsOf, Res
  <2>3. CASE batch[w0][i].id \notin Silent
    <3>1. res[i] \in {Res(o) : o \in Outcomes}
      BY <2>1, <2>3 DEF AnyOutcome, ResultsOf
    <3> QED
      BY <3>1 DEF Res
  <2> QED
    BY <2>2, <2>3
<1>4. /\ batch[w0] \in Seq(Entries) /\ DOMAIN batch = Workers
      /\ \A i \in DOMAIN batch[w0] : batch[w0][i] \in Entries
      /\ pc \in [Workers -> {"recv", "write", "unlock"}]
      /\ finished \subseteq born /\ Len(batch[w0]) <= BatchSize[w0[2]]
  BY <1>0, JobTypes DEF TypeOK
<1> DEFINE f == [i \in DOMAIN batch[w0] |-> [batch[w0][i] EXCEPT !.res = res[i]]]
<1>5. /\ batch'[w0] = f /\ DOMAIN batch' = Workers
      /\ \A w \in Workers : w # w0 => batch'[w] = batch[w]
  BY <1>2, <1>4
<1>6. \A i \in DOMAIN batch[w0] : /\ f[i] \in Entries /\ f[i].id = batch[w0][i].id
                                  /\ f[i].due = batch[w0][i].due /\ f[i].task = batch[w0][i].task
                                  /\ f[i].res = res[i]
                                  /\ f[i].id \notin Silent => f[i].res.typ \in Outcomes
  <2> SUFFICES ASSUME NEW i \in DOMAIN batch[w0]
               PROVE  /\ f[i] \in Entries /\ f[i].id = batch[w0][i].id
                      /\ f[i].due = batch[w0][i].due /\ f[i].task = batch[w0][i].task
                      /\ f[i].res = res[i]
                      /\ f[i].id \notin Silent => f[i].res.typ \in Outcomes
    OBVIOUS
  <2>1. f[i] = [batch[w0][i] EXCEPT !.res = res[i]]
    OBVIOUS
  <2>2. /\ res[i] \in [typ : Outcomes \cup {"none", "lost"}, at : {0}]
        /\ batch[w0][i].id \notin Silent => res[i].typ \in Outcomes
    <3>1. PICK o \in Outcomes \cup {"none"} :
             /\ res[i] = [typ |-> o, at |-> 0]
             /\ batch[w0][i].id \notin Silent => o \in Outcomes
      BY <1>3
    <3> HIDE DEF f
    <3> QED
      BY <3>1
  <2>3. batch[w0][i] \in Entries
    BY <1>4
  <2> HIDE DEF f
  <2> QED
    BY <2>1, <2>2, <2>3 DEF Entries
<1>7. f \in Seq(Entries) /\ Len(f) = Len(batch[w0]) /\ DOMAIN f = DOMAIN batch[w0]
  <2>1. f \in [DOMAIN batch[w0] -> Entries]
    BY <1>6
  <2> HIDE DEF f
  <2> QED
    BY <1>4, <2>1, Mapped
<1>8. \A i \in DOMAIN batch[w0] : res[i].typ \in {"success", "followup"} =>
          batch[w0][i].id \in finished'
  BY <1>2
<1>9. finished \subseteq finished' /\ finished' \subseteq born
  <2>1. \A i \in DOMAIN batch[w0] : batch[w0][i].id \in born
    BY <1>0 DEF JobsKnown
  <2>2. finished' = finished \cup {batch[w0][i].id : i \in
                {j \in DOMAIN batch[w0] : res[j].typ \in {"success", "followup"}}}
    BY <1>2
  <2> HIDE DEF f
  <2> QED
    BY <1>4, <2>1, <2>2
<1> HIDE DEF f
<1>10. TypeOK'
  <2>1. \A w \in Workers :
          /\ chan'[w] \in Seq(Jobs) /\ Len(chan'[w]) <= Capacity[w[2]]
          /\ batch'[w] \in Seq(Entries) /\ Len(batch'[w]) <= BatchSize[w[2]]
    BY <1>0, <1>u, <1>4, <1>5, <1>7 DEF TypeOK
  <2>2. pc' \in [Workers -> {"recv", "write", "unlock"}]
    BY <1>1, <1>4
  <2> QED
    BY <1>0, <1>u, <1>5, <1>9, <2>1, <2>2 DEF TypeOK
<1>11. \A w \in Workers : pc'[w] = IF w = w0 THEN "write" ELSE pc[w]
  BY <1>1, <1>4
<1>12. \A w \in Workers :
          /\ DOMAIN batch'[w] = DOMAIN batch[w]
          /\ \A i \in DOMAIN batch[w] : /\ batch'[w][i].id = batch[w][i].id
                                        /\ batch'[w][i].due = batch[w][i].due
                                        /\ batch'[w][i].task = batch[w][i].task
          /\ pc'[w] # "unlock" => pc[w] # "unlock"
  BY <1>1, <1>5, <1>6, <1>7, <1>11
<1>13. NoLostTask'
  BY <1>0, <1>u, <1>9 DEF NoLostTask
<1>14. JobsKnown'
  <2>1. \A w \in Workers : \A i \in DOMAIN batch'[w] :
          /\ batch'[w][i].id \in born /\ batch'[w][i].due <= now /\ TypeOf[batch'[w][i].id] = w[2]
          /\ pc'[w] = "write" /\ batch'[w][i].id \notin Silent => batch'[w][i].res.typ \in Outcomes
          /\ batch'[w][i].res.typ \in {"success", "followup"} => batch'[w][i].id \in finished'
    <3> SUFFICES ASSUME NEW w \in Workers, NEW i \in DOMAIN batch'[w]
                 PROVE  /\ batch'[w][i].id \in born /\ batch'[w][i].due <= now
                        /\ TypeOf[batch'[w][i].id] = w[2]
                        /\ pc'[w] = "write" /\ batch'[w][i].id \notin Silent => batch'[w][i].res.typ \in Outcomes
                        /\ batch'[w][i].res.typ \in {"success", "followup"} =>
                              batch'[w][i].id \in finished'
      OBVIOUS
    <3>1. CASE w = w0
      BY <1>0, <1>5, <1>6, <1>7, <1>8, <3>1 DEF JobsKnown
    <3>2. CASE w # w0
      BY <1>0, <1>5, <1>9, <1>11, <3>2 DEF JobsKnown
    <3> QED
      BY <3>1, <3>2
  <2>2. \A w \in Workers : w[2] \in roles[w[1]] \/ (chan[w] = <<>> /\ batch'[w] = <<>>)
    <3>1. \A w \in Workers : w[2] \in roles[w[1]] \/ (chan[w] = <<>> /\ batch[w] = <<>>)
      BY <1>0 DEF JobsKnown
    <3>2. batch[w0] # <<>>
      BY DEF Run
    <3> QED
      BY <1>5, <3>1, <3>2
  <2> QED
    BY <1>0, <1>u, <1>9, <2>1, <2>2 DEF JobsKnown
<1>15. ResultsApplied'
  BY <1>0, <1>u, <1>5, <1>11 DEF ResultsApplied
<1> QED
  BY <1>u, <1>10, <1>12, <1>13, <1>14, <1>15, SameJobsKeep

(* While the locks hold, the jobs a worker works on are its own.           *)
LEMMA OwnJobs ==
    ASSUME Ind, ~overran, NEW w0, w0 \in Workers, NEW i, i \in DOMAIN batch[w0],
           NEW w, w \in Workers
    PROVE  /\ \A h \in DOMAIN chan[w] : chan[w][h].id # batch[w0][i].id
           /\ \A h \in DOMAIN batch[w] : batch[w][h].id = batch[w0][i].id => w = w0 /\ h = i
<1>0. LocksHeld /\ JobsKnown
  BY DEF Ind
<1>1. lock[batch[w0][i].id] = w0[1] /\ TypeOf[batch[w0][i].id] = w0[2]
  BY <1>0 DEF LocksHeld, JobsKnown
<1>2. ASSUME NEW h \in DOMAIN chan[w], chan[w][h].id = batch[w0][i].id PROVE FALSE
  <2>1. lock[chan[w][h].id] = w[1] /\ TypeOf[chan[w][h].id] = w[2]
    BY <1>0 DEF LocksHeld, JobsKnown
  <2>2. w = w0
    BY <1>1, <1>2, <2>1, WorkerIsPair
  <2> QED
    BY <1>0, <1>2, <2>2 DEF LocksHeld
<1>3. ASSUME NEW h \in DOMAIN batch[w], batch[w][h].id = batch[w0][i].id PROVE w = w0 /\ h = i
  <2>1. lock[batch[w][h].id] = w[1] /\ TypeOf[batch[w][h].id] = w[2]
    BY <1>0 DEF LocksHeld, JobsKnown
  <2>2. w = w0
    BY <1>1, <1>3, <2>1, WorkerIsPair
  <2> QED
    BY <1>0, <1>3, <2>2 DEF LocksHeld
<1> QED
  BY <1>2, <1>3

LEMMA UpToSize == \A n \in Nat : IsFiniteSet(1..n) /\ Cardinality(1..n) = n
<1> SUFFICES ASSUME NEW n \in Nat PROVE IsFiniteSet(1..n) /\ Cardinality(1..n) = n
  OBVIOUS
<1>1. 1 \in Int /\ n \in Int /\ n - 1 + 1 = n /\ (1 > n => n = 0)
  OBVIOUS
<1>2. IsFiniteSet(1..n) /\ Cardinality(1..n) = IF 1 > n THEN 0 ELSE n - 1 + 1
  BY <1>1, FS_Interval, Zenon
<1> QED
  BY <1>1, <1>2

(* zip pairs the tasks in front of the first file with their own results.  *)
LEMMA ZipOwn ==
    ASSUME NEW S, NEW b \in Seq(S), NEW f \in Orders(b)
    PROVE  /\ DOMAIN f \subseteq DOMAIN b
           /\ \A i \in DOMAIN f : f[i] \in DOMAIN b /\ b[f[i]].id \notin Silent
           /\ \A i \in DOMAIN b : (\A j \in 1..i : b[j].id \notin Silent) =>
                 i \in DOMAIN f /\ f[i] = i
<1> DEFINE R == Reported(b)
           Upto(x) == {k \in R : k <= x}
<1>1. Len(b) \in Nat /\ DOMAIN b = 1..Len(b)
  BY LenProperties
<1>2. /\ R \subseteq 1..Len(b)
      /\ \A i : i \in R <=> i \in DOMAIN b /\ b[i].id \notin Silent
  BY <1>1 DEF Reported
<1>3. f \in [1..Cardinality(R) -> R] /\ \A i \in DOMAIN f : Cardinality(Upto(f[i])) = i
  BY DEF Orders
<1> HIDE DEF R
<1>4. IsFiniteSet(1..Len(b)) /\ Cardinality(1..Len(b)) = Len(b)
  BY <1>1, UpToSize
<1>5. IsFiniteSet(R) /\ Cardinality(R) \in Nat /\ Cardinality(R) <= Len(b)
  BY <1>2, <1>4, FS_Subset, FS_CardinalityType
<1>6. DOMAIN f \subseteq DOMAIN b
  BY <1>1, <1>3, <1>5
<1>7. \A i \in DOMAIN f : f[i] \in DOMAIN b /\ b[f[i]].id \notin Silent
  BY <1>2, <1>3
<1>8. ASSUME NEW i \in DOMAIN b, \A j \in 1..i : b[j].id \notin Silent
      PROVE  i \in DOMAIN f /\ f[i] = i
  <2>1. i \in Nat /\ 1 <= i /\ i <= Len(b) /\ 1..i \subseteq R
    BY <1>1, <1>2, <1>8
  <2>2. IsFiniteSet(1..i) /\ Cardinality(1..i) = i
    BY <2>1, FS_Interval
  <2>3. i \in DOMAIN f
    <3>1. Cardinality(1..i) <= Cardinality(R)
      BY <1>5, <2>1, FS_Subset
    <3> QED
      BY <1>3, <1>5, <2>1, <2>2, <3>1
  <2>4. f[i] \in Nat /\ 1 <= f[i] /\ f[i] \in R /\ Cardinality(Upto(f[i])) = i
    BY <1>1, <1>2, <1>3, <2>3
  <2>5. IsFiniteSet(Upto(f[i]))
    BY <1>5, FS_Subset
  <2>6. ~(f[i] < i)
    <3> SUFFICES ASSUME f[i] < i PROVE FALSE
      OBVIOUS
    <3>1. Upto(f[i]) = 1..f[i]
      BY <1>1, <1>2, <2>1, <2>4
    <3>2. Cardinality(1..f[i]) = f[i]
      BY <2>4, UpToSize
    <3>3. f[i] = i
      <4> HIDE DEF Upto
      <4> QED
        BY <2>4, <3>1, <3>2, Zenon
    <3> QED
      BY <2>1, <3>3
  <2>7. ~(f[i] > i)
    <3> SUFFICES ASSUME f[i] > i PROVE FALSE
      OBVIOUS
    <3>1. 1..i \subseteq Upto(f[i]) /\ f[i] \in Upto(f[i]) /\ f[i] \notin 1..i
      BY <2>1, <2>4
    <3>2. 1..i # Upto(f[i])
      BY <3>1
    <3> HIDE DEF Upto
    <3>3. Cardinality(1..i) < Cardinality(Upto(f[i]))
      BY <2>5, <3>1, <3>2, FS_Subset, FS_CardinalityType
    <3> QED
      BY <2>1, <2>2, <2>4, <3>3
  <2> QED
    BY <2>1, <2>3, <2>4, <2>6, <2>7
<1> QED
  BY <1>6, <1>7, <1>8

(* What update_tasks works with: the tasks of the batch, each one with the *)
(* result of a task that has one.                                          *)
LEMMA ZippedFacts ==
    ASSUME TypeOK, JobsKnown, NEW w, w \in Workers, pc[w] = "write", NEW f \in Orders(batch[w]),
           NEW b, b = Zipped(batch[w], f)
    PROVE  /\ b \in Seq(Entries) /\ Len(b) \in Nat /\ DOMAIN b = 1..Len(b) /\ DOMAIN b = DOMAIN f
           /\ \A i \in DOMAIN b :
                 /\ b[i] \in Entries /\ b[i].res.typ \in Outcomes
                 /\ i \in DOMAIN batch[w] /\ b[i].id = batch[w][i].id
                 /\ b[i].due = batch[w][i].due /\ b[i].task = batch[w][i].task
                 /\ f[i] \in DOMAIN batch[w] /\ b[i].res = batch[w][f[i]].res
           /\ \A i \in DOMAIN batch[w] :
                 (\A j \in 1..i : batch[w][j].id \notin Silent) => i \in DOMAIN b /\ f[i] = i
<1> DEFINE o == batch[w]
<1>o. /\ \A i \in DOMAIN o : o[i] \in Entries
      /\ \A i \in DOMAIN o : o[i].id \notin Silent => o[i].res.typ \in Outcomes
  BY JobTypes DEF JobsKnown
<1>s. /\ o \in Seq(Entries) /\ Len(o) \in Nat /\ DOMAIN o = 1..Len(o)
      /\ Cardinality(Reported(o)) \in Nat /\ DOMAIN f = 1..Cardinality(Reported(o))
  <2>1. o \in Seq(Entries) /\ Len(o) \in Nat /\ DOMAIN o = 1..Len(o)
    BY LenProperties DEF TypeOK
  <2>2. IsFiniteSet(DOMAIN o) /\ Reported(o) \subseteq DOMAIN o
    BY <2>1, FS_Interval DEF Reported
  <2>3. Cardinality(Reported(o)) \in Nat
    BY <2>2, FS_Subset, FS_CardinalityType
  <2> QED
    BY <2>1, <2>3 DEF Orders
<1>f. /\ DOMAIN f \subseteq DOMAIN o
      /\ \A i \in DOMAIN f : f[i] \in DOMAIN o /\ o[f[i]].id \notin Silent
      /\ \A i \in DOMAIN o : (\A j \in 1..i : o[j].id \notin Silent) => i \in DOMAIN f /\ f[i] = i
  <2>1. f \in Orders(o)
    OBVIOUS
  <2> HIDE DEF o
  <2> QED
    BY <1>s, <2>1, ZipOwn
<1>b. DOMAIN b = DOMAIN f /\ \A i \in DOMAIN f : b[i] = [o[i] EXCEPT !.res = o[f[i]].res]
  BY DEF Zipped
<1>z. ASSUME NEW i \in DOMAIN b
      PROVE  /\ b[i] \in Entries /\ b[i].res.typ \in Outcomes
             /\ i \in DOMAIN o /\ b[i].id = o[i].id /\ b[i].due = o[i].due
             /\ b[i].task = o[i].task /\ f[i] \in DOMAIN o /\ b[i].res = o[f[i]].res
  <2>1. /\ i \in DOMAIN f /\ f[i] \in DOMAIN o /\ o[f[i]].res.typ \in Outcomes
        /\ i \in DOMAIN o /\ o[i] \in Entries /\ o[f[i]] \in Entries
    BY <1>b, <1>f, <1>o
  <2>2. b[i] = [o[i] EXCEPT !.res = o[f[i]].res]
    BY <1>b, <2>1
  <2> HIDE DEF o
  <2> QED
    BY <2>1, <2>2 DEF Entries
<1>4. b \in Seq(Entries) /\ Len(b) \in Nat /\ DOMAIN b = 1..Len(b)
  <2>1. b = [i \in DOMAIN b |-> b[i]]
    BY DEF Zipped
  <2> HIDE DEF o
  <2>2. b \in [1..Cardinality(Reported(o)) -> Entries]
    BY <1>b, <1>s, <1>z, <2>1
  <2>3. b \in Seq(Entries)
    BY <1>s, <2>2, SeqDef
  <2> QED
    BY <2>3, LenProperties
<1> QED
  BY <1>b, <1>f, <1>z, <1>4

(* update_tasks is applied: every task of the batch has what the result it *)
(* was given left, under the key that goes with it, and no other job is    *)
(* affected.                                                               *)
Applies(w, f, fresh) ==
    LET b == Zipped(batch[w], f) IN
    /\ pc[w] = "write"
    /\ tasks' = TasksAfter(b, fresh)
    /\ dueKeys' = KeysAfter(b, fresh)
    /\ born' = born \cup fresh
    /\ swapped' = swapped \cup {b[i].id : i \in {j \in DOMAIN f : f[j] # j}}
    /\ pc' = [pc EXCEPT ![w] = "unlock"]
    /\ UNCHANGED <<roles, now, lock, locked, todo, chan, batch, finished, overran, forgot, events>>

LEMMA AppliesKeeps ==
    ASSUME Ind, NEW w0, w0 \in Workers, NEW fresh, fresh \subseteq Ids \ born,
           NEW f \in Orders(batch[w0]), Applies(w0, f, fresh)
    PROVE  Ind'
<1> DEFINE o == batch[w0]
           b == Zipped(o, f)
<1>0. TypeOK /\ NotStranded /\ NoLostTask /\ JobsKnown /\ LocksHeld /\ MemoryKept /\ ResultsApplied
  BY DEF Ind
<1>u. UNCHANGED <<roles, now, lock, locked, todo, chan, batch, finished, overran, forgot, events>>
  BY DEF Applies
<1>1. /\ pc[w0] = "write" /\ born' = born \cup fresh
      /\ \A w \in Workers : pc'[w] = IF w = w0 THEN "unlock" ELSE pc[w]
      /\ pc' \in [Workers -> {"recv", "write", "unlock"}]
  BY <1>0 DEF Applies, TypeOK
<1>x. /\ tasks' = TasksAfter(b, fresh) /\ dueKeys' = KeysAfter(b, fresh)
      /\ fresh \subseteq Ids /\ fresh \cap born = {}
      /\ swapped' = swapped \cup {b[i].id : i \in {j \in DOMAIN f : f[j] # j}}
  BY DEF Applies
<1>4. b \in Seq(Entries) /\ Len(b) \in Nat /\ DOMAIN b = 1..Len(b) /\ DOMAIN b = DOMAIN f
  BY <1>0, <1>1, ZippedFacts
<1>z. \A i \in DOMAIN b :
          /\ b[i] \in Entries /\ b[i].res.typ \in Outcomes
          /\ i \in DOMAIN o /\ b[i].id = o[i].id /\ b[i].due = o[i].due
          /\ b[i].task = o[i].task /\ f[i] \in DOMAIN o /\ b[i].res = o[f[i]].res
  BY <1>0, <1>1, ZippedFacts
<1>f. \A i \in DOMAIN o : (\A j \in 1..i : o[j].id \notin Silent) => i \in DOMAIN b /\ f[i] = i
  BY <1>0, <1>1, ZippedFacts
<1> HIDE DEF b
<1>2. \A i \in DOMAIN b : /\ b[i] \in Entries /\ b[i].id \in Ids /\ b[i].id \in born
                          /\ b[i].res.typ \in Outcomes
                          /\ b[i].res.typ \in {"success", "followup"} =>
                                b[i].id \in finished \cup swapped'
  <2> SUFFICES ASSUME NEW i \in DOMAIN b
               PROVE  /\ b[i].id \in Ids /\ b[i].id \in born
                      /\ b[i].res.typ \in {"success", "followup"} =>
                            b[i].id \in finished \cup swapped'
    BY <1>z
  <2>1. b[i].id \in Ids /\ b[i].id \in born
    BY <1>0, <1>z, JobTypes DEF JobsKnown
  <2>2. f[i] # i => b[i].id \in swapped'
    BY <1>4, <1>x
  <2>3. f[i] = i /\ b[i].res.typ \in {"success", "followup"} => b[i].id \in finished
    BY <1>0, <1>z DEF JobsKnown
  <2> QED
    BY <2>1, <2>2, <2>3
<1>3. \A i \in DOMAIN b :
          /\ TaskAfter(b[i]) \in TaskRecords
          /\ b[i].res.typ \in {"success", "followup"} => TaskAfter(b[i]) = Gone
          /\ b[i].res.typ \in Failures => TaskAfter(b[i]) # Gone /\ TaskAfter(b[i]).due \in 1..Never
          /\ b[i].res.typ \in Failures \cup {"success", "followup"}
  BY <1>0, <1>2, TaskAfterType
<1>5. \A t \in Ids : (\E i \in DOMAIN b : b[i].id = t) =>
          /\ LastOf(b, t) \in DOMAIN b /\ b[LastOf(b, t)].id = t
          /\ \A i \in DOMAIN b : b[i].id = t => i <= LastOf(b, t)
  BY <1>4, LastOfIsLast
<1> DEFINE Touched(t) == \E i \in DOMAIN b : b[i].id = t
<1>6. /\ tasks' = TasksAfter(b, fresh) /\ dueKeys' = KeysAfter(b, fresh)
      /\ fresh \subseteq Ids /\ fresh \cap born = {}
  BY <1>x
<1> DEFINE Left == {k \in dueKeys : \A i \in DOMAIN b : ~Writes(b[i], k)}
           Set == UNION {{k \in DueAfter(b[i]) : \A j \in DOMAIN b : j > i => ~Writes(b[j], k)}
                         : i \in DOMAIN b}
           New == {[id |-> t, due |-> now, typ |-> "task"] : t \in fresh}
<1>k. \A k : k \in dueKeys' <=> k \in Left \/ k \in Set \/ k \in New
  <2>1. dueKeys' = (Left \cup New) \cup Set
    BY <1>6 DEF KeysAfter
  <2> HIDE DEF Left, Set, New
  <2> QED
    BY <2>1
<1>7. /\ Pending(now) \in TaskRecords /\ Pending(now) # Gone /\ Pending(now).due = now
      /\ now \in 1..Never
  BY <1>0, TaskAssumptions DEF Pending, TaskRecords, Gone, TypeOK, Never, Latest
<1>8. \A t \in Ids : Touched(t) => t \notin fresh
  BY <1>2, <1>6
<1>9. \A t \in Ids : /\ t \in fresh => tasks'[t] = Pending(now)
                     /\ Touched(t) => tasks'[t] = TaskAfter(b[LastOf(b, t)])
                     /\ t \notin fresh /\ ~Touched(t) => tasks'[t] = tasks[t]
  BY <1>6, <1>8 DEF TasksAfter
<1>10. \A k \in dueKeys' :
          \/ k \in dueKeys /\ \A i \in DOMAIN b : ~Writes(b[i], k)
          \/ \E i \in DOMAIN b : k \in DueAfter(b[i])
          \/ k.id \in fresh /\ k.due = now /\ k = [id |-> k.id, due |-> now, typ |-> "task"]
  <2> SUFFICES ASSUME NEW k \in dueKeys'
               PROVE  \/ k \in dueKeys /\ \A i \in DOMAIN b : ~Writes(b[i], k)
                      \/ \E i \in DOMAIN b : k \in DueAfter(b[i])
                      \/ k.id \in fresh /\ k.due = now /\ k = [id |-> k.id, due |-> now, typ |-> "task"]
    OBVIOUS
  <2>1. CASE k \in Left
    BY <2>1
  <2>2. CASE k \in Set
    BY <2>2
  <2>3. CASE k \in New
    BY <2>3
  <2> QED
    BY <1>k, <2>1, <2>2, <2>3
<1>11. \A i \in DOMAIN b : \A k \in DueAfter(b[i]) :
          /\ TaskAfter(b[i]) # Gone /\ b[i].res.typ \in Failures
          /\ k = [id |-> b[i].id, due |-> TaskAfter(b[i]).due, typ |-> "task"]
          /\ k.id = b[i].id /\ k.due = TaskAfter(b[i]).due
  BY <1>3 DEF DueAfter
<1>12. TypeOK'
  <2>1. tasks' \in [Ids -> TaskRecords]
    <3>1. DOMAIN tasks' = Ids /\ tasks' = [t \in Ids |-> tasks'[t]]
      BY <1>6 DEF TasksAfter
    <3>2. \A t \in Ids : tasks'[t] \in TaskRecords
      <4>1. \A t \in Ids : tasks[t] \in TaskRecords
        BY <1>0 DEF TypeOK
      <4> HIDE DEF Touched
      <4>2. \A t \in Ids : Touched(t) => LastOf(b, t) \in DOMAIN b
        BY <1>5 DEF Touched
      <4> QED
        BY <1>3, <1>7, <1>9, <4>1, <4>2
    <3> QED
      BY <3>1, <3>2
  <2>2. dueKeys' \subseteq [id : Ids, due : 1..Never, typ : {"task"}]
    <3> SUFFICES ASSUME NEW k \in dueKeys' PROVE k \in [id : Ids, due : 1..Never, typ : {"task"}]
      OBVIOUS
    <3>1. CASE k \in dueKeys
      BY <1>0, <3>1 DEF TypeOK
    <3>2. CASE \E i \in DOMAIN b : k \in DueAfter(b[i])
      BY <1>2, <1>3, <1>11, <3>2
    <3>3. CASE k.id \in fresh /\ k.due = now /\ k = [id |-> k.id, due |-> now, typ |-> "task"]
      BY <1>6, <1>7, <3>3
    <3> QED
      BY <1>10, <3>1, <3>2, <3>3
  <2>3. born' \subseteq Ids /\ finished' \subseteq born' /\ swapped' \subseteq born'
    <3>1. swapped' \subseteq born
      BY <1>0, <1>4, <1>x, <1>2 DEF TypeOK
    <3> QED
      BY <1>0, <1>u, <1>1, <1>6, <3>1 DEF TypeOK
  <2> QED
    BY <1>0, <1>u, <1>1, <2>1, <2>2, <2>3 DEF TypeOK
<1>13. NotStranded'
  <2> SUFFICES ASSUME NEW t \in Ids, tasks'[t] # Gone PROVE \E k \in dueKeys' : k.id = t
    BY DEF NotStranded
  <2>1. CASE t \in fresh
    <3>1. [id |-> t, due |-> now, typ |-> "task"] \in New
      BY <2>1
    <3>2. [id |-> t, due |-> now, typ |-> "task"] \in dueKeys'
      BY <1>k, <3>1
    <3> QED
      BY <3>2
  <2>2. CASE Touched(t)
    <3> DEFINE i == LastOf(b, t)
               k == [id |-> t, due |-> TaskAfter(b[i]).due, typ |-> "task"]
    <3>1. /\ i \in DOMAIN b /\ b[i].id = t
          /\ \A h \in DOMAIN b : b[h].id = t => h <= i
          /\ TaskAfter(b[i]) # Gone
      BY <1>5, <1>9, <2>2
    <3> HIDE DEF i
    <3>2. k \in DueAfter(b[i])
      BY <3>1 DEF DueAfter
    <3>3. \A h \in DOMAIN b : h > i => ~Writes(b[h], k)
      BY <1>4, <3>1 DEF Writes
    <3>4. k \in dueKeys'
      <4> HIDE DEF k
      <4>1. k \in Set
        BY <3>1, <3>2, <3>3
      <4> QED
        BY <1>k, <4>1
    <3> QED
      BY <3>4
  <2>3. CASE t \notin fresh /\ ~Touched(t)
    <3>1. PICK k \in dueKeys : k.id = t
      BY <1>0, <1>9, <2>3 DEF NotStranded
    <3>2. \A i \in DOMAIN b : ~Writes(b[i], k)
      BY <2>3, <3>1 DEF Writes
    <3>3. k \in dueKeys'
      BY <1>6, <3>2 DEF KeysAfter
    <3> QED
      BY <3>1, <3>3
  <2> QED
    BY <2>1, <2>2, <2>3
<1>14. NoLostTask'
  <2> SUFFICES ASSUME NEW t \in born', tasks'[t] = Gone
               PROVE  t \in finished \cup swapped'
    BY <1>u DEF NoLostTask
  <2>1. t \in Ids /\ t \notin fresh
    BY <1>0, <1>1, <1>6, <1>7, <1>9 DEF TypeOK
  <2>2. CASE Touched(t)
    <3>1. LastOf(b, t) \in DOMAIN b /\ b[LastOf(b, t)].id = t /\ TaskAfter(b[LastOf(b, t)]) = Gone
      BY <1>5, <1>9, <2>1, <2>2
    <3> QED
      BY <1>2, <1>3, <3>1
  <2>3. CASE ~Touched(t)
    BY <1>0, <1>1, <1>9, <1>x, <2>1, <2>3 DEF NoLostTask
  <2> QED
    BY <2>2, <2>3
<1>15. JobsKnown'
  <2>1. \A t \in Ids \ born' : tasks'[t] = Gone
    BY <1>0, <1>1, <1>2, <1>9 DEF JobsKnown
  <2>2. \A k \in dueKeys' : k.id \in born'
    BY <1>0, <1>1, <1>2, <1>10, <1>11 DEF JobsKnown
  <2>3. \A w \in Workers : pc'[w] = "write" => pc[w] = "write"
    BY <1>1
  <2> QED
    BY <1>0, <1>u, <1>1, <2>1, <2>2, <2>3 DEF JobsKnown
<1>16. ASSUME ~overran, NEW w \in Workers
       PROVE  /\ \A h \in DOMAIN chan[w] : tasks'[chan[w][h].id] = tasks[chan[w][h].id]
              /\ w # w0 => \A h \in DOMAIN batch[w] : tasks'[batch[w][h].id] = tasks[batch[w][h].id]
  <2>1. /\ \A h \in DOMAIN chan[w] : chan[w][h].id \in Ids /\ chan[w][h].id \in born
        /\ \A h \in DOMAIN batch[w] : batch[w][h].id \in Ids /\ batch[w][h].id \in born
    BY <1>0, JobTypes DEF JobsKnown
  <2>2. /\ \A h \in DOMAIN chan[w] : ~Touched(chan[w][h].id)
        /\ w # w0 => \A h \in DOMAIN batch[w] : ~Touched(batch[w][h].id)
    BY <1>16, <1>z, OwnJobs
  <2> HIDE DEF Touched
  <2> QED
    BY <1>6, <1>9, <2>1, <2>2
<1>17. LocksHeld'
  <2> SUFFICES ASSUME ~overran PROVE LocksHeld'
    BY <1>u DEF LocksHeld
  <2>1. \A w \in Workers : \A i \in DOMAIN batch[w] :
            pc'[w] # "unlock" => tasks'[batch[w][i].id] # Gone
    BY <1>0, <1>1, <1>16 DEF LocksHeld
  <2> QED
    BY <1>0, <1>u, <2>1 DEF LocksHeld
<1>18. ASSUME ~overran, NEW i \in DOMAIN b PROVE tasks'[b[i].id] = TaskAfter(b[i])
  <2>1. \A h \in DOMAIN b : b[h].id = b[i].id => h = i
    BY <1>18, <1>z, OwnJobs
  <2>2. Touched(b[i].id) /\ LastOf(b, b[i].id) = i
    BY <1>2, <1>5, <2>1
  <2> QED
    BY <1>2, <1>9, <2>2
<1>19. ResultsApplied'
  <2> SUFFICES ASSUME ~overran, NEW w \in Workers, pc'[w] = "unlock",
                      NEW i \in DOMAIN batch[w], batch[w][i].res.typ = "success",
                      \A j \in 1..i : batch[w][j].id \notin Silent
               PROVE  tasks'[batch[w][i].id] = Gone
    BY <1>u DEF ResultsApplied
  <2>1. CASE w = w0
    <3>1. i \in DOMAIN b /\ f[i] = i
      BY <1>f, <2>1
    <3>2. b[i].id = o[i].id /\ b[i].res.typ = "success"
      BY <1>z, <2>1, <3>1
    <3> QED
      BY <1>3, <1>18, <2>1, <3>1, <3>2
  <2>2. CASE w # w0
    BY <1>0, <1>1, <1>16, <2>2 DEF ResultsApplied
  <2> QED
    BY <2>1, <2>2
<1>20. MemoryKept'
  <2>1. \A t : (Undisturbed(t)' => Undisturbed(t)) /\ (Undisturbed(t) => ~overran)
    BY <1>u, UndisturbedBefore DEF Undisturbed
  <2>2. ASSUME NEW k \in dueKeys', Undisturbed(k.id)
        PROVE  tasks'[k.id] # Gone /\ k.due = tasks'[k.id].due
    <3>1. CASE k \in dueKeys /\ \A i \in DOMAIN b : ~Writes(b[i], k)
      <4>1. tasks[k.id] # Gone /\ k.due = tasks[k.id].due /\ k.id \in born /\ k.id \in Ids
        BY <1>0, <2>2, <3>1 DEF MemoryKept, JobsKnown, TypeOK
      <4>2. ~Touched(k.id)
        <5> SUFFICES ASSUME NEW i \in DOMAIN b, b[i].id = k.id PROVE FALSE
          OBVIOUS
        <5>1. b[i].task.due = b[i].due /\ tasks[b[i].id] = b[i].task
          BY <1>0, <1>1, <1>z, <2>2 DEF MemoryKept
        <5>2. k.due = b[i].due
          BY <4>1, <5>1
        <5> QED
          BY <3>1, <5>2 DEF Writes
      <4> QED
        BY <1>6, <1>9, <4>1, <4>2
    <3>2. CASE \E i \in DOMAIN b : k \in DueAfter(b[i])
      BY <1>11, <1>18, <2>1, <2>2, <3>2
    <3>3. CASE k.id \in fresh /\ k.due = now
      BY <1>6, <1>7, <1>9, <3>3
    <3> QED
      BY <1>10, <3>1, <3>2, <3>3
  <2>3. ASSUME NEW m \in Nodes, NEW j \in todo[m], Undisturbed(j.id)
        PROVE  tasks'[j.id].due = j.due /\ locked[m][j.id] >= j.due
    <3>1. j.id \in Ids /\ j.id \in born /\ TypeOf[j.id] \in roles[m]
          /\ tasks[j.id].due = j.due /\ locked[m][j.id] >= j.due
      BY <1>0, <2>3 DEF MemoryKept, JobsKnown, TypeOK, Jobs
    <3>2. ~Touched(j.id)
      <4> SUFFICES ASSUME NEW i \in DOMAIN b, b[i].id = j.id PROVE FALSE
        OBVIOUS
      <4>1. TypeOf[j.id] = w0[2] /\ w0[2] \in roles[w0[1]] /\ w0[1] \in Nodes
        <5>1. batch[w0] # <<>> /\ TypeOf[batch[w0][i].id] = w0[2]
          BY <1>0, <1>z DEF JobsKnown
        <5> QED
          BY <1>0, <1>z, <5>1, WorkerIsPair DEF JobsKnown
      <4>2. m = w0[1]
        BY <1>0, <2>3, <3>1, <4>1, OneNode
      <4> QED
        BY <1>0, <1>1, <1>z, <2>3, <4>2 DEF MemoryKept
    <3> QED
      BY <1>6, <1>9, <3>1, <3>2
  <2>4. ASSUME NEW w \in Workers, NEW i \in DOMAIN chan[w], Undisturbed(chan[w][i].id)
        PROVE  /\ tasks'[chan[w][i].id].due = chan[w][i].due
               /\ locked[w[1]][chan[w][i].id] >= chan[w][i].due
               /\ \A h \in todo[w[1]] : h.id # chan[w][i].id
    <3>1. tasks'[chan[w][i].id] = tasks[chan[w][i].id]
      BY <1>16, <2>1, <2>4
    <3> QED
      BY <1>0, <2>4, <3>1 DEF MemoryKept
  <2>5. ASSUME NEW w \in Workers, NEW i \in DOMAIN batch[w], Undisturbed(batch[w][i].id)
        PROVE  /\ batch[w][i].task.due = batch[w][i].due
               /\ pc'[w] # "unlock" =>
                    /\ tasks'[batch[w][i].id] = batch[w][i].task
                    /\ locked[w[1]][batch[w][i].id] >= batch[w][i].due
                    /\ \A h \in todo[w[1]] : h.id # batch[w][i].id
    <3>1. w # w0 => tasks'[batch[w][i].id] = tasks[batch[w][i].id]
      BY <1>16, <2>1, <2>5
    <3> QED
      BY <1>0, <1>1, <2>5, <3>1 DEF MemoryKept
  <2> QED
    BY <1>u, <2>1, <2>2, <2>3, <2>4, <2>5 DEF MemoryKept
<1> QED
  BY <1>12, <1>13, <1>14, <1>15, <1>17, <1>19, <1>20 DEF Ind

(* A batch that could not be written leaves the store alone, and the jobs  *)
(* of its worker are the same.                                             *)
Loses(w) ==
    /\ batch' = [batch EXCEPT ![w] = [i \in DOMAIN @ |-> [@[i] EXCEPT !.res = Res("lost")]]]
    /\ pc' = [pc EXCEPT ![w] = "unlock"]
    /\ events' \in 0..MaxEvents
    /\ UNCHANGED <<roles, now, tasks, dueKeys, lock, locked, todo, chan, born, finished, swapped,
                   overran, forgot>>

LEMMA LosesKeeps ==
    ASSUME Ind, NEW w0, w0 \in Workers, Loses(w0)
    PROVE  Ind'
<1>0. TypeOK /\ NoLostTask /\ JobsKnown /\ ResultsApplied
  BY DEF Ind
<1>u. /\ UNCHANGED <<roles, now, tasks, dueKeys, lock, locked, todo, chan, born, finished, swapped,
                     overran, forgot>>
      /\ events' \in 0..MaxEvents
  BY DEF Loses
<1>1. /\ batch[w0] \in Seq(Entries) /\ DOMAIN batch = Workers
      /\ \A i \in DOMAIN batch[w0] : batch[w0][i] \in Entries
      /\ pc \in [Workers -> {"recv", "write", "unlock"}] /\ Len(batch[w0]) <= BatchSize[w0[2]]
  BY <1>0, JobTypes DEF TypeOK
<1> DEFINE f == [i \in DOMAIN batch[w0] |-> [batch[w0][i] EXCEPT !.res = Res("lost")]]
<1>2. /\ batch'[w0] = f /\ DOMAIN batch' = Workers
      /\ \A w \in Workers : w # w0 => batch'[w] = batch[w]
  BY <1>1 DEF Loses
<1>3. \A i \in DOMAIN batch[w0] : /\ f[i] \in Entries /\ f[i].id = batch[w0][i].id
                                  /\ f[i].due = batch[w0][i].due /\ f[i].task = batch[w0][i].task
                                  /\ f[i].res.typ = "lost"
  <2> SUFFICES ASSUME NEW i \in DOMAIN batch[w0]
               PROVE  /\ f[i] \in Entries /\ f[i].id = batch[w0][i].id
                      /\ f[i].due = batch[w0][i].due /\ f[i].task = batch[w0][i].task
                      /\ f[i].res.typ = "lost"
    OBVIOUS
  <2>1. f[i] = [batch[w0][i] EXCEPT !.res = Res("lost")] /\ batch[w0][i] \in Entries
    BY <1>1
  <2> HIDE DEF f
  <2> QED
    BY <2>1 DEF Entries, Res
<1>4. f \in Seq(Entries) /\ Len(f) = Len(batch[w0]) /\ DOMAIN f = DOMAIN batch[w0]
  <2>1. f \in [DOMAIN batch[w0] -> Entries]
    BY <1>3
  <2> HIDE DEF f
  <2> QED
    BY <1>1, <2>1, Mapped
<1> HIDE DEF f
<1>5. TypeOK'
  <2>1. \A w \in Workers :
          /\ chan'[w] \in Seq(Jobs) /\ Len(chan'[w]) <= Capacity[w[2]]
          /\ batch'[w] \in Seq(Entries) /\ Len(batch'[w]) <= BatchSize[w[2]]
    BY <1>0, <1>u, <1>1, <1>2, <1>4 DEF TypeOK
  <2>2. pc' \in [Workers -> {"recv", "write", "unlock"}]
    BY <1>1 DEF Loses
  <2> QED
    BY <1>0, <1>u, <1>2, <2>1, <2>2 DEF TypeOK
<1>6. \A w \in Workers : pc'[w] = IF w = w0 THEN "unlock" ELSE pc[w]
  BY <1>1 DEF Loses
<1>7. \A w \in Workers :
          /\ DOMAIN batch'[w] = DOMAIN batch[w]
          /\ \A i \in DOMAIN batch[w] : /\ batch'[w][i].id = batch[w][i].id
                                        /\ batch'[w][i].due = batch[w][i].due
                                        /\ batch'[w][i].task = batch[w][i].task
          /\ pc'[w] # "unlock" => pc[w] # "unlock"
  BY <1>2, <1>3, <1>4, <1>6
<1>8. NoLostTask'
  BY <1>0, <1>u DEF NoLostTask
<1>9. JobsKnown'
  <2>1. ASSUME NEW w \in Workers, NEW i \in DOMAIN batch'[w]
        PROVE  /\ batch'[w][i].id \in born /\ batch'[w][i].due <= now
               /\ TypeOf[batch'[w][i].id] = w[2]
               /\ pc'[w] = "write" /\ batch'[w][i].id \notin Silent => batch'[w][i].res.typ \in Outcomes
               /\ batch'[w][i].res.typ \in {"success", "followup"} => batch'[w][i].id \in finished
    <3>1. CASE w = w0
      BY <1>0, <1>2, <1>3, <1>4, <1>6, <3>1 DEF JobsKnown
    <3>2. CASE w # w0
      BY <1>0, <1>2, <1>6, <3>2 DEF JobsKnown
    <3> QED
      BY <3>1, <3>2
  <2>2. \A w \in Workers : w[2] \in roles[w[1]] \/ (chan[w] = <<>> /\ batch'[w] = <<>>)
    <3>1. \A w \in Workers : w[2] \in roles[w[1]] \/ (chan[w] = <<>> /\ batch[w] = <<>>)
      BY <1>0 DEF JobsKnown
    <3>2. batch[w0] = <<>> => batch'[w0] = <<>>
      <4>1. batch[w0] = <<>> => Len(batch[w0]) = 0
        OBVIOUS
      <4>2. Len(f) = 0 => f = <<>>
        BY <1>4, EmptySeq
      <4> QED
        BY <1>2, <1>4, <4>1, <4>2
    <3> QED
      BY <1>2, <3>1, <3>2
  <2> QED
    BY <1>0, <1>u, <2>1, <2>2 DEF JobsKnown
<1>10. ResultsApplied'
  <2> SUFFICES ASSUME ~overran, NEW w \in Workers, pc'[w] = "unlock",
                      NEW i \in DOMAIN batch'[w], batch'[w][i].res.typ = "success",
                      \A j \in 1..i : batch'[w][j].id \notin Silent
               PROVE  tasks[batch'[w][i].id] = Gone
    BY <1>u DEF ResultsApplied
  <2>1. w # w0
    BY <1>2, <1>3, <1>4
  <2> QED
    BY <1>0, <1>2, <1>6, <2>1 DEF ResultsApplied
<1> QED
  BY <1>u, <1>5, <1>7, <1>8, <1>9, <1>10, SameJobsKeep

(* The three ways update_tasks ends. *)
Gives(w, f, fresh) ==
    LET b == Zipped(batch[w], f) IN
    /\ Asserted(b)
    /\ tasks' = TasksAfter(b, fresh)
    /\ dueKeys' = KeysAfter(b, fresh)
    /\ born' = born \cup fresh
    /\ swapped' = swapped \cup {b[i].id : i \in {j \in DOMAIN f : f[j] # j}}

LEMMA UpdateCases ==
    ASSUME NEW w, w \in Workers, Update(w)
    PROVE  \/ \E f \in Orders(batch[w]), fresh \in SUBSET (Ids \ born) :
                 Gives(w, f, fresh) /\ UNCHANGED <<batch, events>>
           \/ \E f \in Orders(batch[w]) :
                 /\ ~Asserted(Zipped(batch[w], f))
                 /\ UNCHANGED <<tasks, dueKeys, born, swapped, batch, events>>
           \/ /\ Fault("write") /\ UNCHANGED <<tasks, dueKeys, born, swapped>>
              /\ batch' = [batch EXCEPT ![w] = [i \in DOMAIN @ |-> [@[i] EXCEPT !.res = Res("lost")]]]
  BY Zenon DEF Update, Gives

LEMMA UpdateKeeps ==
    ASSUME Ind, NEW w0, w0 \in Workers, Update(w0)
    PROVE  Ind'
<1>0. TypeOK /\ NoLostTask /\ JobsKnown /\ ResultsApplied /\ LocksHeld
  BY DEF Ind
<1>1. /\ pc[w0] = "write" /\ pc' = [pc EXCEPT ![w0] = "unlock"]
      /\ UNCHANGED <<roles, now, lock, locked, todo, chan, finished, overran, forgot>>
  BY DEF Update, node
<1>2. ASSUME NEW f \in Orders(batch[w0]), NEW fresh \in SUBSET (Ids \ born),
             Gives(w0, f, fresh), UNCHANGED <<batch, events>>
      PROVE  Ind'
  <2>1. Applies(w0, f, fresh)
    BY <1>1, <1>2 DEF Applies, Gives
  <2> QED
    BY <1>2, <2>1, AppliesKeeps
<1>3. ASSUME NEW f \in Orders(batch[w0]), ~Asserted(Zipped(batch[w0], f)),
             UNCHANGED <<tasks, dueKeys, born, swapped, batch, events>>
      PROVE  Ind'
  <2> DEFINE b == Zipped(batch[w0], f)
  <2>1. overran
    <3>1. \A i \in DOMAIN b : i \in DOMAIN batch[w0] /\ b[i].id = batch[w0][i].id
      <4>1. b = Zipped(batch[w0], f) /\ f \in Orders(batch[w0])
        BY <1>3
      <4> HIDE DEF b
      <4> QED
        BY <1>0, <1>1, <4>1, ZippedFacts
    <3>2. ~Asserted(b)
      BY <1>3
    <3> HIDE DEF b
    <3> QED
      BY <1>0, <1>1, <3>1, <3>2 DEF LocksHeld, Asserted
  <2>2. \A w \in Workers : pc'[w] = IF w = w0 THEN "unlock" ELSE pc[w]
    BY <1>0, <1>1 DEF TypeOK
  <2>3. TypeOK'
    BY <1>0, <1>1, <1>3 DEF TypeOK
  <2>4. NoLostTask' /\ ResultsApplied'
    BY <1>0, <1>1, <1>3, <2>1 DEF NoLostTask, ResultsApplied
  <2>5. JobsKnown'
    BY <1>0, <1>1, <1>3, <2>2 DEF JobsKnown
  <2> QED
    BY <1>1, <1>3, <2>2, <2>3, <2>4, <2>5, SameJobsKeep
<1>4. CASE /\ Fault("write") /\ UNCHANGED <<tasks, dueKeys, born, swapped>>
           /\ batch' = [batch EXCEPT ![w0] = [i \in DOMAIN @ |-> [@[i] EXCEPT !.res = Res("lost")]]]
  <2>1. events' \in 0..MaxEvents
    BY <1>0, <1>4, TaskAssumptions DEF Fault, Happens, TypeOK
  <2> QED
    BY <1>1, <1>4, <2>1, LosesKeeps DEF Loses
<1> QED
  BY <1>2, <1>3, <1>4, UpdateCases

(* Only the jobs of the worker lose their lock.                            *)
LEMMA UnlockKeeps ==
    ASSUME Ind, NEW w0, w0 \in Workers, Unlock(w0)
    PROVE  Ind'
<1>0. TypeOK /\ NotStranded /\ NoLostTask /\ JobsKnown /\ LocksHeld /\ MemoryKept /\ ResultsApplied
  BY DEF Ind
<1>u. UNCHANGED <<roles, now, tasks, dueKeys, locked, todo, chan, born, finished, swapped, overran, forgot, events>>
  BY DEF Unlock, node, history
<1>1. /\ pc[w0] = "unlock" /\ pc' = [pc EXCEPT ![w0] = "recv"]
      /\ batch' = [batch EXCEPT ![w0] = <<>>]
      /\ lock' = [t \in Ids |-> IF \E i \in DOMAIN batch[w0] : batch[w0][i].id = t
                                THEN "free" ELSE lock[t]]
  BY DEF Unlock
<1>2. /\ \A w \in Workers : pc'[w] = IF w = w0 THEN "recv" ELSE pc[w]
      /\ \A w \in Workers : batch'[w] = IF w = w0 THEN <<>> ELSE batch[w]
      /\ DOMAIN batch' = Workers /\ pc' \in [Workers -> {"recv", "write", "unlock"}]
      /\ lock' \in [Ids -> Nodes \cup {"free"}]
  BY <1>0, <1>1 DEF TypeOK
<1>3. DOMAIN batch'[w0] = {}
  BY <1>2
<1>4. TypeOK'
  <2>1. <<>> \in Seq(Entries) /\ Len(<<>>) = 0 /\ BatchSize[w0[2]] \in Nat
    BY EmptySeq, TaskAssumptions, WorkerIsPair
  <2>2. \A w \in Workers :
          /\ chan'[w] \in Seq(Jobs) /\ Len(chan'[w]) <= Capacity[w[2]]
          /\ batch'[w] \in Seq(Entries) /\ Len(batch'[w]) <= BatchSize[w[2]]
    <3>1. 0 <= BatchSize[w0[2]]
      BY <2>1
    <3> QED
      BY <1>0, <1>u, <1>2, <2>1, <3>1 DEF TypeOK
  <2> QED
    BY <1>0, <1>u, <1>2, <2>2 DEF TypeOK
<1>5. NotStranded' /\ NoLostTask'
  BY <1>0, <1>u DEF NotStranded, NoLostTask
<1>6. ResultsApplied'
  BY <1>0, <1>u, <1>2, <1>3 DEF ResultsApplied
<1>7. JobsKnown'
  <2>1. \A w \in Workers : w[2] \in roles[w[1]] \/ (chan[w] = <<>> /\ batch'[w] = <<>>)
    BY <1>0, <1>2 DEF JobsKnown
  <2>2. ASSUME NEW w \in Workers, NEW i \in DOMAIN batch'[w]
        PROVE  /\ batch'[w][i].id \in born /\ batch'[w][i].due <= now
               /\ TypeOf[batch'[w][i].id] = w[2]
               /\ pc'[w] = "write" /\ batch'[w][i].id \notin Silent => batch'[w][i].res.typ \in Outcomes
               /\ batch'[w][i].res.typ \in {"success", "followup"} => batch'[w][i].id \in finished
    BY <1>0, <1>2, <1>3 DEF JobsKnown
  <2> QED
    BY <1>0, <1>u, <2>1, <2>2 DEF JobsKnown
<1>8. LocksHeld'
  <2> SUFFICES ASSUME ~overran PROVE LocksHeld'
    BY <1>u DEF LocksHeld
  <2>1. ASSUME NEW w \in Workers
        PROVE  /\ \A i \in DOMAIN chan[w] : lock'[chan[w][i].id] = lock[chan[w][i].id]
               /\ w # w0 => \A i \in DOMAIN batch[w] : lock'[batch[w][i].id] = lock[batch[w][i].id]
    BY <1>0, <1>1, OwnJobs, JobTypes
  <2> QED
    BY <1>0, <1>u, <1>2, <1>3, <2>1 DEF LocksHeld
<1>9. MemoryKept'
  <2>1. \A t : Undisturbed(t)' => Undisturbed(t)
    BY <1>u, UndisturbedBefore
  <2>2. ASSUME NEW w \in Workers, NEW i \in DOMAIN batch'[w], Undisturbed(batch'[w][i].id)
        PROVE  /\ batch'[w][i].task.due = batch'[w][i].due
               /\ pc'[w] # "unlock" =>
                    /\ tasks[batch'[w][i].id] = batch'[w][i].task
                    /\ locked[w[1]][batch'[w][i].id] >= batch'[w][i].due
                    /\ \A h \in todo[w[1]] : h.id # batch'[w][i].id
    BY <1>0, <1>2, <1>3, <2>2 DEF MemoryKept
  <2>3. /\ \A k \in dueKeys : Undisturbed(k.id) => tasks[k.id] # Gone /\ k.due = tasks[k.id].due
        /\ \A m \in Nodes : \A h \in todo[m] : Undisturbed(h.id) =>
              tasks[h.id].due = h.due /\ locked[m][h.id] >= h.due
        /\ \A w \in Workers : \A i \in DOMAIN chan[w] : Undisturbed(chan[w][i].id) =>
             /\ tasks[chan[w][i].id].due = chan[w][i].due
             /\ locked[w[1]][chan[w][i].id] >= chan[w][i].due
             /\ \A h \in todo[w[1]] : h.id # chan[w][i].id
    BY <1>0 DEF MemoryKept
  <2> QED
    BY <1>u, <2>1, <2>2, <2>3 DEF MemoryKept
<1> QED
  BY <1>4, <1>5, <1>6, <1>7, <1>8, <1>9 DEF Ind

-----------------------------------------------------------------------------
(* Time and crashes.                                                       *)

LEMMA TickKeeps ==
    ASSUME Ind, Tick
    PROVE  Ind'
<1>0. TypeOK /\ NotStranded /\ NoLostTask /\ JobsKnown /\ LocksHeld /\ MemoryKept /\ ResultsApplied
  BY DEF Ind
<1>u. UNCHANGED <<roles, tasks, dueKeys, lock, locked, todo, chan, pc, batch, born, finished, swapped,
                  overran, forgot, events>>
  BY DEF Tick, store, node, worker, history
<1>1. now' \in 1..MaxNow /\ now' = now + 1 /\ now \in Nat
  BY <1>0, TaskAssumptions DEF Tick, TypeOK
<1>2. TypeOK'
  BY <1>0, <1>u, <1>1 DEF TypeOK
<1>3. NotStranded' /\ NoLostTask' /\ LocksHeld' /\ ResultsApplied'
  BY <1>0, <1>u DEF NotStranded, NoLostTask, LocksHeld, ResultsApplied
<1>4. JobsKnown'
  <2>1. \A n \in Nodes : \A j \in todo[n] : j.due \in Nat
    <3>1. Never \in Nat
      BY TaskAssumptions DEF Never, Latest
    <3> QED
      BY <1>0, <3>1 DEF TypeOK, Jobs
  <2>2. \A d \in Nat : d <= now => d <= now'
    BY <1>1
  <2>3. \A w \in Workers : /\ \A i \in DOMAIN chan[w] : chan[w][i].due \in Nat
                           /\ \A i \in DOMAIN batch[w] : batch[w][i].due \in Nat
    BY <1>0, JobTypes
  <2> QED
    BY <1>0, <1>u, <2>1, <2>2, <2>3 DEF JobsKnown
<1>5. MemoryKept'
  <2>1. \A t : Undisturbed(t)' => Undisturbed(t)
    BY <1>u, UndisturbedBefore
  <2> QED
    BY <1>0, <1>u, <2>1 DEF MemoryKept
<1> QED
  BY <1>2, <1>3, <1>4, <1>5 DEF Ind

(* Either the job is still in flight, or no job needs what expired.        *)
LEMMA OverrunFacts ==
    ASSUME TypeOK, NEW owner, NEW t, Overrun(owner, t)
    PROVE  /\ overran' \in BOOLEAN /\ events' \in 0..MaxEvents
           /\ overran' \/ (UNCHANGED overran /\ ~(owner \in Nodes /\ InFlight(owner, t)))
<1>1. CASE owner \in Nodes /\ InFlight(owner, t)
  <2>1. overran' = TRUE /\ Fault("overrun")
    BY <1>1 DEF Overrun
  <2>2. events' \in 0..MaxEvents
    BY <2>1, TaskAssumptions DEF Fault, Happens, TypeOK
  <2> QED
    BY <2>1, <2>2
<1>2. CASE ~(owner \in Nodes /\ InFlight(owner, t))
  <2>1. UNCHANGED <<overran, events>>
    BY <1>2 DEF Overrun
  <2> QED
    BY <1>2, <2>1 DEF TypeOK
<1> QED
  BY <1>1, <1>2

LEMMA LockExpiresKeeps ==
    ASSUME Ind, NEW t, t \in Ids, LockExpires(t)
    PROVE  Ind'
<1>0. TypeOK /\ NotStranded /\ NoLostTask /\ JobsKnown /\ LocksHeld /\ MemoryKept /\ ResultsApplied
  BY DEF Ind
<1>u. UNCHANGED <<roles, now, tasks, dueKeys, locked, todo, chan, pc, batch, born, finished, swapped, forgot>>
  BY DEF LockExpires, node, worker, history
<1>1. lock' = [lock EXCEPT ![t] = "free"] /\ Overrun(lock[t], t)
  BY DEF LockExpires
<1>2. /\ overran' \in BOOLEAN /\ events' \in 0..MaxEvents
      /\ overran' \/ (UNCHANGED overran /\ ~(lock[t] \in Nodes /\ InFlight(lock[t], t)))
  BY <1>0, <1>1, OverrunFacts
<1>3. lock' \in [Ids -> Nodes \cup {"free"}] /\ \A u \in Ids : u # t => lock'[u] = lock[u]
  BY <1>0, <1>1 DEF TypeOK
<1>4. TypeOK'
  <2>1. {overran', forgot'} \subseteq BOOLEAN
    BY <1>0, <1>u, <1>2 DEF TypeOK
  <2> QED
    BY <1>0, <1>u, <1>2, <1>3, <2>1 DEF TypeOK
<1>5. NotStranded' /\ NoLostTask' /\ JobsKnown'
  BY <1>0, <1>u DEF NotStranded, NoLostTask, JobsKnown
<1>6. ResultsApplied'
  BY <1>0, <1>u, <1>2 DEF ResultsApplied
<1>7. LocksHeld'
  <2> SUFFICES ASSUME ~overran' PROVE LocksHeld'
    BY DEF LocksHeld
  <2>1. ~overran /\ ~(lock[t] \in Nodes /\ InFlight(lock[t], t))
    BY <1>2
  <2>2. ASSUME NEW w \in Workers
        PROVE  /\ \A i \in DOMAIN chan[w] : chan[w][i].id \in Ids /\ chan[w][i].id # t
               /\ \A i \in DOMAIN batch[w] : batch[w][i].id \in Ids /\ batch[w][i].id # t
    <3>1. w[1] \in Nodes
      BY WorkerIsPair
    <3>2. \A i \in DOMAIN chan[w] : lock[chan[w][i].id] = w[1] /\ InFlight(w[1], chan[w][i].id)
      BY <1>0, <2>1, InFlightJobs DEF LocksHeld
    <3>3. \A i \in DOMAIN batch[w] : lock[batch[w][i].id] = w[1] /\ InFlight(w[1], batch[w][i].id)
      BY <1>0, <2>1, InFlightJobs DEF LocksHeld
    <3> QED
      BY <1>0, <2>1, <3>1, <3>2, <3>3, JobTypes
  <2> QED
    BY <1>0, <1>u, <1>3, <2>1, <2>2 DEF LocksHeld
<1>8. MemoryKept'
  <2>1. \A u : Undisturbed(u)' => Undisturbed(u)
    BY <1>u, <1>2 DEF Undisturbed
  <2> QED
    BY <1>0, <1>u, <2>1 DEF MemoryKept
<1> QED
  BY <1>4, <1>5, <1>6, <1>7, <1>8 DEF Ind

LEMMA EntryExpiresKeeps ==
    ASSUME Ind, NEW n, n \in Nodes, NEW t, t \in Ids, EntryExpires(n, t)
    PROVE  Ind'
<1>0. TypeOK /\ NotStranded /\ NoLostTask /\ JobsKnown /\ LocksHeld /\ MemoryKept /\ ResultsApplied
  BY DEF Ind
<1>u. UNCHANGED <<roles, now, tasks, dueKeys, lock, todo, chan, pc, batch, born, finished, swapped, forgot>>
  BY DEF EntryExpires, store, worker, history
<1>1. /\ locked' = [locked EXCEPT ![n][t] = NoEntry] /\ Overrun(n, t)
      /\ \A j \in todo[n] : j.id # t
  BY DEF EntryExpires
<1>2. /\ overran' \in BOOLEAN /\ events' \in 0..MaxEvents
      /\ overran' \/ (UNCHANGED overran /\ ~InFlight(n, t))
  BY <1>0, <1>1, OverrunFacts
<1>3. /\ locked' \in [Nodes -> [Ids -> 0..Never]]
      /\ \A m \in Nodes, u \in Ids : locked'[m][u] = locked[m][u] \/ (m = n /\ u = t)
  <2>1. locked \in [Nodes -> [Ids -> 0..Never]]
    BY <1>0 DEF TypeOK
  <2>2. NoEntry \in 0..Never
    BY TaskAssumptions DEF NoEntry, Never, Latest
  <2> QED
    BY <1>1, <2>1, <2>2
<1>4. TypeOK'
  <2>1. {overran', forgot'} \subseteq BOOLEAN
    BY <1>0, <1>u, <1>2 DEF TypeOK
  <2> QED
    BY <1>0, <1>u, <1>2, <1>3, <2>1 DEF TypeOK
<1>5. NotStranded' /\ NoLostTask' /\ JobsKnown'
  BY <1>0, <1>u DEF NotStranded, NoLostTask, JobsKnown
<1>6. ResultsApplied' /\ LocksHeld'
  BY <1>0, <1>u, <1>2 DEF ResultsApplied, LocksHeld
<1>7. MemoryKept'
  <2>1. \A u : (Undisturbed(u)' => Undisturbed(u)) /\ (Undisturbed(u)' => ~overran')
    BY <1>u, <1>2 DEF Undisturbed
  <2>2. \A k \in dueKeys : Undisturbed(k.id)' => tasks[k.id] # Gone /\ k.due = tasks[k.id].due
    BY <1>0, <1>u, <2>1 DEF MemoryKept
  <2>3. ASSUME NEW m \in Nodes, NEW j \in todo[m], Undisturbed(j.id)
        PROVE  tasks[j.id].due = j.due /\ locked'[m][j.id] >= j.due
    <3>1. j.id \in Ids /\ tasks[j.id].due = j.due /\ locked[m][j.id] >= j.due
      BY <1>0, <2>3 DEF MemoryKept, TypeOK, Jobs
    <3> QED
      BY <1>1, <1>3, <3>1
  <2>4. ASSUME ~overran', NEW w \in Workers, NEW i \in DOMAIN chan[w], Undisturbed(chan[w][i].id)
        PROVE  /\ tasks[chan[w][i].id].due = chan[w][i].due
               /\ locked'[w[1]][chan[w][i].id] >= chan[w][i].due
               /\ \A h \in todo[w[1]] : h.id # chan[w][i].id
    <3>1. chan[w][i].id \in Ids /\ w[1] \in Nodes /\ InFlight(w[1], chan[w][i].id)
      BY <1>0, JobTypes, InFlightJobs, WorkerIsPair
    <3>2. locked'[w[1]][chan[w][i].id] = locked[w[1]][chan[w][i].id]
      BY <1>2, <1>3, <2>4, <3>1
    <3> QED
      BY <1>0, <2>4, <3>2 DEF MemoryKept
  <2>5. ASSUME ~overran', NEW w \in Workers, NEW i \in DOMAIN batch[w], Undisturbed(batch[w][i].id)
        PROVE  /\ batch[w][i].task.due = batch[w][i].due
               /\ pc[w] # "unlock" =>
                    /\ tasks[batch[w][i].id] = batch[w][i].task
                    /\ locked'[w[1]][batch[w][i].id] >= batch[w][i].due
                    /\ \A h \in todo[w[1]] : h.id # batch[w][i].id
    <3>1. batch[w][i].id \in Ids /\ w[1] \in Nodes /\ InFlight(w[1], batch[w][i].id)
      BY <1>0, JobTypes, InFlightJobs, WorkerIsPair
    <3>2. locked'[w[1]][batch[w][i].id] = locked[w[1]][batch[w][i].id]
      BY <1>2, <1>3, <2>5, <3>1
    <3> QED
      BY <1>0, <2>5, <3>2 DEF MemoryKept
  <2> QED
    BY <1>u, <2>1, <2>2, <2>3, <2>4, <2>5 DEF MemoryKept
<1> QED
  BY <1>4, <1>5, <1>6, <1>7 DEF Ind

(* A crash takes the memory of the node with the jobs it was for; the locks*)
(* stay.                                                                   *)
LEMMA CrashKeeps ==
    ASSUME Ind, NEW n, n \in Nodes, Crash(n)
    PROVE  Ind'
<1>0. TypeOK /\ NotStranded /\ NoLostTask /\ JobsKnown /\ LocksHeld /\ MemoryKept /\ ResultsApplied
  BY DEF Ind
<1>u. UNCHANGED <<roles, now, tasks, dueKeys, lock, born, finished, swapped, overran, forgot>>
  BY DEF Crash, store, history
<1>1. events' \in 0..MaxEvents
  BY <1>0, TaskAssumptions DEF Crash, Fault, Happens, TypeOK
<1>2. /\ locked' = [locked EXCEPT ![n] = [t \in Ids |-> NoEntry]]
      /\ todo' = [todo EXCEPT ![n] = {}]
      /\ chan' = [w \in Workers |-> IF w[1] = n THEN <<>> ELSE chan[w]]
      /\ batch' = [w \in Workers |-> IF w[1] = n THEN <<>> ELSE batch[w]]
      /\ pc' = [w \in Workers |-> IF w[1] = n THEN "recv" ELSE pc[w]]
  BY DEF Crash
<1>3. /\ locked' \in [Nodes -> [Ids -> 0..Never]] /\ todo' \in [Nodes -> SUBSET Jobs]
      /\ todo'[n] = {} /\ \A m \in Nodes : m # n => locked'[m] = locked[m] /\ todo'[m] = todo[m]
  <2>1. NoEntry \in 0..Never
    BY TaskAssumptions DEF NoEntry, Never, Latest
  <2>2. locked \in [Nodes -> [Ids -> 0..Never]] /\ todo \in [Nodes -> SUBSET Jobs]
    BY <1>0 DEF TypeOK
  <2>3. [t \in Ids |-> NoEntry] \in [Ids -> 0..Never]
    BY <2>1
  <2> QED
    BY <1>2, <2>2, <2>3
<1>4. /\ DOMAIN chan' = Workers /\ DOMAIN batch' = Workers
      /\ pc' \in [Workers -> {"recv", "write", "unlock"}]
      /\ \A w \in Workers : w[1] # n => chan'[w] = chan[w] /\ batch'[w] = batch[w] /\ pc'[w] = pc[w]
      /\ \A w \in Workers : w[1] = n => chan'[w] = <<>> /\ batch'[w] = <<>>
  BY <1>0, <1>2 DEF TypeOK
<1>5. \A w \in Workers : w[1] = n => DOMAIN chan'[w] = {} /\ DOMAIN batch'[w] = {}
  BY <1>4
<1>6. TypeOK'
  <2>1. \A w \in Workers :
          /\ chan'[w] \in Seq(Jobs) /\ Len(chan'[w]) <= Capacity[w[2]]
          /\ batch'[w] \in Seq(Entries) /\ Len(batch'[w]) <= BatchSize[w[2]]
    <3> SUFFICES ASSUME NEW w \in Workers
                 PROVE  /\ chan'[w] \in Seq(Jobs) /\ Len(chan'[w]) <= Capacity[w[2]]
                        /\ batch'[w] \in Seq(Entries) /\ Len(batch'[w]) <= BatchSize[w[2]]
      OBVIOUS
    <3>1. CASE w[1] = n
      <4>1. Capacity[w[2]] \in Nat /\ BatchSize[w[2]] \in Nat
        BY TaskAssumptions, WorkerIsPair
      <4>2. <<>> \in Seq(Jobs) /\ <<>> \in Seq(Entries) /\ Len(<<>>) = 0
        BY EmptySeq
      <4>3. 0 <= Capacity[w[2]] /\ 0 <= BatchSize[w[2]]
        BY <4>1
      <4> QED
        BY <1>4, <3>1, <4>2, <4>3
    <3>2. CASE w[1] # n
      BY <1>0, <1>4, <3>2 DEF TypeOK
    <3> QED
      BY <3>1, <3>2
  <2> QED
    BY <1>0, <1>u, <1>1, <1>3, <1>4, <2>1 DEF TypeOK
<1>7. NotStranded' /\ NoLostTask'
  BY <1>0, <1>u DEF NotStranded, NoLostTask
<1>8. ResultsApplied' /\ LocksHeld'
  BY <1>0, <1>u, <1>4, <1>5 DEF ResultsApplied, LocksHeld
<1>9. JobsKnown'
  <2>1. \A m \in Nodes : \A j \in todo'[m] : j.id \in born /\ j.due <= now /\ TypeOf[j.id] \in roles[m]
    BY <1>0, <1>3 DEF JobsKnown
  <2>2. \A w \in Workers : w[2] \in roles[w[1]] \/ (chan'[w] = <<>> /\ batch'[w] = <<>>)
    BY <1>0, <1>4 DEF JobsKnown
  <2>3. \A w \in Workers : \A i \in DOMAIN chan'[w] :
            chan'[w][i].id \in born /\ chan'[w][i].due <= now /\ TypeOf[chan'[w][i].id] = w[2]
    BY <1>0, <1>4, <1>5 DEF JobsKnown
  <2>4. \A w \in Workers : \A i \in DOMAIN batch'[w] :
          /\ batch'[w][i].id \in born /\ batch'[w][i].due <= now /\ TypeOf[batch'[w][i].id] = w[2]
          /\ pc'[w] = "write" /\ batch'[w][i].id \notin Silent => batch'[w][i].res.typ \in Outcomes
          /\ batch'[w][i].res.typ \in {"success", "followup"} => batch'[w][i].id \in finished
    BY <1>0, <1>4, <1>5 DEF JobsKnown
  <2> QED
    BY <1>0, <1>u, <2>1, <2>2, <2>3, <2>4 DEF JobsKnown
<1>10. MemoryKept'
  <2>1. \A t : Undisturbed(t)' => Undisturbed(t)
    BY <1>u, UndisturbedBefore
  <2>2. \A w \in Workers : \A i \in DOMAIN chan'[w] : Undisturbed(chan'[w][i].id) =>
             /\ tasks[chan'[w][i].id].due = chan'[w][i].due
             /\ locked'[w[1]][chan'[w][i].id] >= chan'[w][i].due
             /\ \A h \in todo'[w[1]] : h.id # chan'[w][i].id
    <3> SUFFICES ASSUME NEW w \in Workers, w[1] # n
                 PROVE  \A i \in DOMAIN chan[w] : Undisturbed(chan[w][i].id) =>
                           /\ tasks[chan[w][i].id].due = chan[w][i].due
                           /\ locked'[w[1]][chan[w][i].id] >= chan[w][i].due
                           /\ \A h \in todo'[w[1]] : h.id # chan[w][i].id
      BY <1>4, <1>5
    <3>1. locked'[w[1]] = locked[w[1]] /\ todo'[w[1]] = todo[w[1]]
      BY <1>3, WorkerIsPair
    <3> QED
      BY <1>0, <3>1 DEF MemoryKept
  <2>3. \A w \in Workers : \A i \in DOMAIN batch'[w] : Undisturbed(batch'[w][i].id) =>
             /\ batch'[w][i].task.due = batch'[w][i].due
             /\ pc'[w] # "unlock" =>
                    /\ tasks[batch'[w][i].id] = batch'[w][i].task
                    /\ locked'[w[1]][batch'[w][i].id] >= batch'[w][i].due
                    /\ \A h \in todo'[w[1]] : h.id # batch'[w][i].id
    <3> SUFFICES ASSUME NEW w \in Workers, w[1] # n
                 PROVE  \A i \in DOMAIN batch[w] : Undisturbed(batch[w][i].id) =>
                           /\ batch[w][i].task.due = batch[w][i].due
                           /\ pc[w] # "unlock" =>
                                 /\ tasks[batch[w][i].id] = batch[w][i].task
                                 /\ locked'[w[1]][batch[w][i].id] >= batch[w][i].due
                                 /\ \A h \in todo'[w[1]] : h.id # batch[w][i].id
      BY <1>4, <1>5
    <3>1. locked'[w[1]] = locked[w[1]] /\ todo'[w[1]] = todo[w[1]]
      BY <1>3, WorkerIsPair
    <3> QED
      BY <1>0, <3>1 DEF MemoryKept
  <2>4. /\ \A k \in dueKeys : Undisturbed(k.id) => tasks[k.id] # Gone /\ k.due = tasks[k.id].due
        /\ \A m \in Nodes : \A h \in todo'[m] : Undisturbed(h.id) =>
              tasks[h.id].due = h.due /\ locked'[m][h.id] >= h.due
    BY <1>0, <1>3 DEF MemoryKept
  <2> QED
    BY <1>u, <2>1, <2>2, <2>3, <2>4 DEF MemoryKept
<1> QED
  BY <1>6, <1>7, <1>8, <1>9, <1>10 DEF Ind

-----------------------------------------------------------------------------
(* Theorems.                                                               *)

LEMMA StutterInd == Ind /\ UNCHANGED vars => Ind'
<1> SUFFICES ASSUME Ind, UNCHANGED vars PROVE Ind'
  OBVIOUS
<1>1. UNCHANGED <<roles, now, tasks, dueKeys, lock, locked, todo, chan, pc, batch, born,
                  finished, swapped, overran, forgot, events>>
  BY DEF vars
<1>2. \A t : Undisturbed(t)' => Undisturbed(t)
  BY <1>1, UndisturbedBefore
<1>3. TypeOK'
  BY <1>1 DEF Ind, TypeOK
<1>4. NotStranded' /\ NoLostTask' /\ JobsKnown' /\ LocksHeld' /\ ResultsApplied'
  BY <1>1 DEF Ind, NotStranded, NoLostTask, JobsKnown, LocksHeld, ResultsApplied
<1>5. MemoryKept'
  BY <1>1, <1>2 DEF Ind, MemoryKept
<1> QED
  BY <1>3, <1>4, <1>5 DEF Ind

LEMMA NextInd == Ind /\ [Next]_vars => Ind'
<1> SUFFICES ASSUME Ind, [Next]_vars PROVE Ind'
  OBVIOUS
<1>1. CASE UNCHANGED vars
  BY <1>1, StutterInd
<1>2. ASSUME NEW t \in Ids, NEW due \in now..MaxNow, Schedule(t, due) PROVE Ind'
  BY <1>2, ScheduleKeeps
<1>3. ASSUME NEW n \in Nodes, Scan(n) \/ ScanFails(n) \/ DispatchFails(n) \/ Crash(n) PROVE Ind'
  BY <1>3, ScanKeeps, ScanFailsKeeps, DispatchFailsKeeps, CrashKeeps
<1>4. ASSUME NEW w \in Workers, Recv(w) \/ Run(w, AnyOutcome) \/ Update(w) \/ Unlock(w) PROVE Ind'
  BY <1>4, RecvKeeps, RunKeeps, UpdateKeeps, UnlockKeeps
<1>5. ASSUME NEW t \in Ids, LockExpires(t) PROVE Ind'
  BY <1>5, LockExpiresKeeps
<1>6. ASSUME NEW n \in Nodes, NEW t \in Ids, Dispatch(n, t) \/ EntryExpires(n, t) PROVE Ind'
  BY <1>6, DispatchKeeps, EntryExpiresKeeps
<1>7. CASE Tick
  BY <1>7, TickKeeps
<1> QED
  BY <1>1, <1>2, <1>3, <1>4, <1>5, <1>6, <1>7 DEF Next, Manage

(* TaskInv: types, NotStranded, NoLostTask, NeverEarly and what they rest   *)
(* on hold on every reachable state.                                       *)
THEOREM TasksKept == Spec => []TaskInv
<1>1. Ind => TaskInv
  BY NotEarly DEF Ind, TaskInv
<1> QED
  BY InitInd, NextInd, <1>1, PTL DEF Spec

(* KeysMatch: the two keys of a task agree while the memory of the manager *)
(* can be trusted.                                                         *)
THEOREM KeysAgree == Spec => []KeysMatch
<1>1. ASSUME Ind PROVE KeysMatch
  <2> SUFFICES ASSUME NEW t \in Ids, Undisturbed(t)
               PROVE  {k.due : k \in {j \in dueKeys : j.id = t}} =
                         IF tasks[t] = Gone THEN {} ELSE {tasks[t].due}
    BY DEF KeysMatch
  <2>1. \A k \in dueKeys : k.id = t => tasks[t] # Gone /\ k.due = tasks[t].due
    BY <1>1 DEF Ind, MemoryKept
  <2>2. CASE tasks[t] = Gone
    BY <2>1, <2>2
  <2>3. CASE tasks[t] # Gone
    <3>1. PICK k \in dueKeys : k.id = t
      BY <1>1, <2>3 DEF Ind, NotStranded
    <3> QED
      BY <2>1, <2>3, <3>1
  <2> QED
    BY <2>2, <2>3
<1> QED
  BY InitInd, NextInd, <1>1, PTL DEF Spec

(* Exclusive: no two jobs for a task anywhere in the cluster, while no lock*)
(* expires under its job.                                                  *)
THEOREM OneJobPerTask == Spec => []Exclusive
<1>1. ASSUME Ind PROVE Exclusive
  <2> SUFFICES ASSUME ~overran, NEW t \in Ids PROVE Cardinality(JobsOf(t)) <= 1
    BY DEF Exclusive
  <2>0. LocksHeld /\ JobsKnown
    BY <1>1 DEF Ind
  <2>1. ASSUME NEW x \in JobsOf(t)
        PROVE  \E w \in Workers :
                  /\ w[1] = lock[t] /\ w[2] = TypeOf[t]
                  /\ \/ \E i \in DOMAIN chan[w] : x = <<w, "chan", i>> /\ chan[w][i].id = t
                     \/ \E i \in DOMAIN batch[w] : x = <<w, "batch", i>> /\ batch[w][i].id = t
    <3>1. PICK w \in Workers :
              \/ \E i \in DOMAIN chan[w] : x = <<w, "chan", i>> /\ chan[w][i].id = t
              \/ \E i \in DOMAIN batch[w] : x = <<w, "batch", i>> /\ batch[w][i].id = t
      BY DEF JobsOf
    <3>2. w[1] = lock[t] /\ w[2] = TypeOf[t]
      BY <2>0, <3>1 DEF LocksHeld, JobsKnown
    <3> QED
      BY <3>1, <3>2
  <2>2. ASSUME NEW x \in JobsOf(t), NEW y \in JobsOf(t) PROVE x = y
    <3>1. PICK w \in Workers :
              /\ w[1] = lock[t] /\ w[2] = TypeOf[t]
              /\ \/ \E i \in DOMAIN chan[w] : x = <<w, "chan", i>> /\ chan[w][i].id = t
                 \/ \E i \in DOMAIN batch[w] : x = <<w, "batch", i>> /\ batch[w][i].id = t
      BY <2>1
    <3>2. PICK v \in Workers :
              /\ v[1] = lock[t] /\ v[2] = TypeOf[t]
              /\ \/ \E i \in DOMAIN chan[v] : y = <<v, "chan", i>> /\ chan[v][i].id = t
                 \/ \E i \in DOMAIN batch[v] : y = <<v, "batch", i>> /\ batch[v][i].id = t
      BY <2>1
    <3>3. v = w
      BY <3>1, <3>2, WorkerIsPair
    <3>4. /\ \A i \in DOMAIN chan[w] :
                /\ \A j \in DOMAIN chan[w] : chan[w][i].id = chan[w][j].id => i = j
                /\ \A j \in DOMAIN batch[w] : chan[w][i].id # batch[w][j].id
          /\ \A i \in DOMAIN batch[w] :
                \A j \in DOMAIN batch[w] : batch[w][i].id = batch[w][j].id => i = j
      BY <2>0 DEF LocksHeld
    <3> QED
      BY <3>1, <3>2, <3>3, <3>4
  <2> QED
    BY <2>2, AtMostOne
<1> QED
  BY InitInd, NextInd, <1>1, PTL DEF Spec

(* ResultsApplied: what succeeded is out of the store when the locks go.   *)
THEOREM SuccessesApplied == Spec => []ResultsApplied
<1>1. Ind => ResultsApplied
  BY DEF Ind
<1> QED
  BY InitInd, NextInd, <1>1, PTL DEF Spec

(* FinishedStaysGone: the assertion of update_tasks keeps a result from    *)
(* writing a finished task back, whatever expired.                         *)
THEOREM FinishedNeverBack == Spec => FinishedStaysGone
<1>1. ASSUME Ind, Next, NEW t \in finished, tasks[t] = Gone PROVE tasks'[t] = Gone
  <2>0. TypeOK /\ JobsKnown /\ tasks \in [Ids -> TaskRecords] /\ t \in born /\ t \in Ids
    BY <1>1 DEF Ind, TypeOK
  <2>1. ASSUME NEW u \in Ids, NEW due \in now..MaxNow, Schedule(u, due) PROVE tasks'[t] = Gone
    <3>1. u # t /\ tasks' = [tasks EXCEPT ![u] = Pending(due)]
      BY <2>0, <2>1 DEF Schedule
    <3> QED
      BY <1>1, <2>0, <3>1
  <2>2. ASSUME NEW w \in Workers, Update(w) PROVE tasks'[t] = Gone
    <3>1. CASE UNCHANGED tasks
      BY <1>1, <3>1
    <3>2. ASSUME NEW f \in Orders(batch[w]), NEW fresh \in SUBSET (Ids \ born), Gives(w, f, fresh)
          PROVE  tasks'[t] = Gone
      <4> DEFINE b == Zipped(batch[w], f)
      <4>0. pc[w] = "write"
        BY <2>2 DEF Update
      <4>1. t \notin fresh /\ tasks' = TasksAfter(b, fresh) /\ Asserted(b)
        BY <2>0, <3>2 DEF Gives
      <4>b. b \in Seq(Entries) /\ \A i \in DOMAIN b : b[i] \in Entries /\ b[i].res.typ \in Outcomes
        BY <2>0, <4>0, ZippedFacts
      <4> HIDE DEF b
      <4>2. CASE \E i \in DOMAIN b : b[i].id = t
        <5> DEFINE i == LastOf(b, t)
        <5>1. i \in DOMAIN b /\ b[i].id = t
          BY <2>0, <4>2, <4>b, LastOfIsLast
        <5>2. tasks'[t] = TaskAfter(b[i])
          BY <2>0, <4>1, <4>2 DEF TasksAfter
        <5> HIDE DEF i
        <5>3. b[i] \in Entries /\ b[i].res.typ \in Outcomes
          BY <4>b, <5>1
        <5>4. b[i].res.typ \notin Failures
          BY <1>1, <4>1, <5>1 DEF Asserted
        <5> QED
          BY <2>0, <5>2, <5>3, <5>4, TaskAfterType
      <4>3. CASE ~\E i \in DOMAIN b : b[i].id = t
        BY <1>1, <2>0, <4>1, <4>3 DEF TasksAfter
      <4> QED
        BY <4>2, <4>3
    <3> QED
      BY <2>2, <3>1, <3>2, UpdateCases
  <2>3. CASE UNCHANGED tasks
    BY <1>1, <2>3
  <2>4. \/ UNCHANGED tasks
        \/ \E u \in Ids, due \in now..MaxNow : Schedule(u, due)
        \/ \E w \in Workers : Update(w)
    BY <1>1 DEF Next, Manage, Scan, ScanFails, DispatchFails, Crash, Recv, Run, Unlock,
                LockExpires, Dispatch, EntryExpires, Tick, store
  <2> QED
    BY <2>1, <2>2, <2>3, <2>4
<1>2. Ind /\ [Next]_vars => [\A t \in finished : tasks[t] = Gone => tasks'[t] = Gone]_vars
  BY <1>1
<1> QED
  BY InitInd, NextInd, <1>2, PTL DEF Spec, FinishedStaysGone

-----------------------------------------------------------------------------
(* Alarms, reports and Task/set.                                           *)

Results == Failures \cup {"success", "followup", "update"}

Recs == [status : {"gone", "pending", "retry", "failed"}, due : Nat,
         attempt : Nat, created : Nat]
JobRecs == [id : Ids, due : Nat]
EntryRecs == [id : Ids, due : Nat, task : Recs,
              res : [typ : Results \cup {"none", "lost"}, at : Nat]]

(* What the keys, the jobs and the requests hold. *)
OwnedTypes ==
    /\ now \in 1..MaxNow
    /\ tasks \in [Ids -> Recs]
    /\ dueKeys \subseteq [id : Ids, due : Nat, typ : {"task", "object"}]
    /\ todo \in [Nodes -> SUBSET JobRecs]
    /\ chan \in [Workers -> Seq(JobRecs)]
    /\ batch \in [Workers -> Seq(EntryRecs)]
    /\ pc \in [Workers -> {"recv", "write", "unlock"}]
    /\ born \subseteq Ids
    /\ alarms \in [Events -> Alarms \cup {{}}]
    /\ deliverAt \in [Reports -> Nat]
    /\ edit \in [on : BOOLEAN, id : Ids \cup {0}, times : Alarms \cup {{}}, prev : Nat,
                 next : Nat, met : BOOLEAN]
    /\ edit.on => edit.id \in Events
    /\ admin \in [op : {"idle", "update", "destroy", "unlock"}, id : Ids \cup {0},
                  task : Recs, locks : BOOLEAN]
    /\ admin.op # "idle" => admin.id \in Ids
    /\ passed \in [Events -> Nat]
    /\ \A t \in Events : passed[t] <= now + MinInterval

(* A worker has jobs of its type: no file in a batch with an alarm. *)
JobsSorted ==
    \A w \in Workers :
        /\ \A i \in DOMAIN chan[w] : TypeOf[chan[w][i].id] = w[2]
        /\ \A i \in DOMAIN batch[w] : TypeOf[batch[w][i].id] = w[2]

(* The alarms of an event that are to come and were not passed over. *)
Awaited(t) == {x \in alarms[t] : x > now /\ x > passed[t]}

(* An event that has an alarm to come got a task at some time. *)
AlarmsBorn == \A t \in Events : \A x \in alarms[t] : x > now => t \in born

(* What is known of a result: unless the work gave up or its event was     *)
(* edited since, an alarm that ends the task was the last one and one that *)
(* goes on names no later time than that of the next alarm.                *)
Credible(e) ==
    e.id \in Events \ broken => \A x \in Awaited(e.id) :
        /\ e.res.typ \notin {"success", "followup"}
        /\ e.res.typ = "update" => e.res.at <= x

Honest(e) ==
    /\ e.res.typ \in Results
    /\ e.res.typ \in {"success", "followup"} => e.id \in finished
    /\ Credible(e)

ResultsHonest ==
    \A w \in Workers : pc[w] = "write" =>
        \A i \in DOMAIN batch[w] : batch[w][i].id \notin Silent => Honest(batch[w][i])

(* Every alarm to come, not only the next one. *)
AlarmsKept == \A t \in Events \ broken : \A x \in Awaited(t) : Kept(t, x)

(* What a request that read an event may rely on when it commits, unless   *)
(* somebody works on the event since: the alarm it is about to leave alone *)
(* is kept.                                                                *)
EditKnown ==
    edit.on =>
        /\ \A x \in edit.times : x > now => edit.next # 0 /\ edit.next <= x
        /\ edit.prev # 0 => edit.id \in born
        /\ ~edit.met =>
              /\ \A w \in Workers : \A i \in DOMAIN batch[w] :
                    batch[w][i].id = edit.id => pc[w] = "recv"
              /\ edit.id \notin broken /\ edit.prev > passed[edit.id] =>
                    Kept(edit.id, edit.prev)

OwnedInd == OwnedTypes /\ JobsSorted /\ AlarmsBorn /\ ResultsHonest /\ AlarmsKept
            /\ EditKnown /\ LeavesWithCause

-----------------------------------------------------------------------------
(* Operators of the model.                                                 *)

(* NextAlarm is the first of the alarms after a time, 0 if there is none.  *)
LEMMA NextAlarmIsFirst ==
    ASSUME NEW times \in SUBSET Nat, NEW after \in Nat
    PROVE  /\ NextAlarm(times, after) \in Nat
           /\ NextAlarm(times, after) = 0 => \A x \in times : ~(x > after)
           /\ NextAlarm(times, after) # 0 =>
                 /\ NextAlarm(times, after) \in times /\ NextAlarm(times, after) > after
                 /\ \A x \in times : x > after => NextAlarm(times, after) <= x
<1> DEFINE R == {ss \in Nat \X Nat : ss[1] < ss[2]}
           later == {x \in times : x > after}
<1>w. IsWellFoundedOn(R, Nat)
  BY NatLessThanWellFounded DEF OpToRel
<1>1. CASE later = {}
  BY <1>1 DEF NextAlarm
<1>2. CASE later # {}
  <2>2. later \subseteq Nat
    OBVIOUS
  <2>3. \E m \in later : \A y \in later : ~(<<y, m>> \in R)
    <3> HIDE DEF R, later
    <3>1. PICK x : x \in later
      BY <1>2
    <3> QED
      BY <1>w, <2>2, <3>1, WFMin
  <2>4. PICK m \in later : \A y \in later : ~(<<y, m>> \in R)
    BY <2>3
  <2>5. \A y \in later : m <= y
    <3> SUFFICES ASSUME NEW y \in later, y < m PROVE FALSE
      BY <2>2
    <3>1. <<y, m>> \in R
      BY <2>2
    <3> QED
      BY <2>4, <3>1
  <2>6. NextAlarm(times, after) = CHOOSE x \in later : \A y \in later : x <= y
    BY <1>2 DEF NextAlarm
  <2>7. NextAlarm(times, after) \in later /\ \A y \in later : NextAlarm(times, after) <= y
    <3> HIDE DEF later
    <3> QED
      BY <2>4, <2>5, <2>6
  <2>8. /\ NextAlarm(times, after) \in times /\ NextAlarm(times, after) > after
        /\ \A x \in times : x > after => NextAlarm(times, after) <= x
    BY <2>7
  <2>9. NextAlarm(times, after) \in Nat /\ NextAlarm(times, after) # 0
    <3> HIDE DEF R, later
    <3>1. \A n \in times : n \in Nat /\ (n > after => n # 0)
      OBVIOUS
    <3> QED
      BY <2>8, <3>1, Zenon
  <2> QED
    BY <2>8, <2>9
<1> QED
  BY <1>1, <1>2

LEMMA ConstantsAreNat ==
    /\ Never \in Nat /\ RetryDelay \in Nat /\ BackoffFor \in Nat /\ Deadline \in Nat
    /\ MaxNow \in Nat /\ Latest \in Nat /\ MinInterval \in Nat
    /\ \A times \in Alarms \cup {{}} : times \in SUBSET Nat
<1>1. Never \in Nat /\ Latest \in Nat
  BY TaskAssumptions DEF Never, Latest
<1>2. \A times \in Alarms : times \subseteq 1..Latest
  BY OwnerAssumptions
<1> QED
  BY <1>1, <1>2, TaskAssumptions, OwnerAssumptions

(* The times of alarms are numbers. *)
LEMMA AlarmTimes ==
    ASSUME OwnedTypes
    PROVE  /\ now \in Nat
           /\ \A t \in Events : alarms[t] \in SUBSET Nat /\ passed[t] \in Nat
           /\ edit.times \in SUBSET Nat /\ edit.prev \in Nat /\ edit.next \in Nat
<1>1. now \in Nat /\ edit.times \in Alarms \cup {{}} /\ edit.prev \in Nat /\ edit.next \in Nat
  BY ConstantsAreNat DEF OwnedTypes
<1>2. \A t \in Events : alarms[t] \in Alarms \cup {{}} /\ passed[t] \in Nat
  BY DEF OwnedTypes
<1> QED
  BY <1>1, <1>2, ConstantsAreNat

(* No job for an event, no result for it either. *)
LEMMA NoJobNoResult ==
    ASSUME NEW t, JobsOf(t) = {}, NEW w \in Workers, NEW i \in DOMAIN batch[w]
    PROVE  batch[w][i].id # t
<1> SUFFICES ASSUME batch[w][i].id = t PROVE FALSE
  OBVIOUS
<1>1. <<w, "batch", i>> \in JobsOf(t)
  BY DEF JobsOf
<1> QED
  BY <1>1

LEMMA EntryTypes ==
    ASSUME OwnedTypes, NEW w \in Workers
    PROVE  \A i \in DOMAIN batch[w] : batch[w][i] \in EntryRecs
<1>1. batch[w] \in Seq(EntryRecs)
  BY DEF OwnedTypes
<1> QED
  BY <1>1, LenProperties

(* A result that leaves the task leaves a record with its Due key: of a    *)
(* failure for its retry, of an alarm for the time it names.               *)
LEMMA AfterResult ==
    ASSUME OwnedTypes, NEW e \in EntryRecs, e.res.typ \in Results
    PROVE  /\ TaskAfter(e) \in Recs
           /\ e.res.typ \in {"success", "followup"} => TaskAfter(e) = Gone
           /\ e.res.typ \notin {"success", "followup"} => TaskAfter(e) # Gone
           /\ e.res.typ \in Failures => TaskAfter(e).status \in {"retry", "failed"}
           /\ e.res.typ = "update" => TaskAfter(e).due = e.res.at
<1>0. now \in Nat /\ e.task \in Recs /\ e.res.at \in Nat
  BY ConstantsAreNat DEF OwnedTypes, EntryRecs
<1>1. CASE e.res.typ \in {"success", "followup"}
  <2>1. TaskAfter(e) = Gone
    BY <1>1 DEF TaskAfter, Failures
  <2> QED
    BY <1>1, <2>1 DEF Gone, Recs, Failures
<1>2. CASE e.res.typ = "update"
  <2>1. TaskAfter(e) = Pending(e.res.at)
    BY <1>2 DEF TaskAfter, Failures
  <2> QED
    BY <1>0, <1>2, <2>1 DEF Pending, Gone, Recs, Failures
<1>3. CASE e.res.typ \in Failures
  <2>1. TaskAfter(e) = FailedTask(e.res.typ, e.task)
    BY <1>3 DEF TaskAfter, Failures
  <2>2. RetryAt(e.res.typ, e.task) \in Nat
    BY <1>0, <1>3, ConstantsAreNat DEF RetryAt, NextRetryTime, Failures
  <2>3. e.task.attempt \in Nat /\ e.task.created \in Nat
    BY <1>0 DEF Recs
  <2> QED
    BY <1>0, <1>3, <2>1, <2>2, <2>3, ConstantsAreNat DEF FailedTask, Gone, Recs, Failures
<1> QED
  BY <1>1, <1>2, <1>3 DEF Results

(* The last result for a task in a batch. *)
LEMMA LastEntry ==
    ASSUME NEW b \in Seq(EntryRecs), NEW t \in Ids, \E i \in DOMAIN b : b[i].id = t
    PROVE  /\ LastOf(b, t) \in DOMAIN b /\ b[LastOf(b, t)].id = t
           /\ \A i \in DOMAIN b : b[i].id = t => i <= LastOf(b, t)
<1> DEFINE S == {i \in DOMAIN b : b[i].id = t}
<1>1. Len(b) \in Nat /\ DOMAIN b = 1..Len(b)
  BY LenProperties
<1>2. S \in SUBSET (0..Len(b)) /\ S # {}
  BY <1>1
<1>3. Max(S) \in S /\ \A x \in S : Max(S) >= x
  <2> HIDE DEF S
  <2> QED
    BY <1>1, <1>2, MaxIsGreatest
<1> QED
  BY <1>1, <1>3 DEF LastOf

-----------------------------------------------------------------------------
(* Steps that leave the keys alone.                                        *)

(* Time and minimum intervals only take alarms out of those to come. *)
LEMMA StillToCome ==
    ASSUME OwnedTypes, OwnedTypes', now' >= now, NEW t \in Events,
           alarms'[t] = alarms[t], passed'[t] >= passed[t]
    PROVE  Awaited(t)' \subseteq Awaited(t)
<1>1. alarms[t] \subseteq Nat /\ now \in Nat /\ passed[t] \in Nat
  BY AlarmTimes
<1>2. now' \in Nat /\ passed'[t] \in Nat
  BY ConstantsAreNat DEF OwnedTypes
<1> QED
  BY <1>1, <1>2 DEF Awaited

(* A result that was honest stays so, until its event is edited.           *)
LEMMA HonestKeeps ==
    ASSUME finished \subseteq finished', NEW e, Honest(e),
           e.id \in Events \ broken' => e.id \notin broken /\ Awaited(e.id)' \subseteq Awaited(e.id)
    PROVE  Honest(e)'
<1>1. Credible(e)'
  BY DEF Honest, Credible
<1>2. e.res.typ \in {"success", "followup"} => e.id \in finished'
  BY DEF Honest
<1> QED
  BY <1>1, <1>2 DEF Honest

LEMMA SameResults ==
    ASSUME OwnedTypes, OwnedTypes', ResultsHonest, now' >= now, finished \subseteq finished',
           broken \subseteq broken', UNCHANGED alarms,
           \A t \in Events : passed'[t] >= passed[t],
           \A w \in Workers : pc'[w] = "write" => pc[w] = "write" /\ batch'[w] = batch[w]
    PROVE  ResultsHonest'
<1> SUFFICES ASSUME NEW w \in Workers, pc'[w] = "write", NEW i \in DOMAIN batch'[w],
                    batch'[w][i].id \notin Silent
             PROVE  Honest(batch[w][i])'
  BY DEF ResultsHonest
<1>1. PICK e : e = batch[w][i] /\ e = batch'[w][i]
  OBVIOUS
<1>2. Honest(e)
  BY <1>1 DEF ResultsHonest
<1>3. e.id \in Events \ broken' => e.id \notin broken /\ Awaited(e.id)' \subseteq Awaited(e.id)
  BY StillToCome
<1>4. Honest(e)'
  BY <1>2, <1>3, HonestKeeps
<1> QED
  BY <1>1, <1>4 DEF Honest, Credible

(* What a request read stays so as long as nobody works on its event.      *)
LEMMA EditKeeps ==
    ASSUME OwnedInd, OwnedTypes', now' >= now, born \subseteq born',
           NEW t0, t0 = edit.id, NEW p, p = edit.prev,
           edit'.on => /\ edit.on /\ edit'.id = t0 /\ edit'.prev = p
                       /\ edit'.times = edit.times /\ edit'.next = edit.next
                       /\ ~edit'.met => ~edit.met,
           edit'.on /\ ~edit'.met =>
              /\ \A w \in Workers : \A i \in DOMAIN batch'[w] :
                    batch'[w][i].id = t0 => pc'[w] = "recv"
              /\ t0 \notin broken' /\ p > passed'[t0] =>
                    t0 \notin broken /\ p > passed[t0] /\ (Kept(t0, p) => Kept(t0, p)')
    PROVE  EditKnown'
<1> SUFFICES ASSUME edit'.on
             PROVE  /\ \A x \in edit'.times : x > now' => edit'.next # 0 /\ edit'.next <= x
                    /\ edit'.prev # 0 => edit'.id \in born'
                    /\ ~edit'.met =>
                          /\ \A w \in Workers : \A i \in DOMAIN batch'[w] :
                                batch'[w][i].id = edit'.id => pc'[w] = "recv"
                          /\ edit'.id \notin broken' /\ edit'.prev > passed'[edit'.id] =>
                                Kept(edit.id, edit.prev)'
  BY DEF EditKnown
<1>1. EditKnown /\ edit.on
  BY DEF OwnedInd
<1>2. edit.times \in SUBSET Nat /\ now \in Nat /\ now' \in Nat
  BY AlarmTimes, ConstantsAreNat DEF OwnedInd, OwnedTypes
<1>3. \A x \in edit'.times : x > now' => edit'.next # 0 /\ edit'.next <= x
  <2>1. \A x \in edit.times : x > now' => x > now
    BY <1>2
  <2> QED
    BY <1>1, <2>1 DEF EditKnown
<1>4. edit'.prev # 0 => edit'.id \in born'
  BY <1>1 DEF EditKnown
<1>5. ASSUME ~edit'.met, edit'.id \notin broken', edit'.prev > passed'[edit'.id]
      PROVE  Kept(edit.id, edit.prev)'
  <2>1. t0 \notin broken /\ p > passed[t0] /\ (Kept(t0, p) => Kept(t0, p)') /\ ~edit.met
    BY <1>5
  <2>2. Kept(t0, p)
    BY <1>1, <2>1 DEF EditKnown
  <2>3. Kept(t0, p)'
    BY <2>1, <2>2
  <2> QED
    BY <2>3 DEF Kept
<1> QED
  BY <1>3, <1>4, <1>5

LEMMA Quiet ==
    ASSUME OwnedInd, OwnedTypes', JobsSorted', ResultsHonest', EditKnown', now' >= now,
           finished \subseteq finished', swapped \subseteq swapped', broken \subseteq broken',
           UNCHANGED <<tasks, dueKeys, born, alarms, removed>>,
           \A t \in Events : passed'[t] >= passed[t]
    PROVE  OwnedInd'
<1>0. OwnedTypes /\ AlarmsBorn /\ AlarmsKept /\ LeavesWithCause
  BY DEF OwnedInd
<1>1. \A t \in Events : Awaited(t)' \subseteq Awaited(t)
  BY <1>0, StillToCome
<1>2. AlarmsBorn'
  <2>1. \A t \in Events : \A x \in alarms[t] : x \in Nat
    BY <1>0, AlarmTimes
  <2>2. now \in Nat /\ now' \in Nat
    BY <1>0, ConstantsAreNat DEF OwnedTypes
  <2> QED
    BY <1>0, <2>1, <2>2 DEF AlarmsBorn
<1>3. AlarmsKept'
  <2>1. \A t, x : Kept(t, x) => Kept(t, x)'
    BY DEF Kept
  <2>2. \A t : t \notin broken' => t \notin broken
    OBVIOUS
  <2> QED
    BY <1>0, <1>1, <2>1, <2>2 DEF AlarmsKept
<1>4. LeavesWithCause'
  BY <1>0 DEF LeavesWithCause
<1> QED
  BY <1>2, <1>3, <1>4 DEF OwnedInd

(* Any step that touches only the memory of nodes and workers, the locks   *)
(* or a request that writes no keys.                                       *)
LEMMA MemoryOnly ==
    ASSUME OwnedInd, OwnedTypes', JobsSorted', now' >= now,
           UNCHANGED <<tasks, dueKeys, born, finished, swapped, alarms, removed, passed, broken>>,
           UNCHANGED edit \/ edit' = NoEdit,
           \A w \in Workers : pc'[w] = "write" => pc[w] = "write" /\ batch'[w] = batch[w],
           \A w \in Workers : pc'[w] # "recv" =>
              /\ pc[w] # "recv"
              /\ \A i \in DOMAIN batch'[w] :
                    i \in DOMAIN batch[w] /\ batch'[w][i].id = batch[w][i].id
    PROVE  OwnedInd'
<1>0. OwnedTypes /\ ResultsHonest /\ EditKnown
  BY DEF OwnedInd
<1>1. \A t \in Events : passed'[t] >= passed[t]
  BY <1>0, AlarmTimes
<1>2. ResultsHonest'
  BY <1>0, <1>1, SameResults
<1>3. EditKnown'
  <2>1. PICK t0, p : t0 = edit.id /\ p = edit.prev
    OBVIOUS
  <2>2. edit'.on => edit.on /\ UNCHANGED edit
    BY DEF NoEdit
  <2>3. ASSUME edit'.on, ~edit'.met, NEW w \in Workers, NEW i \in DOMAIN batch'[w],
               batch'[w][i].id = t0, pc'[w] # "recv"
        PROVE  FALSE
    BY <1>0, <2>1, <2>2, <2>3 DEF EditKnown
  <2>4. Kept(t0, p) => Kept(t0, p)'
    BY DEF Kept
  <2>5. edit'.on => /\ edit.on /\ edit'.id = t0 /\ edit'.prev = p
                    /\ edit'.times = edit.times /\ edit'.next = edit.next
                    /\ ~edit'.met => ~edit.met
    BY <2>1, <2>2
  <2>6. edit'.on /\ ~edit'.met =>
              /\ \A w \in Workers : \A i \in DOMAIN batch'[w] :
                    batch'[w][i].id = t0 => pc'[w] = "recv"
              /\ t0 \notin broken' /\ p > passed'[t0] =>
                    t0 \notin broken /\ p > passed[t0] /\ (Kept(t0, p) => Kept(t0, p)')
    BY <2>3, <2>4
  <2> QED
    BY <2>1, <2>5, <2>6, EditKeeps
<1> QED
  BY <1>1, <1>2, <1>3, Quiet

(* Nothing is scheduled, no event is stored. *)
LEMMA OwnedInitInd == OwnedInit => OwnedInd
<1> SUFFICES ASSUME OwnedInit PROVE OwnedInd
  OBVIOUS
<1>1. OwnedTypes
  <2>1. Gone \in Recs
    BY DEF Gone, Recs
  <2>2. <<>> \in Seq(JobRecs) /\ <<>> \in Seq(EntryRecs)
    BY EmptySeq
  <2>3. admin \in [op : {"idle", "update", "destroy", "unlock"}, id : Ids \cup {0},
                   task : Recs, locks : BOOLEAN] /\ admin.op = "idle"
    BY <2>1 DEF OwnedInit, Idle
  <2>4. 1 \in 1..MaxNow
    BY TaskAssumptions
  <2>5. edit \in [on : BOOLEAN, id : Ids \cup {0}, times : Alarms \cup {{}}, prev : Nat,
                  next : Nat, met : BOOLEAN] /\ ~edit.on
    BY DEF OwnedInit, NoEdit
  <2>6. passed \in [Events -> Nat] /\ \A t \in Events : passed[t] <= now + MinInterval
    BY ConstantsAreNat DEF OwnedInit, Init
  <2> QED
    BY <2>1, <2>2, <2>3, <2>4, <2>5, <2>6 DEF OwnedTypes, OwnedInit, Init
<1>2. AlarmsBorn /\ AlarmsKept
  BY DEF AlarmsBorn, AlarmsKept, Awaited, OwnedInit
<1>3. ResultsHonest /\ JobsSorted /\ EditKnown
  BY DEF ResultsHonest, JobsSorted, EditKnown, NoEdit, OwnedInit, Init
<1>4. LeavesWithCause
  BY DEF LeavesWithCause, OwnedInit, Init
<1> QED
  BY <1>1, <1>2, <1>3, <1>4 DEF OwnedInd

(* The manager collects keys, or forgets them. *)
LEMMA ScannedOwned ==
    ASSUME OwnedTypes, NEW n \in Nodes, NEW seen \in SUBSET dueKeys, Scanned(n, seen)
    PROVE  todo' \in [Nodes -> SUBSET JobRecs]
<1>1. todo' = [todo EXCEPT ![n] = {Job(k) : k \in {j \in seen : locked[n][j.id] < j.due}}]
  BY DEF Scanned
<1>2. \A k \in seen : Job(k) \in JobRecs
  BY DEF Job, JobRecs, OwnedTypes
<1> QED
  BY <1>1, <1>2 DEF OwnedTypes

LEMMA VisibleAreKeys ==
    \A n, keys : Visible(n, Reached(keys)) \subseteq keys
  BY DEF Visible, Reached

LEMMA SameWorkers ==
    ASSUME OwnedInd, todo' \in [Nodes -> SUBSET JobRecs],
           UNCHANGED <<now, tasks, dueKeys, chan, pc, batch, born, finished, swapped, owners>>
    PROVE  OwnedInd'
<1>u. UNCHANGED <<alarms, deliverAt, edit, admin, removed, passed, broken>>
  BY DEF owners
<1>0. OwnedTypes /\ JobsSorted
  BY DEF OwnedInd
<1>1. OwnedTypes' /\ JobsSorted'
  BY <1>0, <1>u DEF OwnedTypes, JobsSorted
<1>2. now' >= now
  BY <1>0, AlarmTimes
<1> QED
  BY <1>1, <1>2, <1>u, MemoryOnly

LEMMA ScanOwned ==
    ASSUME OwnedInd, UNCHANGED owners, NEW n \in Nodes, Scan(n) \/ ScanFails(n)
    PROVE  OwnedInd'
<1>0. OwnedTypes
  BY DEF OwnedInd
<1>u. UNCHANGED <<now, tasks, dueKeys, chan, pc, batch, born, finished, swapped>>
  BY DEF Scan, ScanFails, store, worker, history
<1>1. \E seen \in SUBSET dueKeys : Scanned(n, seen)
  <2>1. \A S \in SUBSET dueKeys : Visible(n, Reached(S)) \in SUBSET dueKeys
    BY VisibleAreKeys
  <2>2. CASE Scan(n)
    <3> DEFINE S == {k \in dueKeys : k.due <= now}
    <3>1. Visible(n, Reached(S)) \in SUBSET dueKeys
      BY <2>1
    <3> QED
      BY <2>2, <3>1 DEF Scan
  <2>3. CASE ScanFails(n)
    <3>1. PICK f \in dueKeys : Scanned(n, Visible(n, Reached({k \in dueKeys : k.due <= now /\ Before(k, f)})))
      BY <2>3 DEF ScanFails
    <3> DEFINE S == {k \in dueKeys : k.due <= now /\ Before(k, f)}
    <3>2. Visible(n, Reached(S)) \in SUBSET dueKeys
      BY <2>1
    <3> QED
      BY <3>1, <3>2
  <2> QED
    BY <2>2, <2>3
<1>2. todo' \in [Nodes -> SUBSET JobRecs]
  BY <1>0, <1>1, ScannedOwned
<1> QED
  BY <1>2, <1>u, SameWorkers

(* A job is sent, or dropped. *)
LEMMA DispatchOwned ==
    ASSUME OwnedInd, UNCHANGED owners, NEW n \in Nodes, NEW t \in Ids, Dispatch(n, t)
    PROVE  OwnedInd'
<1>0. OwnedTypes /\ JobsSorted
  BY DEF OwnedInd
<1>o. UNCHANGED <<alarms, deliverAt, edit, admin, removed, passed, broken>>
  BY DEF owners
<1>u. UNCHANGED <<now, tasks, dueKeys, pc, batch, born, finished, swapped>>
  BY DEF Dispatch, history
<1>1. PICK j \in todo[n] :
        /\ j.id = t
        /\ todo' = [todo EXCEPT ![n] = @ \ {j}]
        /\ \/ chan' = [chan EXCEPT ![<<n, TypeOf[t]>>] = Append(@, j)]
           \/ UNCHANGED chan
  BY DEF Dispatch
<1>2. todo' \in [Nodes -> SUBSET JobRecs]
  BY <1>0, <1>1 DEF OwnedTypes
<1>3. chan' \in [Workers -> Seq(JobRecs)]
  <2>1. j \in JobRecs
    BY <1>0, <1>1 DEF OwnedTypes
  <2>2. <<n, TypeOf[t]>> \in Workers /\ chan \in [Workers -> Seq(JobRecs)]
    BY <1>0, TaskAssumptions DEF OwnedTypes, Workers
  <2>3. Append(chan[<<n, TypeOf[t]>>], j) \in Seq(JobRecs)
    BY <2>1, <2>2, Appended
  <2>4. PICK x, S : x = Append(chan[<<n, TypeOf[t]>>], j) /\ S = Seq(JobRecs)
    OBVIOUS
  <2>5. chan' = [chan EXCEPT ![<<n, TypeOf[t]>>] = x] \/ UNCHANGED chan
    BY <1>1, <2>4
  <2>6. chan' \in [Workers -> S]
    <3>1. chan \in [Workers -> S] /\ x \in S
      BY <2>2, <2>3, <2>4, Zenon
    <3> QED
      BY <2>5, <3>1
  <2> QED
    BY <2>4, <2>6
<1>4. OwnedTypes'
  BY <1>0, <1>2, <1>3, <1>u, <1>o DEF OwnedTypes
<1>5. now' >= now
  BY <1>0, <1>u, AlarmTimes
<1>6. JobsSorted'
  <2> SUFFICES ASSUME NEW w \in Workers, NEW i \in DOMAIN chan'[w]
               PROVE  TypeOf[chan'[w][i].id] = w[2]
    BY <1>0, <1>u DEF JobsSorted
  <2>1. chan \in [Workers -> Seq(JobRecs)] /\ j \in JobRecs
    BY <1>0, <1>1 DEF OwnedTypes
  <2>2. CASE chan'[w] = chan[w]
    BY <1>0, <2>2 DEF JobsSorted
  <2>3. CASE w = <<n, TypeOf[t]>> /\ chan'[w] = Append(chan[w], j)
    <3>1. chan[w] \in Seq(JobRecs)
      BY <2>1
    <3>2. \/ i \in DOMAIN chan[w] /\ chan'[w][i] = chan[w][i]
          \/ chan'[w][i] = j
      BY <2>1, <2>3, <3>1, Appended
    <3> QED
      BY <1>0, <1>1, <2>3, <3>2 DEF JobsSorted
  <2>4. chan'[w] = chan[w] \/ (w = <<n, TypeOf[t]>> /\ chan'[w] = Append(chan[w], j))
    <3>1. DOMAIN chan = Workers
      BY <2>1
    <3>2. PICK x : x = Append(chan[<<n, TypeOf[t]>>], j)
      OBVIOUS
    <3>3. chan' = [chan EXCEPT ![<<n, TypeOf[t]>>] = x] \/ UNCHANGED chan
      BY <1>1, <3>2, Zenon
    <3>4. chan'[w] = chan[w] \/ (w = <<n, TypeOf[t]>> /\ chan'[w] = x)
      BY <3>1, <3>3
    <3> QED
      BY <3>2, <3>4, Zenon
  <2> QED
    BY <2>2, <2>3, <2>4
<1> QED
  BY <1>4, <1>5, <1>6, <1>u, <1>o, MemoryOnly

LEMMA OtherMemory ==
    ASSUME OwnedInd, UNCHANGED owners, NEW n \in Nodes, NEW t \in Ids,
           DispatchFails(n) \/ LockExpires(t) \/ EntryExpires(n, t)
    PROVE  OwnedInd'
<1>0. OwnedTypes
  BY DEF OwnedInd
<1>1. CASE DispatchFails(n)
  <2>1. PICK j \in todo[n] : todo' = [todo EXCEPT ![n] = @ \ {j}]
    BY <1>1 DEF DispatchFails
  <2>2. todo' \in [Nodes -> SUBSET JobRecs]
    BY <1>0, <2>1 DEF OwnedTypes
  <2>3. UNCHANGED <<now, tasks, dueKeys, chan, pc, batch, born, finished, swapped>>
    BY <1>1 DEF DispatchFails, store, worker, history
  <2> QED
    BY <2>2, <2>3, SameWorkers
<1>2. CASE LockExpires(t) \/ EntryExpires(n, t)
  <2>1. UNCHANGED <<now, tasks, dueKeys, todo, chan, pc, batch, born, finished, swapped>>
    BY <1>2 DEF LockExpires, EntryExpires, node, store, worker, history
  <2>2. todo' \in [Nodes -> SUBSET JobRecs]
    BY <1>0, <2>1 DEF OwnedTypes
  <2> QED
    BY <2>1, <2>2, SameWorkers
<1> QED
  BY <1>1, <1>2

LEMMA TickOwned ==
    ASSUME OwnedInd, UNCHANGED owners, Tick
    PROVE  OwnedInd'
<1>0. OwnedTypes /\ JobsSorted
  BY DEF OwnedInd
<1>o. UNCHANGED <<alarms, deliverAt, edit, admin, removed, passed, broken>>
  BY DEF owners
<1>u. UNCHANGED <<tasks, dueKeys, todo, chan, pc, batch, born, finished, swapped>>
  BY DEF Tick, store, node, worker, history
<1>1. now' \in 1..MaxNow /\ now' >= now
  BY <1>0, ConstantsAreNat DEF Tick, OwnedTypes
<1>2. \A t \in Events : passed'[t] <= now' + MinInterval
  <2>1. now \in Nat /\ MinInterval \in Nat /\ \A t \in Events : passed[t] \in Nat
    BY <1>0, AlarmTimes, ConstantsAreNat
  <2> QED
    BY <1>0, <1>1, <1>o, <2>1 DEF OwnedTypes
<1>4. OwnedTypes' /\ JobsSorted'
  BY <1>0, <1>1, <1>2, <1>u, <1>o DEF OwnedTypes, JobsSorted
<1> QED
  BY <1>4, <1>1, <1>u, <1>o, MemoryOnly

(* What a node had in memory is gone with it. *)
LEMMA CrashOwned ==
    ASSUME OwnedInd, UNCHANGED owners, NEW n \in Nodes, Crash(n)
    PROVE  OwnedInd'
<1>0. OwnedTypes /\ JobsSorted
  BY DEF OwnedInd
<1>o. UNCHANGED <<alarms, deliverAt, edit, admin, removed, passed, broken>>
  BY DEF owners
<1>u. UNCHANGED <<now, tasks, dueKeys, born, finished, swapped>>
  BY DEF Crash, store, history
<1>1. /\ todo' = [todo EXCEPT ![n] = {}]
      /\ chan' = [w \in Workers |-> IF w[1] = n THEN <<>> ELSE chan[w]]
      /\ batch' = [w \in Workers |-> IF w[1] = n THEN <<>> ELSE batch[w]]
      /\ pc' = [w \in Workers |-> IF w[1] = n THEN "recv" ELSE pc[w]]
  BY DEF Crash
<1>2. /\ todo' \in [Nodes -> SUBSET JobRecs]
      /\ chan' \in [Workers -> Seq(JobRecs)]
      /\ batch' \in [Workers -> Seq(EntryRecs)]
      /\ pc' \in [Workers -> {"recv", "write", "unlock"}]
  <2>1. <<>> \in Seq(JobRecs) /\ <<>> \in Seq(EntryRecs)
    BY EmptySeq
  <2> QED
    BY <1>0, <1>1, <2>1 DEF OwnedTypes
<1>4. OwnedTypes'
  BY <1>0, <1>2, <1>u, <1>o DEF OwnedTypes
<1>5. now' >= now
  BY <1>0, <1>u, AlarmTimes
<1>6. \A w \in Workers : /\ pc'[w] # "recv" => pc'[w] = pc[w] /\ batch'[w] = batch[w]
                         /\ batch'[w] = <<>> \/ batch'[w] = batch[w]
                         /\ chan'[w] = <<>> \/ chan'[w] = chan[w]
  BY <1>1
<1>7. JobsSorted'
  <2>1. \A i : i \notin DOMAIN <<>>
    OBVIOUS
  <2> QED
    BY <1>0, <1>6, <2>1 DEF JobsSorted
<1> QED
  BY <1>4, <1>5, <1>6, <1>7, <1>u, <1>o, MemoryOnly

(* A worker takes a job, or ends its batch. *)
LEMMA RecvOwned ==
    ASSUME OwnedInd, UNCHANGED owners, NEW v \in Workers, Recv(v)
    PROVE  OwnedInd'
<1> DEFINE j == Head(chan[v])
           e == [id |-> j.id, due |-> j.due, task |-> tasks[j.id], res |-> Res("none")]
<1>0. OwnedTypes /\ JobsSorted
  BY DEF OwnedInd
<1>o. UNCHANGED <<alarms, deliverAt, edit, admin, removed, passed, broken>>
  BY DEF owners
<1>u. UNCHANGED <<now, tasks, dueKeys, todo, pc, born, finished, swapped>>
  BY DEF Recv, store, node, history
<1>1. /\ pc[v] = "recv" /\ chan[v] # <<>>
      /\ chan' = [chan EXCEPT ![v] = Tail(chan[v])]
      /\ batch' = [batch EXCEPT ![v] = Append(batch[v], e)] \/ UNCHANGED batch
  BY DEF Recv
<1>2. chan[v] \in Seq(JobRecs) /\ batch[v] \in Seq(EntryRecs)
  BY <1>0 DEF OwnedTypes
<1>3. j \in JobRecs /\ Tail(chan[v]) \in Seq(JobRecs)
  BY <1>1, <1>2, Removed
<1>4. e \in EntryRecs
  <2>1. tasks[j.id] \in Recs /\ j.id \in Ids /\ j.due \in Nat
    BY <1>0, <1>3 DEF OwnedTypes, JobRecs
  <2>2. Res("none") \in [typ : Results \cup {"none", "lost"}, at : Nat]
    BY DEF Res
  <2> HIDE DEF j
  <2> QED
    BY <2>1, <2>2 DEF EntryRecs
<1> HIDE DEF e, j
<1>5. Append(batch[v], e) \in Seq(EntryRecs)
  BY <1>2, <1>4, Appended
<1>6. /\ chan' \in [Workers -> Seq(JobRecs)]
      /\ batch' \in [Workers -> Seq(EntryRecs)]
  <2>1. chan \in [Workers -> Seq(JobRecs)] /\ batch \in [Workers -> Seq(EntryRecs)]
    BY <1>0 DEF OwnedTypes
  <2>2. PICK x, y, S, T : /\ x = Tail(chan[v]) /\ S = Seq(JobRecs)
                          /\ y = Append(batch[v], e) /\ T = Seq(EntryRecs)
    OBVIOUS
  <2>3. chan' = [chan EXCEPT ![v] = x] /\ (batch' = [batch EXCEPT ![v] = y] \/ UNCHANGED batch)
    BY <1>1, <2>2, Zenon
  <2>4. chan' \in [Workers -> S] /\ batch' \in [Workers -> T]
    <3>1. chan \in [Workers -> S] /\ x \in S /\ batch \in [Workers -> T] /\ y \in T
      BY <1>3, <1>5, <2>1, <2>2, Zenon
    <3> QED
      BY <2>3, <3>1
  <2> QED
    BY <2>2, <2>4, Zenon
<1>7. OwnedTypes'
  BY <1>0, <1>6, <1>u, <1>o DEF OwnedTypes
<1>8. now' >= now
  BY <1>0, <1>u, AlarmTimes
<1>9. /\ chan'[v] = Tail(chan[v])
      /\ batch'[v] = Append(batch[v], e) \/ batch'[v] = batch[v]
      /\ \A w \in Workers : w # v => batch'[w] = batch[w] /\ chan'[w] = chan[w]
  <2>1. DOMAIN batch = Workers /\ DOMAIN chan = Workers
    BY <1>0 DEF OwnedTypes
  <2>2. PICK x, y : x = Tail(chan[v]) /\ y = Append(batch[v], e)
    OBVIOUS
  <2>3. chan' = [chan EXCEPT ![v] = x] /\ (batch' = [batch EXCEPT ![v] = y] \/ UNCHANGED batch)
    BY <1>1, <2>2, Zenon
  <2>4. /\ chan'[v] = x /\ (batch'[v] = y \/ batch'[v] = batch[v])
        /\ \A w \in Workers : w # v => batch'[w] = batch[w] /\ chan'[w] = chan[w]
    BY <2>1, <2>3
  <2> QED
    BY <2>2, <2>4, Zenon
<1>10. \A w \in Workers : pc'[w] # "recv" => pc'[w] = pc[w] /\ batch'[w] = batch[w]
  BY <1>1, <1>9, <1>u
<1>11. JobsSorted'
  <2>1. TypeOf[e.id] = v[2]
    <3>1. 1 \in DOMAIN chan[v] /\ chan[v][1] = j
      BY <1>1, <1>2, Removed DEF j
    <3>2. e.id = j.id
      BY DEF e
    <3> QED
      BY <1>0, <3>1, <3>2 DEF JobsSorted
  <2>2. \A i \in DOMAIN batch'[v] : TypeOf[batch'[v][i].id] = v[2]
    <3> SUFFICES ASSUME NEW i \in DOMAIN batch'[v] PROVE TypeOf[batch'[v][i].id] = v[2]
      OBVIOUS
    <3>1. CASE batch'[v] = batch[v]
      BY <1>0, <3>1 DEF JobsSorted
    <3>2. CASE batch'[v] = Append(batch[v], e)
      <4>1. (i \in DOMAIN batch[v] /\ batch'[v][i] = batch[v][i]) \/ batch'[v][i] = e
        BY <1>2, <1>4, <3>2, Appended
      <4> QED
        BY <1>0, <2>1, <4>1 DEF JobsSorted
    <3> QED
      BY <1>9, <3>1, <3>2
  <2>3. \A i \in DOMAIN chan'[v] : TypeOf[chan'[v][i].id] = v[2]
    <3> SUFFICES ASSUME NEW i \in DOMAIN chan'[v] PROVE TypeOf[chan'[v][i].id] = v[2]
      OBVIOUS
    <3>0. PICK c, d : c = chan[v] /\ d = chan'[v]
      OBVIOUS
    <3>a. c \in Seq(JobRecs) /\ c # <<>> /\ d = Tail(c) /\ i \in DOMAIN d
      BY <1>1, <1>2, <1>9, <3>0
    <3>b. i + 1 \in DOMAIN c /\ d[i] = c[i + 1]
      BY <3>a, Removed
    <3>1. i + 1 \in DOMAIN chan[v] /\ chan'[v][i] = chan[v][i + 1]
      BY <3>0, <3>b
    <3> QED
      BY <1>0, <3>1 DEF JobsSorted
  <2>4. ASSUME NEW w \in Workers, w # v
        PROVE  /\ \A i \in DOMAIN chan'[w] : TypeOf[chan'[w][i].id] = w[2]
               /\ \A i \in DOMAIN batch'[w] : TypeOf[batch'[w][i].id] = w[2]
    <3>1. chan'[w] = chan[w] /\ batch'[w] = batch[w]
      BY <1>9, <2>4
    <3> QED
      BY <1>0, <3>1 DEF JobsSorted
  <2> QED
    BY <2>2, <2>3, <2>4 DEF JobsSorted
<1> QED
  BY <1>7, <1>8, <1>10, <1>11, <1>u, <1>o, MemoryOnly

LEMMA UnlockOwned ==
    ASSUME OwnedInd, UNCHANGED owners, NEW v \in Workers, Unlock(v)
    PROVE  OwnedInd'
<1>0. OwnedTypes /\ JobsSorted
  BY DEF OwnedInd
<1>o. UNCHANGED <<alarms, deliverAt, edit, admin, removed, passed, broken>>
  BY DEF owners
<1>u. UNCHANGED <<now, tasks, dueKeys, todo, chan, born, finished, swapped>>
  BY DEF Unlock, node, history
<1>1. batch' = [batch EXCEPT ![v] = <<>>] /\ pc' = [pc EXCEPT ![v] = "recv"]
  BY DEF Unlock
<1>2. /\ batch' \in [Workers -> Seq(EntryRecs)]
      /\ pc' \in [Workers -> {"recv", "write", "unlock"}]
      /\ \A w \in Workers : pc'[w] # "recv" => pc'[w] = pc[w] /\ batch'[w] = batch[w]
      /\ \A w \in Workers : batch'[w] = <<>> \/ batch'[w] = batch[w]
  <2>1. <<>> \in Seq(EntryRecs)
    BY EmptySeq
  <2> QED
    BY <1>0, <1>1, <2>1 DEF OwnedTypes
<1>3. OwnedTypes'
  BY <1>0, <1>2, <1>u, <1>o DEF OwnedTypes
<1>4. now' >= now
  BY <1>0, <1>u, AlarmTimes
<1>5. JobsSorted'
  <2>1. \A i : i \notin DOMAIN <<>>
    OBVIOUS
  <2> QED
    BY <1>0, <1>2, <1>u, <2>1 DEF JobsSorted
<1> QED
  BY <1>2, <1>3, <1>4, <1>5, <1>u, <1>o, MemoryOnly

(* What the work on a task may come to: an alarm that neither fails nor    *)
(* gives up ends its task only when none is to come after those it passes  *)
(* over, and goes on at the first of them.                                 *)
LEMMA AlarmResultFacts ==
    ASSUME OwnedTypes, NEW t \in Ids \ Silent, NEW r \in ResultsOf(AlarmResults, t)
    PROVE  /\ r \in [typ : Results, at : Nat]
           /\ t \in Events /\ r # Res("temporary") /\ r # NextAlarmResult(t) => r = Res("success")
           /\ t \in Events /\ r = NextAlarmResult(t) =>
                 \A x \in alarms[t] : x > now /\ (TooSoon(t) => x > now + MinInterval) =>
                    r.typ \notin {"success", "followup"} /\ (r.typ = "update" => r.at <= x)
<1>0. r \in AlarmResults[t]
  BY DEF ResultsOf
<1>1. CASE t \notin Events
  <2>1. r \in AnyOutcome[t]
    BY <1>0, <1>1 DEF AlarmResults
  <2>2. PICK o \in Outcomes : r = Res(o)
    BY <2>1 DEF AnyOutcome
  <2>3. o \in Results
    BY TaskAssumptions DEF Results, Failures
  <2> QED
    BY <1>1, <2>2, <2>3 DEF Res
<1>2. CASE t \in Events
  <2> DEFINE after == IF TooSoon(t) THEN now + MinInterval ELSE now
             next == NextAlarm(alarms[t], after)
  <2>1. r \in {Res("temporary"), Res("success"), NextAlarmResult(t)}
    BY <1>0, <1>2 DEF AlarmResults
  <2>2. /\ next \in Nat
        /\ next = 0 => \A x \in alarms[t] : ~(x > after)
        /\ next # 0 => \A x \in alarms[t] : x > after => next <= x
    <3>1. alarms[t] \in SUBSET Nat /\ after \in Nat
      BY <1>2, AlarmTimes, ConstantsAreNat
    <3> HIDE DEF after
    <3> QED
      BY <3>1, NextAlarmIsFirst
  <2>3. NextAlarmResult(t) = IF next = 0 THEN Res("success") ELSE [typ |-> "update", at |-> next]
    BY DEF NextAlarmResult
  <2>4. \A x \in alarms[t] : x > now /\ (TooSoon(t) => x > now + MinInterval) => x > after
    OBVIOUS
  <2> HIDE DEF next, after
  <2>5. CASE r \in {Res("temporary"), Res("success")} /\ r # NextAlarmResult(t)
    BY <2>5 DEF Res, Results, Failures
  <2>6. CASE r = NextAlarmResult(t) /\ r = Res("success") /\ next = 0
    BY <2>2, <2>4, <2>6 DEF Res, Results
  <2>7. CASE r = NextAlarmResult(t) /\ r = [typ |-> "update", at |-> next] /\ next # 0
    BY <2>2, <2>4, <2>7 DEF Results, Res
  <2> QED
    BY <2>1, <2>3, <2>5, <2>6, <2>7
<1> QED
  BY <1>1, <1>2

LEMMA RunOwned ==
    ASSUME OwnedInd, NEW v \in Workers, RunAlarms(v)
    PROVE  OwnedInd'
<1> DEFINE b == batch[v]
           ran(t, r) == \E i \in DOMAIN batch'[v] : batch'[v][i].id = t /\ batch'[v][i].res = r
<1>0. OwnedTypes /\ ResultsHonest /\ JobsSorted /\ EditKnown
  BY DEF OwnedInd
<1>o. /\ UNCHANGED <<alarms, deliverAt, admin, removed>>
      /\ edit' = [edit EXCEPT !.met = @ \/ \E i \in DOMAIN b : b[i].id = edit.id]
      /\ passed' = [t \in Events |-> IF TooSoon(t) /\ ran(t, NextAlarmResult(t))
                                     THEN now + MinInterval ELSE passed[t]]
      /\ broken' = broken \cup {t \in Events :
                        ran(t, Res("success")) /\ NextAlarmResult(t) # Res("success")}
  BY DEF RunAlarms
<1>u. UNCHANGED <<now, tasks, dueKeys, todo, chan, born, swapped>>
  BY DEF RunAlarms, Run, store, node
<1>1. PICK res :
        /\ \A i \in DOMAIN b : res[i] \in ResultsOf(AlarmResults, b[i].id)
        /\ batch' = [batch EXCEPT ![v] = [i \in DOMAIN b |-> [b[i] EXCEPT !.res = res[i]]]]
        /\ finished' = finished \cup {b[i].id : i \in
                {j \in DOMAIN b : res[j].typ \in {"success", "followup"}}}
  BY DEF RunAlarms, Run
<1>2. pc' = [pc EXCEPT ![v] = "write"]
  BY DEF RunAlarms, Run
<1>3. b \in Seq(EntryRecs) /\ DOMAIN batch = Workers /\ \A i \in DOMAIN b : b[i] \in EntryRecs
  BY <1>0, EntryTypes DEF OwnedTypes
<1> DEFINE c == [i \in DOMAIN b |-> [b[i] EXCEPT !.res = res[i]]]
<1>4. \A i \in DOMAIN b :
        /\ res[i] \in [typ : Results \cup {"none", "lost"}, at : Nat]
        /\ b[i].id \notin Silent => res[i].typ \in Results
  <2> SUFFICES ASSUME NEW i \in DOMAIN b
               PROVE  /\ res[i] \in [typ : Results \cup {"none", "lost"}, at : Nat]
                      /\ b[i].id \notin Silent => res[i].typ \in Results
    OBVIOUS
  <2>1. b[i].id \in Ids /\ res[i] \in ResultsOf(AlarmResults, b[i].id)
    BY <1>1, <1>3 DEF EntryRecs
  <2> HIDE DEF b
  <2>2. CASE b[i].id \in Silent
    <3>1. res[i] = Res("none")
      BY <2>1, <2>2 DEF ResultsOf
    <3> QED
      BY <2>2, <3>1 DEF Res
  <2>3. CASE b[i].id \notin Silent
    <3>1. res[i] \in [typ : Results, at : Nat]
      BY <1>0, <2>1, <2>3, AlarmResultFacts
    <3> QED
      BY <3>1
  <2> QED
    BY <2>2, <2>3
<1>5. \A i \in DOMAIN b : c[i] \in EntryRecs /\ c[i].id = b[i].id /\ c[i].res = res[i]
  <2> SUFFICES ASSUME NEW i \in DOMAIN b
               PROVE  c[i] \in EntryRecs /\ c[i].id = b[i].id /\ c[i].res = res[i]
    OBVIOUS
  <2>1. b[i] \in EntryRecs /\ res[i] \in [typ : Results \cup {"none", "lost"}, at : Nat]
    BY <1>3, <1>4
  <2>2. c[i] = [b[i] EXCEPT !.res = res[i]]
    OBVIOUS
  <2> HIDE DEF b, c
  <2> QED
    BY <2>1, <2>2 DEF EntryRecs
<1>6. c \in Seq(EntryRecs) /\ DOMAIN c = DOMAIN b
  <2>1. c \in [DOMAIN b -> EntryRecs]
    BY <1>5
  <2> HIDE DEF b, c
  <2> QED
    BY <1>3, <2>1, Mapped
<1>7. batch'[v] = c /\ \A w \in Workers : w # v => batch'[w] = batch[w]
  BY <1>1, <1>3
<1>8. batch' \in [Workers -> Seq(EntryRecs)] /\ pc' \in [Workers -> {"recv", "write", "unlock"}]
  <2>1. PICK S : S = Seq(EntryRecs)
    OBVIOUS
  <2>2. batch \in [Workers -> S] /\ c \in S /\ batch' = [batch EXCEPT ![v] = c]
    BY <1>0, <1>1, <1>6, <2>1 DEF OwnedTypes
  <2>3. batch' \in [Workers -> S]
    <3> HIDE DEF c
    <3> QED
      BY <2>2
  <2> QED
    BY <1>0, <1>2, <2>1, <2>3 DEF OwnedTypes
<1>a. now \in Nat /\ MinInterval \in Nat /\ \A t \in Events : passed[t] \in Nat /\ passed[t] <= now + MinInterval
  BY <1>0, AlarmTimes, ConstantsAreNat DEF OwnedTypes
<1>b. /\ passed' \in [Events -> Nat]
      /\ \A t \in Events :
            /\ passed'[t] <= now + MinInterval /\ passed'[t] >= passed[t]
            /\ passed'[t] = passed[t] \/ (TooSoon(t) /\ ran(t, NextAlarmResult(t)))
            /\ TooSoon(t) /\ ran(t, NextAlarmResult(t)) => passed'[t] = now + MinInterval
  <2> HIDE DEF ran
  <2> QED
    BY <1>o, <1>a
<1>e. /\ edit'.on = edit.on /\ edit'.id = edit.id /\ edit'.prev = edit.prev
      /\ edit'.times = edit.times /\ edit'.next = edit.next
      /\ edit'.met = (edit.met \/ \E i \in DOMAIN b : b[i].id = edit.id)
      /\ edit' \in [on : BOOLEAN, id : Ids \cup {0}, times : Alarms \cup {{}}, prev : Nat,
                    next : Nat, met : BOOLEAN]
  <2>1. edit \in [on : BOOLEAN, id : Ids \cup {0}, times : Alarms \cup {{}}, prev : Nat,
                  next : Nat, met : BOOLEAN]
    BY <1>0 DEF OwnedTypes
  <2>2. PICK m \in BOOLEAN : m = (edit.met \/ \E i \in DOMAIN b : b[i].id = edit.id)
    OBVIOUS
  <2>3. edit' = [edit EXCEPT !.met = m]
    BY <1>o, <2>2, Zenon
  <2>4. /\ edit'.on = edit.on /\ edit'.id = edit.id /\ edit'.prev = edit.prev
        /\ edit'.times = edit.times /\ edit'.next = edit.next /\ edit'.met = m
        /\ edit' \in [on : BOOLEAN, id : Ids \cup {0}, times : Alarms \cup {{}}, prev : Nat,
                      next : Nat, met : BOOLEAN]
    BY <2>1, <2>3
  <2> QED
    BY <2>2, <2>4, Zenon
<1>9. OwnedTypes'
  BY <1>0, <1>8, <1>b, <1>e, <1>u, <1>o DEF OwnedTypes
<1>10. now' >= now /\ finished \subseteq finished' /\ broken \subseteq broken'
  BY <1>1, <1>a, <1>u, <1>o
<1>c. \A i \in DOMAIN batch'[v] : i \in DOMAIN b /\ batch'[v][i].id = b[i].id /\ batch'[v][i].res = res[i]
  BY <1>5, <1>6, <1>7
<1>d. \A i \in DOMAIN b : ran(b[i].id, res[i])
  BY <1>5, <1>6, <1>7
<1>11. ResultsHonest'
  <2> SUFFICES ASSUME NEW w \in Workers, pc'[w] = "write", NEW i \in DOMAIN batch'[w],
                      batch'[w][i].id \notin Silent
               PROVE  Honest(batch[w][i])'
    BY DEF ResultsHonest
  <2>0. \A t \in Events : Awaited(t)' \subseteq Awaited(t)
    BY <1>0, <1>9, <1>10, <1>b, <1>o, StillToCome
  <2>1. CASE w # v
    <3>1. PICK e : e = batch[w][i] /\ e = batch'[w][i]
      BY <1>7, <2>1
    <3>2. pc[w] = "write" /\ i \in DOMAIN batch[w]
      BY <1>0, <1>2, <1>7, <2>1 DEF OwnedTypes
    <3>3. Honest(e)
      BY <1>0, <3>1, <3>2 DEF ResultsHonest
    <3>4. Honest(e)'
      BY <1>10, <2>0, <3>3, HonestKeeps
    <3> QED
      BY <3>1, <3>4 DEF Honest, Credible
  <2>2. CASE w = v
    <3>1. PICK e : e = batch'[w][i]
      OBVIOUS
    <3>2. i \in DOMAIN b /\ e.id = b[i].id /\ e.res = res[i] /\ e.id \in Ids \ Silent
      <4>1. \A j \in DOMAIN b : b[j].id \in Ids
        BY <1>3 DEF EntryRecs
      <4> QED
        BY <1>c, <2>2, <3>1, <4>1
    <3>3. e.res.typ \in Results
      BY <1>4, <3>2
    <3>4. e.res.typ \in {"success", "followup"} => e.id \in finished'
      BY <1>1, <3>2
    <3>5. Credible(e)'
      <4> SUFFICES ASSUME e.id \in Events \ broken', NEW x \in Awaited(e.id)'
                   PROVE  /\ e.res.typ \notin {"success", "followup"}
                          /\ e.res.typ = "update" => e.res.at <= x
        BY DEF Credible
      <4>1. PICK t : t = e.id /\ t \in Events /\ t \in Ids \ Silent /\ t \notin broken'
        BY <3>2
      <4>2. x \in alarms[t] /\ x > now /\ x > passed'[t]
        BY <1>o, <1>u, <4>1 DEF Awaited
      <4>3. e.res \in ResultsOf(AlarmResults, t) /\ ran(t, e.res)
        BY <1>1, <1>d, <3>2, <4>1
      <4> HIDE DEF ran
      <4>4. CASE e.res = Res("temporary")
        BY <4>4 DEF Res
      <4>5. CASE e.res = NextAlarmResult(t)
        <5>1. TooSoon(t) => x > now + MinInterval
          BY <1>b, <4>1, <4>2, <4>3, <4>5
        <5> QED
          BY <1>0, <4>1, <4>2, <4>3, <4>5, <5>1, AlarmResultFacts
      <4>6. CASE e.res # Res("temporary") /\ e.res # NextAlarmResult(t)
        <5>1. e.res = Res("success")
          BY <1>0, <4>1, <4>3, <4>6, AlarmResultFacts
        <5>2. t \in broken'
          BY <1>o, <4>1, <4>3, <4>6, <5>1
        <5> QED
          BY <4>1, <5>2
      <4> QED
        BY <4>4, <4>5, <4>6
    <3>6. Honest(e)'
      BY <3>3, <3>4, <3>5 DEF Honest
    <3> QED
      BY <3>1, <3>6 DEF Honest, Credible
  <2> QED
    BY <2>1, <2>2
<1>12. JobsSorted'
  <2> SUFFICES ASSUME NEW w \in Workers, NEW i \in DOMAIN batch'[w]
               PROVE  TypeOf[batch'[w][i].id] = w[2]
    BY <1>0, <1>u DEF JobsSorted
  <2>1. CASE w # v
    BY <1>0, <1>7, <2>1 DEF JobsSorted
  <2>2. CASE w = v
    BY <1>0, <1>c, <2>2 DEF JobsSorted
  <2> QED
    BY <2>1, <2>2
<1>13. EditKnown'
  <2>1. PICK t0, p : t0 = edit.id /\ p = edit.prev
    OBVIOUS
  <2>2. ASSUME edit'.on, ~edit'.met, NEW w \in Workers, NEW i \in DOMAIN batch'[w],
               batch'[w][i].id = t0, pc'[w] # "recv"
        PROVE  FALSE
    <3>1. CASE w = v
      BY <1>c, <1>e, <2>1, <2>2, <3>1
    <3>2. CASE w # v
      <4>1. pc[w] # "recv" /\ i \in DOMAIN batch[w] /\ batch[w][i].id = t0
        BY <1>0, <1>2, <1>7, <2>2, <3>2 DEF OwnedTypes
      <4> QED
        BY <1>0, <1>e, <2>1, <2>2, <4>1 DEF EditKnown
    <3> QED
      BY <3>1, <3>2
  <2>3. edit'.on /\ ~edit'.met => passed'[t0] = passed[t0]
    <3> SUFFICES ASSUME edit'.on, ~edit'.met PROVE passed'[t0] = passed[t0]
      OBVIOUS
    <3>1. t0 \in Events /\ ~\E i \in DOMAIN b : b[i].id = t0
      BY <1>0, <1>e, <2>1 DEF OwnedTypes
    <3>2. ~ran(t0, NextAlarmResult(t0))
      BY <1>c, <3>1
    <3> HIDE DEF ran
    <3> QED
      BY <1>b, <3>1, <3>2
  <2>4. Kept(t0, p) => Kept(t0, p)'
    BY <1>u DEF Kept
  <2>5. edit'.on => /\ edit.on /\ edit'.id = t0 /\ edit'.prev = p
                    /\ edit'.times = edit.times /\ edit'.next = edit.next
                    /\ ~edit'.met => ~edit.met
    BY <1>e, <2>1
  <2>6. edit'.on /\ ~edit'.met =>
              /\ \A w \in Workers : \A i \in DOMAIN batch'[w] :
                    batch'[w][i].id = t0 => pc'[w] = "recv"
              /\ t0 \notin broken' /\ p > passed'[t0] =>
                    t0 \notin broken /\ p > passed[t0] /\ (Kept(t0, p) => Kept(t0, p)')
    BY <1>10, <2>2, <2>3, <2>4
  <2>7. born \subseteq born'
    BY <1>u
  <2> QED
    BY <1>9, <1>10, <2>1, <2>5, <2>6, <2>7, EditKeeps
<1> QED
  BY <1>9, <1>10, <1>11, <1>12, <1>13, <1>b, <1>u, <1>o, Quiet

-----------------------------------------------------------------------------
(* Steps that write the keys.                                              *)

(* What update_tasks works with.  An alarm has its own result, since there *)
(* is no file in its batch; any other task has its own or is on record.    *)
LEMMA ZippedOwned ==
    ASSUME OwnedInd, NEW v \in Workers, pc[v] = "write", NEW f \in Orders(batch[v]),
           NEW b, b = Zipped(batch[v], f), NEW i \in DOMAIN b
    PROVE  /\ b \in Seq(EntryRecs) /\ b[i] \in EntryRecs /\ i \in DOMAIN f
           /\ b[i].res.typ \in Results /\ Credible(b[i])
           /\ i \in DOMAIN batch[v] /\ b[i].id = batch[v][i].id
           /\ f[i] # i \/ (b[i].res.typ \in {"success", "followup"} => b[i].id \in finished)
<1> DEFINE o == batch[v]
<1>0. OwnedTypes /\ ResultsHonest /\ JobsSorted
  BY DEF OwnedInd
<1>1. o \in Seq(EntryRecs) /\ \A j \in DOMAIN o : o[j] \in EntryRecs
  BY <1>0, EntryTypes DEF OwnedTypes
<1>2. \A j \in DOMAIN o : TypeOf[o[j].id] = v[2] /\ (o[j].id \notin Silent => Honest(o[j]))
  BY <1>0 DEF JobsSorted, ResultsHonest
<1> HIDE DEF o
<1>3. /\ DOMAIN f \subseteq DOMAIN o
      /\ \A j \in DOMAIN f : f[j] \in DOMAIN o /\ o[f[j]].id \notin Silent
      /\ \A j \in DOMAIN o : (\A k \in 1..j : o[k].id \notin Silent) => j \in DOMAIN f /\ f[j] = j
  <2>1. f \in Orders(o)
    BY DEF o
  <2> QED
    BY <1>1, <2>1, ZipOwn
<1>4. b = [j \in DOMAIN f |-> [o[j] EXCEPT !.res = o[f[j]].res]]
  BY DEF Zipped, o
<1>5. ASSUME NEW j \in DOMAIN f
      PROVE  b[j] \in EntryRecs /\ b[j].id = o[j].id /\ b[j].res = o[f[j]].res
  <2>1. PICK e, d : e = o[j] /\ d = o[f[j]].res
    OBVIOUS
  <2>2. e \in EntryRecs /\ d \in [typ : Results \cup {"none", "lost"}, at : Nat]
    <3>1. o[j] \in EntryRecs /\ o[f[j]] \in EntryRecs
      BY <1>1, <1>3
    <3> QED
      BY <2>1, <3>1 DEF EntryRecs
  <2>3. b[j] = [e EXCEPT !.res = d]
    BY <1>4, <2>1
  <2>4. b[j] \in EntryRecs /\ b[j].id = e.id /\ b[j].res = d
    BY <2>2, <2>3 DEF EntryRecs
  <2> QED
    BY <2>1, <2>4, Zenon
<1>6. i \in DOMAIN f /\ i \in DOMAIN o /\ DOMAIN b = DOMAIN f
  BY <1>3, <1>4
<1>7. b \in Seq(EntryRecs)
  <2>1. Len(o) \in Nat /\ DOMAIN o = 1..Len(o)
    BY <1>1, LenProperties
  <2>2. Cardinality(Reported(o)) \in Nat /\ DOMAIN f = 1..Cardinality(Reported(o))
    <3>1. IsFiniteSet(DOMAIN o) /\ Reported(o) \subseteq DOMAIN o
      BY <2>1, FS_Interval DEF Reported
    <3>2. Cardinality(Reported(o)) \in Nat
      BY <3>1, FS_Subset, FS_CardinalityType
    <3> QED
      BY <3>2 DEF Orders, o
  <2>3. b \in [1..Cardinality(Reported(o)) -> EntryRecs]
    BY <1>4, <1>5, <2>2
  <2> QED
    BY <2>2, <2>3, SeqDef
<1>8. Honest(o[f[i]]) /\ b[i].res = o[f[i]].res /\ b[i].id = o[i].id
  BY <1>2, <1>3, <1>5, <1>6
<1>9. b[i].id \in Events => f[i] = i
  <2> SUFFICES ASSUME o[i].id \in Events PROVE f[i] = i
    BY <1>8
  <2>1. \A k \in DOMAIN o : TypeOf[o[k].id] = TypeOf[o[i].id]
    BY <1>2, <1>6
  <2>2. \A k \in DOMAIN o : o[k].id \notin Silent
    BY <2>1, OwnerAssumptions
  <2>3. 1..i \subseteq DOMAIN o
    BY <1>1, <1>6, LenProperties
  <2> QED
    BY <1>3, <1>6, <2>2, <2>3
<1>10. f[i] = i => /\ Credible(b[i])
                   /\ b[i].res.typ \in {"success", "followup"} => b[i].id \in finished
  BY <1>8 DEF Honest, Credible
<1>11. Credible(b[i])
  BY <1>9, <1>10 DEF Credible
<1> QED
  BY <1>5, <1>6, <1>7, <1>8, <1>10, <1>11 DEF Honest, o

(* The batch of update_tasks. *)
LEMMA AppliesOwned ==
    ASSUME OwnedInd, UNCHANGED owners, NEW v \in Workers, NEW f \in Orders(batch[v]),
           NEW fresh \in SUBSET (Ids \ born), NEW b, b = Zipped(batch[v], f),
           pc[v] = "write", pc' = [pc EXCEPT ![v] = "unlock"],
           tasks' = TasksAfter(b, fresh), dueKeys' = KeysAfter(b, fresh),
           born' = born \cup fresh,
           swapped' = swapped \cup {b[i].id : i \in {j \in DOMAIN f : f[j] # j}},
           UNCHANGED <<now, todo, chan, batch, finished>>
    PROVE  OwnedInd'
<1> DEFINE last(t) == b[LastOf(b, t)]
<1>0. OwnedTypes /\ ResultsHonest /\ AlarmsBorn /\ AlarmsKept /\ LeavesWithCause /\ JobsSorted
      /\ EditKnown
  BY DEF OwnedInd
<1>o. UNCHANGED <<alarms, deliverAt, edit, admin, removed, passed, broken>>
  BY DEF owners
<1>1. \A i \in DOMAIN b :
        /\ b \in Seq(EntryRecs) /\ b[i] \in EntryRecs
        /\ b[i].res.typ \in Results /\ Credible(b[i])
        /\ i \in DOMAIN batch[v] /\ b[i].id = batch[v][i].id
        /\ b[i].res.typ \in {"success", "followup"} => b[i].id \in finished \cup swapped'
  <2> SUFFICES ASSUME NEW i \in DOMAIN b
               PROVE  /\ b \in Seq(EntryRecs) /\ b[i] \in EntryRecs
                      /\ b[i].res.typ \in Results /\ Credible(b[i])
                      /\ i \in DOMAIN batch[v] /\ b[i].id = batch[v][i].id
                      /\ b[i].res.typ \in {"success", "followup"} =>
                            b[i].id \in finished \cup swapped'
    OBVIOUS
  <2>1. /\ b \in Seq(EntryRecs) /\ b[i] \in EntryRecs /\ i \in DOMAIN f
        /\ b[i].res.typ \in Results /\ Credible(b[i])
        /\ i \in DOMAIN batch[v] /\ b[i].id = batch[v][i].id
        /\ f[i] # i \/ (b[i].res.typ \in {"success", "followup"} => b[i].id \in finished)
    BY ZippedOwned
  <2>2. f[i] # i => b[i].id \in swapped'
    BY <2>1
  <2> QED
    BY <2>1, <2>2
<1>2. \A t \in Ids : (\E i \in DOMAIN b : b[i].id = t) =>
        /\ LastOf(b, t) \in DOMAIN b /\ last(t).id = t
        /\ \A i \in DOMAIN b : b[i].id = t => i <= LastOf(b, t)
  BY <1>1, LastEntry
<1>3. \A i \in DOMAIN b : /\ TaskAfter(b[i]) \in Recs /\ b[i].id \in Ids
                          /\ \A k \in DueAfter(b[i]) : k \in [id : Ids, due : Nat, typ : {"task", "object"}]
  <2> SUFFICES ASSUME NEW i \in DOMAIN b
               PROVE  /\ TaskAfter(b[i]) \in Recs /\ b[i].id \in Ids
                      /\ \A k \in DueAfter(b[i]) : k \in [id : Ids, due : Nat, typ : {"task", "object"}]
    OBVIOUS
  <2>1. b[i] \in EntryRecs /\ b[i].res.typ \in Results
    BY <1>1
  <2>2. TaskAfter(b[i]) \in Recs
    BY <1>0, <2>1, AfterResult
  <2>3. TaskAfter(b[i]).due \in Nat /\ b[i].id \in Ids
    BY <2>1, <2>2 DEF Recs, EntryRecs
  <2> QED
    BY <2>2, <2>3 DEF DueAfter
<1>4. \A t \in Ids :
        /\ t \in fresh => tasks'[t] = Pending(now)
        /\ t \notin fresh /\ (\E i \in DOMAIN b : b[i].id = t) => tasks'[t] = TaskAfter(last(t))
        /\ t \notin fresh /\ ~(\E i \in DOMAIN b : b[i].id = t) => tasks'[t] = tasks[t]
  BY DEF TasksAfter
<1>5. now \in Nat /\ now' >= now
  BY <1>0, AlarmTimes
<1>k. ASSUME NEW t \in Ids, ~(\E i \in DOMAIN b : b[i].id = t), t \notin fresh, NEW x, Kept(t, x)
      PROVE  Kept(t, x)'
  <2>1. tasks'[t] = tasks[t]
    BY <1>4, <1>k
  <2>2. \A k \in dueKeys : k.id = t => k \in dueKeys'
    BY <1>k DEF KeysAfter, Writes
  <2> QED
    BY <1>k, <2>1, <2>2 DEF Kept
<1>6. OwnedTypes'
  <2>1. tasks' \in [Ids -> Recs]
    <3>1. \A t \in Ids : tasks'[t] \in Recs
      <4> SUFFICES ASSUME NEW t \in Ids PROVE tasks'[t] \in Recs
        OBVIOUS
      <4>1. Pending(now) \in Recs /\ tasks[t] \in Recs
        BY <1>0, <1>5 DEF Pending, Recs, OwnedTypes
      <4>2. (\E i \in DOMAIN b : b[i].id = t) => TaskAfter(last(t)) \in Recs
        BY <1>2, <1>3
      <4> HIDE DEF last
      <4> QED
        BY <1>4, <4>1, <4>2
    <3>2. DOMAIN tasks' = Ids /\ tasks' = [t \in Ids |-> tasks'[t]]
      BY DEF TasksAfter
    <3> QED
      BY <3>1, <3>2
  <2>2. dueKeys' \subseteq [id : Ids, due : Nat, typ : {"task", "object"}]
    <3> SUFFICES ASSUME NEW k \in dueKeys' PROVE k \in [id : Ids, due : Nat, typ : {"task", "object"}]
      OBVIOUS
    <3>1. \/ k \in dueKeys
          \/ \E t \in fresh : k = [id |-> t, due |-> now, typ |-> "task"]
          \/ \E i \in DOMAIN b : k \in DueAfter(b[i])
      BY DEF KeysAfter
    <3> QED
      BY <1>0, <1>3, <1>5, <3>1 DEF OwnedTypes
  <2>3. pc' \in [Workers -> {"recv", "write", "unlock"}] /\ born' \subseteq Ids
    BY <1>0 DEF OwnedTypes
  <2> QED
    BY <1>0, <1>o, <2>1, <2>2, <2>3 DEF OwnedTypes
<1>7. ResultsHonest'
  <2>1. \A w \in Workers : pc'[w] = "write" => pc[w] = "write" /\ batch'[w] = batch[w]
    BY <1>0 DEF OwnedTypes
  <2>2. \A t \in Events : passed'[t] >= passed[t]
    BY <1>0, <1>o, AlarmTimes
  <2> QED
    BY <1>0, <1>5, <1>6, <1>o, <2>1, <2>2, SameResults
<1>8. AlarmsBorn' /\ JobsSorted'
  BY <1>0, <1>o DEF AlarmsBorn, JobsSorted
<1>9. AlarmsKept'
  <2> SUFFICES ASSUME NEW t \in Events \ broken, NEW x \in Awaited(t)
               PROVE  Kept(t, x)'
    BY <1>o DEF AlarmsKept, Awaited
  <2>1. t \in Ids /\ t \notin fresh /\ Kept(t, x)
    BY <1>0, OwnerAssumptions DEF AlarmsBorn, AlarmsKept, Awaited
  <2>2. CASE ~(\E i \in DOMAIN b : b[i].id = t)
    BY <1>k, <2>1, <2>2
  <2>3. CASE \E i \in DOMAIN b : b[i].id = t
    <3> DEFINE L == LastOf(b, t)
    <3>1. PICK e : e = b[L]
      OBVIOUS
    <3>2. /\ e \in EntryRecs /\ e.res.typ \in Results /\ Credible(e) /\ e.id = t /\ L \in DOMAIN b
          /\ \A i \in DOMAIN b : b[i].id = t => i <= L
          /\ tasks'[t] = TaskAfter(e)
      BY <1>1, <1>2, <1>4, <2>1, <2>3, <3>1
    <3>3. /\ e.res.typ \in Failures \cup {"update"}
          /\ e.res.typ = "update" => e.res.at <= x
      BY <3>2 DEF Credible, Results
    <3>4. /\ TaskAfter(e) # Gone
          /\ e.res.typ \in Failures => TaskAfter(e).status \in {"retry", "failed"}
          /\ e.res.typ = "update" => TaskAfter(e).due = e.res.at
      BY <1>0, <3>2, <3>3, AfterResult DEF Failures
    <3>5. PICK k : k = [id |-> t, due |-> TaskAfter(e).due, typ |-> "task"]
      OBVIOUS
    <3>6. k \in DueAfter(e) /\ k.id = t /\ k.due = TaskAfter(e).due
      BY <3>2, <3>4, <3>5 DEF DueAfter
    <3>7. \A j \in DOMAIN b : j > L => ~Writes(b[j], k)
      <4>1. DOMAIN b \subseteq Int
        <5>1. b \in Seq(EntryRecs)
          BY <1>1, <3>2
        <5> QED
          BY <5>1, LenProperties
      <4>2. \A j \in DOMAIN b : j > L => b[j].id # t
        <5> HIDE DEF L
        <5> QED
          BY <3>2, <4>1
      <4> QED
        BY <3>6, <4>2 DEF Writes
    <3>8. k \in dueKeys'
      BY <3>1, <3>2, <3>6, <3>7 DEF KeysAfter
    <3> HIDE DEF L
    <3>9. CASE e.res.typ \in Failures
      BY <3>2, <3>4, <3>6, <3>8, <3>9 DEF Kept
    <3>10. CASE e.res.typ = "update"
      BY <3>2, <3>3, <3>4, <3>6, <3>8, <3>10 DEF Kept
    <3> QED
      BY <3>3, <3>9, <3>10
  <2> QED
    BY <2>2, <2>3
<1>10. LeavesWithCause'
  <2> SUFFICES ASSUME NEW t \in born \cup fresh, tasks'[t] = Gone
               PROVE  t \in finished \cup removed \cup swapped'
    BY <1>o DEF LeavesWithCause
  <2>1. t \in Ids
    BY <1>0 DEF OwnedTypes
  <2>2. t \notin fresh
    BY <1>4, <2>1 DEF Pending, Gone
  <2>3. CASE ~(\E i \in DOMAIN b : b[i].id = t)
    <3>1. tasks[t] = Gone
      BY <1>4, <2>1, <2>2, <2>3
    <3> QED
      BY <1>0, <2>2, <3>1 DEF LeavesWithCause
  <2>4. CASE \E i \in DOMAIN b : b[i].id = t
    <3>1. PICK e : e = last(t)
      OBVIOUS
    <3>2. /\ e \in EntryRecs /\ e.res.typ \in Results /\ e.id = t /\ TaskAfter(e) = Gone
          /\ e.res.typ \in {"success", "followup"} => e.id \in finished \cup swapped'
      BY <1>1, <1>2, <1>4, <2>1, <2>2, <2>4, <3>1
    <3>3. e.res.typ \in {"success", "followup"}
      BY <1>0, <3>2, AfterResult
    <3> QED
      BY <3>2, <3>3
  <2> QED
    BY <2>3, <2>4
<1>11. EditKnown'
  <2>1. PICK t0, p : t0 = edit.id /\ p = edit.prev
    OBVIOUS
  <2>2. ASSUME edit.on, ~edit.met
        PROVE  /\ \A w \in Workers : \A i \in DOMAIN batch[w] : batch[w][i].id = t0 => pc[w] = "recv"
               /\ t0 \in Events /\ (p # 0 => t0 \in born) /\ p \in Nat /\ passed[t0] \in Nat
    BY <1>0, <2>1, <2>2, AlarmTimes DEF EditKnown, OwnedTypes
  <2>3. ASSUME edit.on, ~edit.met, NEW w \in Workers, NEW i \in DOMAIN batch[w], batch[w][i].id = t0
        PROVE  pc'[w] = "recv"
    <3>1. pc[w] = "recv" /\ w # v
      BY <2>2, <2>3
    <3> QED
      BY <1>0, <3>1 DEF OwnedTypes
  <2>4. ASSUME edit.on, ~edit.met, p > passed[t0], Kept(t0, p)
        PROVE  Kept(t0, p)'
    <3>1. ~\E i \in DOMAIN b : b[i].id = t0
      BY <1>1, <2>2, <2>4
    <3>2. t0 \in Ids /\ t0 \notin fresh
      BY <2>2, <2>4, OwnerAssumptions
    <3> QED
      BY <1>k, <2>4, <3>1, <3>2
  <2>5. edit'.on => /\ edit.on /\ edit'.id = t0 /\ edit'.prev = p
                    /\ edit'.times = edit.times /\ edit'.next = edit.next
                    /\ ~edit'.met => ~edit.met
    BY <1>o, <2>1
  <2>6. edit'.on /\ ~edit'.met =>
              /\ \A w \in Workers : \A i \in DOMAIN batch'[w] :
                    batch'[w][i].id = t0 => pc'[w] = "recv"
              /\ t0 \notin broken' /\ p > passed'[t0] =>
                    t0 \notin broken /\ p > passed[t0] /\ (Kept(t0, p) => Kept(t0, p)')
    BY <1>o, <2>3, <2>4
  <2>7. born \subseteq born'
    OBVIOUS
  <2> QED
    BY <1>5, <1>6, <2>1, <2>5, <2>6, <2>7, EditKeeps
<1> QED
  BY <1>6, <1>7, <1>8, <1>9, <1>10, <1>11 DEF OwnedInd

LEMMA UpdateOwned ==
    ASSUME OwnedInd, UNCHANGED owners, NEW v \in Workers, Update(v)
    PROVE  OwnedInd'
<1>0. OwnedTypes /\ JobsSorted
  BY DEF OwnedInd
<1>o. UNCHANGED <<alarms, deliverAt, edit, admin, removed, passed, broken>>
  BY DEF owners
<1>u. UNCHANGED <<now, todo, chan, finished>> /\ pc[v] = "write" /\ pc' = [pc EXCEPT ![v] = "unlock"]
  BY DEF Update, node
<1>1. ASSUME NEW f \in Orders(batch[v]), NEW fresh \in SUBSET (Ids \ born),
             Gives(v, f, fresh), UNCHANGED <<batch, events>>
      PROVE  OwnedInd'
  <2>1. PICK b : b = Zipped(batch[v], f)
    OBVIOUS
  <2>2. /\ tasks' = TasksAfter(b, fresh) /\ dueKeys' = KeysAfter(b, fresh)
        /\ born' = born \cup fresh
        /\ swapped' = swapped \cup {b[i].id : i \in {j \in DOMAIN f : f[j] # j}}
    BY <1>1, <2>1 DEF Gives
  <2> QED
    BY <1>1, <1>u, <2>1, <2>2, AppliesOwned
<1>2. CASE /\ UNCHANGED <<tasks, dueKeys, born, swapped>>
           /\ \/ UNCHANGED batch
              \/ batch' = [batch EXCEPT ![v] = [i \in DOMAIN @ |-> [@[i] EXCEPT !.res = Res("lost")]]]
  <2> DEFINE b == batch[v]
             c == [i \in DOMAIN b |-> [b[i] EXCEPT !.res = Res("lost")]]
  <2>1. b \in Seq(EntryRecs) /\ \A i \in DOMAIN b : b[i] \in EntryRecs
    BY <1>0, EntryTypes DEF OwnedTypes
  <2>2. \A i \in DOMAIN b : c[i] \in EntryRecs
    <3> SUFFICES ASSUME NEW i \in DOMAIN b PROVE c[i] \in EntryRecs
      OBVIOUS
    <3>1. b[i] \in EntryRecs /\ Res("lost") \in [typ : Results \cup {"none", "lost"}, at : Nat]
      BY <2>1 DEF Res
    <3>2. c[i] = [b[i] EXCEPT !.res = Res("lost")]
      OBVIOUS
    <3> HIDE DEF b, c
    <3> QED
      BY <3>1, <3>2 DEF EntryRecs
  <2>3. c \in Seq(EntryRecs)
    <3>1. c \in [DOMAIN b -> EntryRecs]
      BY <2>2
    <3> HIDE DEF b, c
    <3> QED
      BY <2>1, <3>1, Mapped
  <2>4. batch' \in [Workers -> Seq(EntryRecs)] /\ pc' \in [Workers -> {"recv", "write", "unlock"}]
    <3>1. PICK S : S = Seq(EntryRecs)
      OBVIOUS
    <3>2. batch \in [Workers -> S] /\ c \in S /\ (UNCHANGED batch \/ batch' = [batch EXCEPT ![v] = c])
      BY <1>0, <1>2, <2>3, <3>1 DEF OwnedTypes
    <3>3. batch' \in [Workers -> S]
      <4> HIDE DEF c
      <4> QED
        BY <3>2
    <3> QED
      BY <1>0, <1>u, <3>1, <3>3 DEF OwnedTypes
  <2>5. OwnedTypes'
    BY <1>0, <1>2, <2>4, <1>u, <1>o DEF OwnedTypes
  <2>6. now' >= now
    BY <1>0, <1>u, AlarmTimes
  <2>7. \A w \in Workers : /\ w # v => pc'[w] = pc[w] /\ batch'[w] = batch[w]
                           /\ pc'[w] = "write" => pc[w] = "write" /\ batch'[w] = batch[w]
                           /\ pc'[w] # "recv" => pc[w] # "recv"
    BY <1>0, <1>u, <1>2 DEF OwnedTypes
  <2>8. \A i \in DOMAIN batch'[v] : i \in DOMAIN batch[v] /\ batch'[v][i].id = batch[v][i].id
    <3>1. \A i \in DOMAIN b : c[i].id = b[i].id
      <4> SUFFICES ASSUME NEW i \in DOMAIN b PROVE c[i].id = b[i].id
        OBVIOUS
      <4>1. b[i] \in EntryRecs /\ c[i] = [b[i] EXCEPT !.res = Res("lost")]
        BY <2>1
      <4> HIDE DEF b, c
      <4> QED
        BY <4>1 DEF EntryRecs
    <3>2. batch'[v] = c \/ batch'[v] = b
      BY <1>0, <1>2 DEF OwnedTypes
    <3>3. DOMAIN c = DOMAIN b
      OBVIOUS
    <3> HIDE DEF c
    <3> QED
      BY <3>1, <3>2, <3>3
  <2>9. JobsSorted'
    <3> SUFFICES ASSUME NEW w \in Workers, NEW i \in DOMAIN batch'[w]
                 PROVE  TypeOf[batch'[w][i].id] = w[2]
      BY <1>0, <1>u DEF JobsSorted
    <3>1. CASE w # v
      BY <1>0, <2>7, <3>1 DEF JobsSorted
    <3>2. CASE w = v
      BY <1>0, <2>8, <3>2 DEF JobsSorted
    <3> QED
      BY <3>1, <3>2
  <2>10. \A w \in Workers : pc'[w] # "recv" =>
           /\ pc[w] # "recv"
           /\ \A i \in DOMAIN batch'[w] :
                 i \in DOMAIN batch[w] /\ batch'[w][i].id = batch[w][i].id
    BY <2>7, <2>8
  <2> QED
    BY <1>2, <2>5, <2>6, <2>7, <2>9, <2>10, <1>u, <1>o, MemoryOnly
<1> QED
  BY <1>1, <1>2, UpdateCases

(* The keys of one task change that is not the alarm of an event, or that  *)
(* is on record as changed by an administrator.                            *)
LEMMA OneTaskWritten ==
    ASSUME OwnedInd, OwnedTypes', NEW t1, t1 \in Events => t1 \in broken',
           UNCHANGED <<now, pc, chan, batch, alarms, edit, passed, finished, swapped>>,
           born \subseteq born', broken \subseteq broken', removed \subseteq removed',
           \A t \in Ids : t # t1 => tasks'[t] = tasks[t] /\ (t \in born' => t \in born),
           \A k \in dueKeys : k.id # t1 => k \in dueKeys',
           t1 \in born' /\ tasks'[t1] = Gone => t1 \in finished \cup removed' \cup swapped
    PROVE  OwnedInd'
<1>0. OwnedTypes /\ JobsSorted /\ ResultsHonest /\ AlarmsBorn /\ AlarmsKept /\ LeavesWithCause
      /\ EditKnown
  BY DEF OwnedInd
<1>1. now' >= now /\ \A t \in Events : passed'[t] >= passed[t]
  BY <1>0, AlarmTimes
<1>2. ResultsHonest'
  <2>1. \A w \in Workers : pc'[w] = "write" => pc[w] = "write" /\ batch'[w] = batch[w]
    OBVIOUS
  <2> QED
    BY <1>0, <1>1, <2>1, SameResults
<1>3. AlarmsBorn' /\ JobsSorted'
  BY <1>0 DEF AlarmsBorn, JobsSorted
<1>k. ASSUME NEW t \in Events, t \notin broken', NEW x, Kept(t, x) PROVE Kept(t, x)'
  <2>1. t # t1 /\ t \in Ids
    BY <1>k, OwnerAssumptions
  <2>2. tasks'[t] = tasks[t]
    BY <2>1
  <2> QED
    BY <1>k, <2>1, <2>2 DEF Kept
<1>4. AlarmsKept'
  <2> SUFFICES ASSUME NEW t \in Events \ broken', NEW x \in Awaited(t)
               PROVE  Kept(t, x)'
    BY DEF AlarmsKept, Awaited
  <2>1. t \notin broken
    OBVIOUS
  <2>2. Kept(t, x)
    BY <1>0, <2>1 DEF AlarmsKept
  <2> QED
    BY <1>k, <2>2
<1>5. LeavesWithCause'
  <2> SUFFICES ASSUME NEW t \in born', tasks'[t] = Gone
               PROVE  t \in finished' \cup removed' \cup swapped'
    BY DEF LeavesWithCause
  <2>1. t \in Ids
    BY DEF OwnedTypes
  <2> QED
    BY <1>0, <2>1 DEF LeavesWithCause
<1>6. EditKnown'
  <2>1. PICK t0, p : t0 = edit.id /\ p = edit.prev
    OBVIOUS
  <2>2. edit.on => t0 \in Events
    BY <1>0, <2>1 DEF OwnedTypes
  <2>3. edit'.on => /\ edit.on /\ edit'.id = t0 /\ edit'.prev = p
                    /\ edit'.times = edit.times /\ edit'.next = edit.next
                    /\ ~edit'.met => ~edit.met
    BY <2>1
  <2>4. edit'.on /\ ~edit'.met =>
              /\ \A w \in Workers : \A i \in DOMAIN batch'[w] :
                    batch'[w][i].id = t0 => pc'[w] = "recv"
              /\ t0 \notin broken' /\ p > passed'[t0] =>
                    t0 \notin broken /\ p > passed[t0] /\ (Kept(t0, p) => Kept(t0, p)')
    <3> SUFFICES ASSUME edit.on, ~edit.met
                 PROVE  /\ \A w \in Workers : \A i \in DOMAIN batch[w] :
                              batch[w][i].id = t0 => pc[w] = "recv"
                        /\ t0 \notin broken' =>
                              t0 \notin broken /\ (Kept(t0, p) => Kept(t0, p)')
      OBVIOUS
    <3>1. \A w \in Workers : \A i \in DOMAIN batch[w] : batch[w][i].id = t0 => pc[w] = "recv"
      BY <1>0, <2>1 DEF EditKnown
    <3> QED
      BY <1>k, <2>2, <3>1
  <2> QED
    BY <1>1, <2>1, <2>3, <2>4, EditKeeps
<1> QED
  BY <1>2, <1>3, <1>4, <1>5, <1>6 DEF OwnedInd

(* The keys of a task after delete and set of its Due key. *)
LEMMA DueKeyTypes ==
    ASSUME OwnedTypes, NEW t \in Ids, NEW due \in Nat, NEW old, NEW typ \in {"task", "object"}
    PROVE  LET type == [id : Ids, due : Nat, typ : {"task", "object"}] IN
           /\ ClearDue(dueKeys, t, old) \subseteq type
           /\ SetDue(dueKeys, t, due, typ) \subseteq type
           /\ SetDue(ClearDue(dueKeys, t, old), t, due, typ) \subseteq type
           /\ \A k \in dueKeys : k.id # t => /\ k \in ClearDue(dueKeys, t, old)
                                             /\ k \in SetDue(dueKeys, t, due, typ)
                                             /\ k \in SetDue(ClearDue(dueKeys, t, old), t, due, typ)
<1>1. dueKeys \subseteq [id : Ids, due : Nat, typ : {"task", "object"}]
  BY DEF OwnedTypes
<1> QED
  BY <1>1 DEF ClearDue, SetDue

LEMMA ScheduleOwned ==
    ASSUME OwnedInd, NEW t0 \in Ids \ Events, NEW due \in Nat, Schedule(t0, due),
           UNCHANGED <<alarms, edit, admin, removed, passed, broken>>, deliverAt' \in [Reports -> Nat]
    PROVE  OwnedInd'
<1>0. OwnedTypes
  BY DEF OwnedInd
<1>u. UNCHANGED <<now, todo, chan, pc, batch, finished, swapped>>
  BY DEF Schedule, node, worker
<1>1. /\ born' = born \cup {t0}
      /\ tasks' = [tasks EXCEPT ![t0] = Pending(due)]
      /\ dueKeys' = SetDue(dueKeys, t0, due, "task")
  BY DEF Schedule
<1>2. Pending(due) \in Recs /\ Pending(due) # Gone
  BY <1>0, ConstantsAreNat DEF Pending, Gone, Recs, OwnedTypes
<1>3. tasks' \in [Ids -> Recs] /\ tasks'[t0] = Pending(due) /\ \A t \in Ids : t # t0 => tasks'[t] = tasks[t]
  BY <1>0, <1>1, <1>2 DEF OwnedTypes
<1>4. /\ dueKeys' \subseteq [id : Ids, due : Nat, typ : {"task", "object"}]
      /\ \A k \in dueKeys : k.id # t0 => k \in dueKeys'
  BY <1>0, <1>1, DueKeyTypes
<1>5. OwnedTypes'
  BY <1>0, <1>1, <1>3, <1>4, <1>u DEF OwnedTypes
<1> QED
  BY <1>1, <1>2, <1>3, <1>4, <1>5, <1>u, OneTaskWritten

(* A report gets a task, moves or is destroyed. *)
LEMMA ReportOwned ==
    ASSUME OwnedInd, NEW t0 \in Reports, NEW at \in Nat,
           CreateReport(t0, at) \/ RescheduleReport(t0, at) \/ DestroyReport(t0)
    PROVE  OwnedInd'
<1>0. OwnedTypes /\ LeavesWithCause
  BY DEF OwnedInd
<1>1. t0 \in Ids \ Events
  BY OwnerAssumptions
<1>2. deliverAt' \in [Reports -> Nat]
  <2>1. \E d \in Nat : deliverAt' = [deliverAt EXCEPT ![t0] = d]
    BY DEF CreateReport, RescheduleReport, DestroyReport
  <2> QED
    BY <1>0, <2>1 DEF OwnedTypes
<1>3. CASE CreateReport(t0, at)
  BY <1>1, <1>2, <1>3, ScheduleOwned DEF CreateReport
<1>4. CASE RescheduleReport(t0, at)
  <2>1. /\ UNCHANGED <<now, tasks, todo, chan, pc, batch, born, finished, swapped, alarms,
                      edit, admin, removed, passed, broken>>
        /\ dueKeys' = SetDue(ClearDue(dueKeys, t0, deliverAt[t0]), t0, at, "object")
    BY <1>4 DEF RescheduleReport, node, worker, history
  <2>2. /\ dueKeys' \subseteq [id : Ids, due : Nat, typ : {"task", "object"}]
        /\ \A k \in dueKeys : k.id # t0 => k \in dueKeys'
    BY <1>0, <1>1, <2>1, DueKeyTypes
  <2>3. OwnedTypes'
    BY <1>0, <1>2, <2>1, <2>2 DEF OwnedTypes
  <2>4. t0 \in born' /\ tasks'[t0] = Gone => t0 \in finished \cup removed' \cup swapped
    BY <1>0, <2>1 DEF LeavesWithCause
  <2> QED
    BY <1>1, <2>1, <2>2, <2>3, <2>4, OneTaskWritten
<1>5. CASE DestroyReport(t0)
  <2>1. /\ UNCHANGED <<now, todo, chan, pc, batch, born, finished, swapped, alarms,
                      edit, admin, passed, broken>>
        /\ tasks' = [tasks EXCEPT ![t0] = Gone]
        /\ dueKeys' = ClearDue(dueKeys, t0, deliverAt[t0])
        /\ removed' = removed \cup {t0}
    BY <1>5 DEF DestroyReport, node, worker, history
  <2>2. /\ dueKeys' \subseteq [id : Ids, due : Nat, typ : {"task", "object"}]
        /\ \A k \in dueKeys : k.id # t0 => k \in dueKeys'
    BY <1>0, <1>1, <2>1, DueKeyTypes
  <2>3. tasks' \in [Ids -> Recs] /\ \A t \in Ids : t # t0 => tasks'[t] = tasks[t]
    BY <1>0, <2>1 DEF OwnedTypes, Gone, Recs
  <2>4. OwnedTypes'
    BY <1>0, <1>2, <2>1, <2>2, <2>3 DEF OwnedTypes
  <2> QED
    BY <1>1, <2>1, <2>2, <2>3, <2>4, OneTaskWritten
<1> QED
  BY <1>3, <1>4, <1>5

(* Task/set writes its copy, or takes the task out. *)
LEMMA AdminWritesOwned ==
    ASSUME OwnedInd, NEW due \in {now, admin.task.due}, AdminUpdate(due) \/ AdminDestroy
    PROVE  OwnedInd'
<1> DEFINE t0 == admin.id
<1>0. OwnedTypes
  BY DEF OwnedInd
<1>1. t0 \in Ids /\ admin.task \in Recs /\ due \in Nat
  <2>1. admin.op # "idle"
    BY DEF AdminUpdate, AdminDestroy
  <2>2. t0 \in Ids /\ admin.task \in Recs
    BY <1>0, <2>1 DEF OwnedTypes
  <2> QED
    BY <1>0, <2>2, AlarmTimes DEF Recs
<1>2. /\ UNCHANGED <<now, todo, chan, pc, batch, born, finished, swapped, alarms,
                    deliverAt, edit, passed>>
      /\ broken' = broken \cup {t0}
      /\ admin' = [admin EXCEPT !.op = "unlock"]
  BY DEF AdminUpdate, AdminDestroy, node, worker, history
<1>3. admin' \in [op : {"idle", "update", "destroy", "unlock"}, id : Ids \cup {0},
                  task : Recs, locks : BOOLEAN] /\ admin'.id = t0
  BY <1>0, <1>2 DEF OwnedTypes
<1>4. CASE AdminUpdate(due)
  <2> DEFINE copy == [admin.task EXCEPT !.status = "pending", !.due = due]
  <2>1. copy \in Recs /\ copy # Gone
    BY <1>1 DEF Recs, Gone
  <2>2. /\ tasks' = [tasks EXCEPT ![t0] = copy]
        /\ dueKeys' = IF due = admin.task.due THEN dueKeys
                      ELSE SetDue(ClearDue(dueKeys, t0, admin.task.due), t0, due, "task")
        /\ UNCHANGED removed
    BY <1>4 DEF AdminUpdate
  <2> HIDE DEF copy
  <2>3. /\ tasks' \in [Ids -> Recs] /\ tasks'[t0] = copy
        /\ \A t \in Ids : t # t0 => tasks'[t] = tasks[t]
    BY <1>0, <1>1, <2>1, <2>2 DEF OwnedTypes
  <2>4. /\ dueKeys' \subseteq [id : Ids, due : Nat, typ : {"task", "object"}]
        /\ \A k \in dueKeys : k.id # t0 => k \in dueKeys'
    <3>1. CASE due = admin.task.due
      BY <1>0, <2>2, <3>1 DEF OwnedTypes
    <3>2. CASE due # admin.task.due
      <4>1. dueKeys' = SetDue(ClearDue(dueKeys, t0, admin.task.due), t0, due, "task")
        BY <2>2, <3>2
      <4> HIDE DEF t0
      <4> QED
        BY <1>0, <1>1, <4>1, DueKeyTypes
    <3> QED
      BY <3>1, <3>2
  <2>5. OwnedTypes'
    BY <1>0, <1>1, <1>2, <1>3, <2>3, <2>4 DEF OwnedTypes
  <2> HIDE DEF t0
  <2> QED
    BY <1>2, <2>1, <2>2, <2>3, <2>4, <2>5, OneTaskWritten
<1>5. CASE AdminDestroy
  <2>1. /\ tasks' = [tasks EXCEPT ![t0] = Gone]
        /\ dueKeys' = ClearDue(dueKeys, t0, admin.task.due)
        /\ removed' = removed \cup {t0}
    BY <1>5 DEF AdminDestroy
  <2>2. tasks' \in [Ids -> Recs] /\ \A t \in Ids : t # t0 => tasks'[t] = tasks[t]
    BY <1>0, <1>1, <2>1 DEF OwnedTypes, Gone, Recs
  <2>3. /\ dueKeys' \subseteq [id : Ids, due : Nat, typ : {"task", "object"}]
        /\ \A k \in dueKeys : k.id # t0 => k \in dueKeys'
    <3> HIDE DEF t0
    <3> QED
      BY <1>0, <1>1, <2>1, DueKeyTypes
  <2>4. OwnedTypes'
    BY <1>0, <1>1, <1>2, <1>3, <2>2, <2>3 DEF OwnedTypes
  <2> HIDE DEF t0
  <2> QED
    BY <1>2, <2>1, <2>2, <2>3, <2>4, OneTaskWritten
<1> QED
  BY <1>4, <1>5

(* The steps of Task/set that write no task. *)
LEMMA AdminOtherOwned ==
    ASSUME OwnedInd,
           \/ \E op \in AdminOps, t \in Ids : AdminRead(op, t)
           \/ AdminLock \/ AdminFails \/ AdminUnlock
    PROVE  OwnedInd'
<1>0. OwnedTypes /\ JobsSorted
  BY DEF OwnedInd
<1>u. UNCHANGED <<now, tasks, dueKeys, todo, chan, pc, batch, born, finished, swapped,
                  alarms, deliverAt, edit, removed, passed, broken>>
  BY DEF AdminRead, AdminLock, AdminFails, AdminUnlock, store, node, worker, history
<1>1. \/ admin' = Idle
      \/ \E op \in AdminOps, t \in Ids :
            admin' = [op |-> op, id |-> t, task |-> tasks[t], locks |-> FALSE]
      \/ admin' = [admin EXCEPT !.locks = TRUE]
  BY DEF AdminRead, AdminLock, AdminFails, AdminUnlock
<1>2. /\ admin' \in [op : {"idle", "update", "destroy", "unlock"}, id : Ids \cup {0},
                     task : Recs, locks : BOOLEAN]
      /\ admin'.op # "idle" => admin'.id \in Ids
  <2>1. CASE admin' = Idle
    BY <2>1 DEF Idle, Gone, Recs
  <2>2. CASE \E op \in AdminOps, t \in Ids :
                admin' = [op |-> op, id |-> t, task |-> tasks[t], locks |-> FALSE]
    BY <1>0, <2>2, OwnerAssumptions DEF OwnedTypes
  <2>3. CASE admin' = [admin EXCEPT !.locks = TRUE]
    BY <1>0, <2>3 DEF OwnedTypes
  <2> QED
    BY <1>1, <2>1, <2>2, <2>3
<1>3. OwnedTypes' /\ JobsSorted'
  BY <1>0, <1>2, <1>u DEF OwnedTypes, JobsSorted
<1>4. now' >= now
  BY <1>0, <1>u, AlarmTimes
<1> QED
  BY <1>3, <1>4, <1>u, MemoryOnly

(* A request reads an event, and what it had for its next alarm.           *)
LEMMA EditReadOwned ==
    ASSUME OwnedInd, NEW t0 \in Events, NEW times \in Alarms, EditRead(t0, times)
    PROVE  OwnedInd'
<1> DEFINE prev == NextAlarm(alarms[t0], now)
           next == NextAlarm(times, now)
<1>0. OwnedTypes /\ JobsSorted /\ ResultsHonest /\ AlarmsBorn /\ AlarmsKept
  BY DEF OwnedInd
<1>1. UNCHANGED <<now, tasks, dueKeys, todo, chan, pc, batch, born, finished, swapped,
                  alarms, deliverAt, admin, removed, passed, broken>>
  BY DEF EditRead, store, node, worker, history
<1>2. edit' = [on |-> TRUE, id |-> t0, times |-> times, prev |-> prev, next |-> next,
               met |-> JobsOf(t0) # {}]
  BY DEF EditRead
<1>3. now \in Nat /\ alarms[t0] \in SUBSET Nat /\ times \in SUBSET Nat /\ passed[t0] \in Nat
  BY <1>0, AlarmTimes, ConstantsAreNat
<1>4. prev \in Nat /\ (prev # 0 => prev \in alarms[t0] /\ prev > now)
  BY <1>3, NextAlarmIsFirst
<1>5. /\ next \in Nat
      /\ \A x \in times : x > now => next # 0 /\ next <= x
  BY <1>3, NextAlarmIsFirst
<1> HIDE DEF prev, next
<1>6. PICK m \in BOOLEAN : m = (JobsOf(t0) # {})
  OBVIOUS
<1>7. edit' = [on |-> TRUE, id |-> t0, times |-> times, prev |-> prev, next |-> next, met |-> m]
  BY <1>2, <1>6
<1>8. /\ edit' \in [on : BOOLEAN, id : Ids \cup {0}, times : Alarms \cup {{}}, prev : Nat,
                    next : Nat, met : BOOLEAN]
      /\ edit'.id = t0 /\ edit'.times = times /\ edit'.prev = prev /\ edit'.next = next
      /\ edit'.met = m
  <2>1. t0 \in Ids
    BY OwnerAssumptions
  <2> QED
    BY <1>4, <1>5, <1>7, <2>1
<1>9. OwnedTypes' /\ JobsSorted'
  BY <1>0, <1>1, <1>8 DEF OwnedTypes, JobsSorted
<1>10. now' >= now /\ \A t \in Events : passed'[t] >= passed[t]
  BY <1>0, <1>1, AlarmTimes
<1>11. ResultsHonest'
  BY <1>0, <1>1, <1>9, <1>10, SameResults
<1>12. EditKnown'
  <2>1. prev # 0 => t0 \in born'
    BY <1>0, <1>1, <1>4 DEF AlarmsBorn
  <2>2. ASSUME ~edit'.met
        PROVE  \A w \in Workers : \A i \in DOMAIN batch'[w] : batch'[w][i].id # t0
    <3>1. JobsOf(t0) = {}
      BY <1>6, <1>8, <2>2
    <3> QED
      BY <1>1, <3>1, NoJobNoResult
  <2>3. ASSUME t0 \notin broken', prev > passed'[t0]
        PROVE  Kept(edit.id, edit.prev)'
    <3>0. PICK p : p = prev
      OBVIOUS
    <3>1. p \in Awaited(t0)
      BY <1>1, <1>3, <1>4, <2>3, <3>0 DEF Awaited
    <3>2. Kept(t0, p)
      BY <1>0, <1>1, <2>3, <3>1 DEF AlarmsKept
    <3> QED
      BY <1>1, <1>8, <3>0, <3>2 DEF Kept
  <2>4. \A x \in edit'.times : x > now' => edit'.next # 0 /\ edit'.next <= x
    BY <1>1, <1>5, <1>8
  <2> QED
    BY <1>8, <2>1, <2>2, <2>3, <2>4 DEF EditKnown
<1> QED
  BY <1>1, <1>9, <1>10, <1>11, <1>12, Quiet

(* The request ends without a write. *)
LEMMA EditFailsOwned ==
    ASSUME OwnedInd, EditFails
    PROVE  OwnedInd'
<1>0. OwnedTypes /\ JobsSorted
  BY DEF OwnedInd
<1>u. /\ UNCHANGED <<now, tasks, dueKeys, todo, chan, pc, batch, born, finished, swapped,
                     alarms, deliverAt, admin, removed, passed, broken>>
      /\ edit' = NoEdit
  BY DEF EditFails, store, node, worker, history
<1>1. OwnedTypes' /\ JobsSorted'
  BY <1>0, <1>u DEF OwnedTypes, JobsSorted, NoEdit
<1>2. now' >= now
  BY <1>0, <1>u, AlarmTimes
<1> QED
  BY <1>1, <1>2, <1>u, MemoryOnly

(* The request commits: the task follows the first alarm that was to come  *)
(* when the request read the event, before and after the edit.             *)
LEMMA EditCommitOwned ==
    ASSUME OwnedInd, EditCommit
    PROVE  OwnedInd'
<1>p. PICK t0, times, prev, next : t0 = edit.id /\ times = edit.times /\ prev = edit.prev
                                   /\ next = edit.next
  OBVIOUS
<1> DEFINE same == prev = next
           loses == edit.met \/ JobsOf(t0) # {} \/ (same /\ 0 < prev /\ prev <= passed[t0])
<1>0. OwnedTypes /\ JobsSorted /\ ResultsHonest /\ AlarmsBorn /\ AlarmsKept /\ EditKnown
      /\ LeavesWithCause
  BY DEF OwnedInd
<1>1. /\ UNCHANGED <<now, todo, chan, pc, batch, finished, swapped, deliverAt, admin>>
      /\ edit.on /\ edit' = NoEdit
      /\ alarms' = [alarms EXCEPT ![t0] = times]
      /\ born' = IF next # 0 THEN born \cup {t0} ELSE born
      /\ removed' = IF prev # 0 /\ next = 0 THEN removed \cup {t0} ELSE removed
      /\ passed' = IF same THEN passed ELSE [passed EXCEPT ![t0] = 0]
      /\ loses => broken' = broken \cup {t0}
      /\ ~loses /\ ~same => broken' = broken \ {t0}
      /\ ~loses /\ same => broken' = broken
  BY <1>p DEF EditCommit, node, worker
<1>2. IF same THEN UNCHANGED <<tasks, dueKeys>> ELSE Replaced(t0, prev, next)
  BY <1>p DEF EditCommit
<1>3. /\ times \in Alarms \cup {{}} /\ times \in SUBSET Nat /\ t0 \in Events /\ t0 \in Ids
      /\ prev \in Nat /\ next \in Nat /\ passed[t0] \in Nat /\ now \in Nat
  BY <1>0, <1>1, <1>p, AlarmTimes, OwnerAssumptions DEF OwnedTypes
<1>4. /\ \A x \in times : x > now => next # 0 /\ next <= x
      /\ prev # 0 => t0 \in born
      /\ ~edit.met /\ t0 \notin broken /\ prev > passed[t0] => Kept(t0, prev)
  BY <1>0, <1>1, <1>p DEF EditKnown
<1>l. \A t \in Events \ broken' : /\ t # t0 => t \notin broken
                                  /\ t = t0 => ~loses /\ (same => t \notin broken)
  BY <1>1
<1>m. ~loses => ~edit.met /\ JobsOf(t0) = {} /\ (same /\ prev # 0 => prev > passed[t0])
  BY <1>3
<1>j. loses \/ JobsOf(t0) = {}
  OBVIOUS
<1> HIDE DEF loses
<1>5. /\ alarms' \in [Events -> Alarms \cup {{}}] /\ alarms'[t0] = times
      /\ \A t \in Events : t # t0 => alarms'[t] = alarms[t]
  BY <1>0, <1>1, <1>3 DEF OwnedTypes
<1>6. /\ passed' \in [Events -> Nat]
      /\ \A t \in Events : passed'[t] <= now + MinInterval /\ (t # t0 => passed'[t] = passed[t])
  BY <1>0, <1>1, <1>3, ConstantsAreNat DEF OwnedTypes
<1>7. now' >= now /\ born' \subseteq Ids /\ born \subseteq born' /\ removed \subseteq removed'
  BY <1>0, <1>1, <1>3 DEF OwnedTypes
<1>8. \/ same /\ UNCHANGED <<tasks, dueKeys>>
      \/ /\ ~same /\ next # 0
         /\ tasks' = [tasks EXCEPT ![t0] = Pending(next)]
         /\ \E keys \in {dueKeys, ClearDue(dueKeys, t0, prev)} : dueKeys' = SetDue(keys, t0, next, "task")
      \/ /\ prev # 0 /\ next = 0
         /\ tasks' = [tasks EXCEPT ![t0] = Gone]
         /\ dueKeys' = ClearDue(dueKeys, t0, prev)
  <2>1. CASE same
    BY <1>2, <2>1
  <2>2. CASE ~same /\ next # 0
    BY <1>2, <2>2 DEF Replaced
  <2>3. CASE ~same /\ next = 0
    BY <1>2, <2>3 DEF Replaced
  <2> QED
    BY <2>1, <2>2, <2>3
<1>9. Pending(next) \in Recs /\ Pending(next) # Gone /\ Gone \in Recs
  BY <1>3 DEF Pending, Gone, Recs
<1>10. /\ tasks' \in [Ids -> Recs]
       /\ \A t \in Ids : t # t0 => tasks'[t] = tasks[t]
  <2>1. tasks \in [Ids -> Recs]
    BY <1>0 DEF OwnedTypes
  <2>2. tasks' = tasks \/ \E r \in Recs : tasks' = [tasks EXCEPT ![t0] = r]
    BY <1>8, <1>9
  <2> QED
    BY <2>1, <2>2
<1>11. /\ dueKeys' \subseteq [id : Ids, due : Nat, typ : {"task", "object"}]
       /\ \A k \in dueKeys : k.id # t0 => k \in dueKeys'
  <2>1. CASE UNCHANGED <<tasks, dueKeys>>
    BY <1>0, <2>1 DEF OwnedTypes
  <2>2. CASE \E keys \in {dueKeys, ClearDue(dueKeys, t0, prev)} : dueKeys' = SetDue(keys, t0, next, "task")
    BY <1>0, <1>3, <2>2, DueKeyTypes
  <2>3. CASE dueKeys' = ClearDue(dueKeys, t0, prev)
    BY <1>0, <1>3, <2>3, DueKeyTypes
  <2> QED
    BY <1>8, <2>1, <2>2, <2>3
<1>12. OwnedTypes' /\ JobsSorted' /\ EditKnown'
  <2>1. edit' \in [on : BOOLEAN, id : Ids \cup {0}, times : Alarms \cup {{}}, prev : Nat,
                   next : Nat, met : BOOLEAN] /\ ~edit'.on
    BY <1>1 DEF NoEdit
  <2>2. OwnedTypes'
    BY <1>0, <1>1, <1>5, <1>6, <1>7, <1>10, <1>11, <2>1 DEF OwnedTypes
  <2> QED
    BY <1>0, <1>1, <2>1, <2>2 DEF JobsSorted, EditKnown
<1>13. AlarmsBorn'
  <2> SUFFICES ASSUME NEW t \in Events, NEW x \in alarms'[t], x > now PROVE t \in born'
    BY <1>1 DEF AlarmsBorn
  <2>1. CASE t # t0
    BY <1>0, <1>5, <1>7, <2>1 DEF AlarmsBorn
  <2>2. CASE t = t0
    BY <1>1, <1>4, <1>5, <2>2
  <2> QED
    BY <2>1, <2>2
<1>a. ASSUME NEW t \in Events, t # t0 PROVE Awaited(t)' \subseteq Awaited(t)
  BY <1>1, <1>5, <1>6, <1>a DEF Awaited
<1>14. ResultsHonest'
  <2> SUFFICES ASSUME NEW w \in Workers, pc[w] = "write", NEW i \in DOMAIN batch[w],
                      batch[w][i].id \notin Silent
               PROVE  Honest(batch[w][i])'
    BY <1>1 DEF ResultsHonest
  <2>1. PICK e : e = batch[w][i] /\ e = batch'[w][i]
    BY <1>1
  <2>2. Honest(e)
    BY <1>0, <2>1 DEF ResultsHonest
  <2>3. e.id \in Events \ broken' => e.id # t0
    <3> SUFFICES ASSUME e.id = t0, t0 \in Events \ broken' PROVE FALSE
      OBVIOUS
    <3>1. JobsOf(t0) = {}
      BY <1>j, <1>l
    <3> QED
      BY <2>1, <3>1, NoJobNoResult
  <2>4. e.id \in Events \ broken' => e.id \notin broken /\ Awaited(e.id)' \subseteq Awaited(e.id)
    BY <1>a, <1>l, <2>3
  <2>5. Honest(e)'
    BY <1>1, <2>2, <2>4, HonestKeeps
  <2> QED
    BY <2>1, <2>5 DEF Honest, Credible
<1>15. AlarmsKept'
  <2> SUFFICES ASSUME NEW t \in Events \ broken', NEW x \in Awaited(t)'
               PROVE  Kept(t, x)'
    BY DEF AlarmsKept
  <2>0. t \in Ids
    BY OwnerAssumptions
  <2>1. CASE t # t0
    <3>1. Kept(t, x) /\ tasks'[t] = tasks[t]
      BY <1>0, <1>10, <1>a, <1>l, <2>0, <2>1 DEF AlarmsKept
    <3> QED
      BY <1>11, <2>1, <3>1 DEF Kept
  <2>2. CASE t = t0
    <3>1. next # 0 /\ next <= x /\ x \in Nat /\ ~loses
      BY <1>1, <1>3, <1>4, <1>5, <1>l, <2>2 DEF Awaited
    <3>2. CASE same /\ UNCHANGED <<tasks, dueKeys>>
      <4>1. Kept(t0, next)
        BY <1>4, <1>l, <1>m, <2>2, <3>1, <3>2
      <4>2. \A k \in dueKeys : k.due \in Nat
        BY <1>0 DEF OwnedTypes
      <4>3. \A k \in dueKeys : k.due <= next => k.due <= x
        BY <1>3, <3>1, <4>2
      <4>4. Kept(t0, x)
        BY <4>1, <4>3 DEF Kept
      <4> QED
        BY <2>2, <3>2, <4>4 DEF Kept
    <3>3. CASE /\ tasks' = [tasks EXCEPT ![t0] = Pending(next)]
               /\ \E keys \in {dueKeys, ClearDue(dueKeys, t0, prev)} : dueKeys' = SetDue(keys, t0, next, "task")
      <4>1. PICK k : k = [id |-> t0, due |-> next, typ |-> "task"]
        OBVIOUS
      <4>2. k \in dueKeys' /\ k.id = t0 /\ k.due = next
        BY <3>3, <4>1 DEF SetDue
      <4>3. tasks'[t0] # Gone
        BY <1>0, <1>3, <1>9, <3>3 DEF OwnedTypes
      <4> QED
        BY <2>2, <3>1, <4>2, <4>3 DEF Kept
    <3> QED
      BY <1>8, <3>1, <3>2, <3>3
  <2> QED
    BY <2>1, <2>2
<1>16. LeavesWithCause'
  <2> SUFFICES ASSUME NEW t \in born', tasks'[t] = Gone
               PROVE  t \in finished' \cup removed' \cup swapped'
    BY DEF LeavesWithCause
  <2>0. t \in Ids
    BY <1>7
  <2>1. CASE t # t0
    BY <1>0, <1>1, <1>7, <1>10, <2>0, <2>1 DEF LeavesWithCause
  <2>2. CASE t = t0
    <3>1. CASE same /\ UNCHANGED <<tasks, dueKeys>>
      <4>1. t0 \in born
        BY <1>1, <1>4, <2>2, <3>1
      <4> QED
        BY <1>0, <1>1, <1>7, <2>2, <3>1, <4>1 DEF LeavesWithCause
    <3>2. CASE tasks' = [tasks EXCEPT ![t0] = Pending(next)]
      BY <1>0, <1>9, <2>0, <2>2, <3>2 DEF OwnedTypes
    <3>3. CASE prev # 0 /\ next = 0
      BY <1>1, <2>2, <3>3
    <3> QED
      BY <1>8, <3>1, <3>2, <3>3
  <2> QED
    BY <2>1, <2>2
<1> QED
  BY <1>12, <1>13, <1>14, <1>15, <1>16 DEF OwnedInd

-----------------------------------------------------------------------------
LEMMA OwnedNextInd == OwnedInd /\ [OwnedNext]_ownedVars => OwnedInd'
<1> SUFFICES ASSUME OwnedInd, [OwnedNext]_ownedVars PROVE OwnedInd'
  OBVIOUS
<1>0. OwnedTypes
  BY DEF OwnedInd
<1>1. CASE UNCHANGED ownedVars
  <2>1. UNCHANGED <<now, tasks, dueKeys, todo, chan, pc, batch, born, finished, swapped,
                    alarms, deliverAt, edit, admin, removed, passed, broken>>
    BY <1>1 DEF ownedVars
  <2>2. todo' \in [Nodes -> SUBSET JobRecs]
    BY <1>0, <2>1 DEF OwnedTypes
  <2> QED
    BY <2>1, <2>2, SameWorkers DEF owners
<1>2. CASE Manage /\ UNCHANGED owners
  <2>1. ASSUME NEW n \in Nodes, Scan(n) \/ ScanFails(n) PROVE OwnedInd'
    BY <1>2, <2>1, ScanOwned
  <2>2. ASSUME NEW n \in Nodes, DispatchFails(n) PROVE OwnedInd'
    <3>1. CASE Ids # {}
      BY <1>2, <2>2, <3>1, OtherMemory
    <3>2. CASE Ids = {}
      <4>1. todo[n] = {}
        BY <1>0, <3>2 DEF OwnedTypes, JobRecs
      <4> QED
        BY <2>2, <4>1 DEF DispatchFails
    <3> QED
      BY <3>1, <3>2
  <2>3. ASSUME NEW n \in Nodes, Crash(n) PROVE OwnedInd'
    BY <1>2, <2>3, CrashOwned
  <2>4. ASSUME NEW v \in Workers, Recv(v) \/ Update(v) \/ Unlock(v) PROVE OwnedInd'
    BY <1>2, <2>4, RecvOwned, UpdateOwned, UnlockOwned
  <2>5. ASSUME NEW t \in Ids, LockExpires(t) PROVE OwnedInd'
    <3>1. UNCHANGED <<now, tasks, dueKeys, todo, chan, pc, batch, born, finished, swapped>>
      BY <2>5 DEF LockExpires, node, worker, history
    <3>2. todo' \in [Nodes -> SUBSET JobRecs]
      BY <1>0, <3>1 DEF OwnedTypes
    <3> QED
      BY <1>2, <3>1, <3>2, SameWorkers
  <2>6. ASSUME NEW n \in Nodes, NEW t \in Ids, Dispatch(n, t) \/ EntryExpires(n, t) PROVE OwnedInd'
    BY <1>2, <2>6, DispatchOwned, OtherMemory
  <2>7. CASE Tick
    BY <1>2, <2>7, TickOwned
  <2> QED
    BY <1>2, <2>1, <2>2, <2>3, <2>4, <2>5, <2>6, <2>7 DEF Manage
<1>3. ASSUME NEW t \in Ids \ Events, Schedule(t, now), UNCHANGED owners PROVE OwnedInd'
  <2>1. now \in Nat /\ deliverAt \in [Reports -> Nat]
    BY <1>0, ConstantsAreNat DEF OwnedTypes
  <2>2. UNCHANGED <<alarms, deliverAt, edit, admin, removed, passed, broken>>
    BY <1>3 DEF owners
  <2> QED
    BY <1>3, <2>1, <2>2, ScheduleOwned
<1>4. ASSUME NEW t \in Events, NEW times \in Alarms, EditRead(t, times) PROVE OwnedInd'
  BY <1>4, EditReadOwned
<1>a. CASE EditCommit \/ EditFails
  BY <1>a, EditCommitOwned, EditFailsOwned
<1>b. ASSUME NEW v \in Workers, RunAlarms(v) PROVE OwnedInd'
  BY <1>b, RunOwned
<1>5. ASSUME NEW t \in Reports, NEW at \in (now + 1)..MaxNow,
             CreateReport(t, at) \/ RescheduleReport(t, at)
      PROVE  OwnedInd'
  <2>1. at \in Nat
    BY <1>0, ConstantsAreNat DEF OwnedTypes
  <2> QED
    BY <1>5, <2>1, ReportOwned
<1>6. ASSUME NEW t \in Reports, DestroyReport(t) PROVE OwnedInd'
  <2>1. 0 \in Nat
    OBVIOUS
  <2> QED
    BY <1>6, <2>1, ReportOwned
<1>7. ASSUME NEW op \in AdminOps, NEW t \in Ids, AdminRead(op, t) PROVE OwnedInd'
  BY <1>7, AdminOtherOwned
<1>8. ASSUME NEW due \in {now, admin.task.due}, AdminUpdate(due) PROVE OwnedInd'
  BY <1>8, AdminWritesOwned
<1>9. CASE AdminDestroy
  BY <1>9, AdminWritesOwned
<1>10. CASE AdminLock \/ AdminFails \/ AdminUnlock
  BY <1>10, AdminOtherOwned
<1> QED
  BY <1>1, <1>2, <1>3, <1>4, <1>5, <1>6, <1>7, <1>8, <1>9, <1>10,
     <1>a, <1>b DEF OwnedNext

(* LeavesWithCause: whatever users and administrators do while tasks are   *)
(* worked on, a task leaves the store only when its work succeeded,        *)
(* somebody took it out or update_tasks gave it the result of another task *)
(* (update_tasks, delete_task, Task/set).                                  *)
THEOREM TasksLeaveWithCause == OwnedSpec => []LeavesWithCause
<1>1. OwnedInd => LeavesWithCause
  BY DEF OwnedInd
<1> QED
  BY OwnedInitInd, OwnedNextInd, <1>1, PTL DEF OwnedSpec

(* AlarmLostNeedsCause: the next alarm of an event that build_next_alarm   *)
(* did not pass over is only lost when the event was edited while an alarm *)
(* was sent or left its next alarm alone after that was passed over, the   *)
(* work gave up, an administrator changed the task, or an alarm failed for *)
(* good.                                                                   *)
THEOREM AlarmsAreKept == OwnedSpec => []AlarmLostNeedsCause
<1>1. ASSUME OwnedInd PROVE AlarmLostNeedsCause
  <2> SUFFICES ASSUME NEW t \in Events \ broken, NEW after,
                      after = IF passed[t] > now THEN passed[t] ELSE now,
                      NextAlarm(alarms[t], after) # 0
               PROVE  Kept(t, NextAlarm(alarms[t], after))
    BY DEF AlarmLostNeedsCause
  <2>1. now \in Nat /\ passed[t] \in Nat /\ alarms[t] \in SUBSET Nat
    BY <1>1, AlarmTimes DEF OwnedInd
  <2>2. after \in Nat
    BY <2>1
  <2>3. NextAlarm(alarms[t], after) \in alarms[t] /\ NextAlarm(alarms[t], after) > after
    BY <2>1, <2>2, NextAlarmIsFirst
  <2>4. PICK x : x = NextAlarm(alarms[t], after)
    OBVIOUS
  <2>5. x \in Awaited(t)
    BY <2>1, <2>3, <2>4 DEF Awaited
  <2> QED
    BY <1>1, <2>4, <2>5 DEF OwnedInd, AlarmsKept
<1> QED
  BY OwnedInitInd, OwnedNextInd, <1>1, PTL DEF OwnedSpec

=============================================================================
