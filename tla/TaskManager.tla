----------------------------- MODULE TaskManager -----------------------------
(***************************************************************************)
(* The background tasks of the server: the two keys each one has in the    *)
(* data store (the task and its Due key), the manager of each node that    *)
(* scans the Due keys and hands jobs to the worker of their type, and the  *)
(* workers that run them and write what became of them.  Nodes share the   *)
(* store and the lock of each task; everything else a node loses when it   *)
(* crashes.                                                                *)
(*                                                                         *)
(* What is a time out of an hour (the lock in the store, the entry of      *)
(* `locked`) may expire at any moment; when the job it protects is still   *)
(* in flight that is an overrun.  `revision` is not a variable: a scan     *)
(* drops the entries it did not touch.                                     *)
(***************************************************************************)
EXTENDS Integers, Sequences, FiniteSets, FiniteSetsExt

CONSTANTS
    Nodes,       \* nodes of the cluster
    Ids,         \* task ids, ordered as in the keys of the store
    Types,       \* task types; each node has a channel and a worker per type
    TypeOf,      \* TypeOf[t]: type of task t
    RoleChoices, \* what the cluster roles may enable: r[n], the types node n works on
    Capacity,    \* Capacity[y]: channel_capacity
    BatchSize,   \* BatchSize[y]: index_batch_size, 1 for the types that do not batch
    RetryDelay,  \* delay of the retry strategy
    BackoffFor,  \* what a server that asks to back off asks for
    MaxAttempts, \* task_manager.max_attempts
    Deadline,    \* task_manager.total_deadline
    Outcomes,    \* results the work on a task may have
    Silent,      \* ids of index tasks for files, whose work has no result
    MaxNow,      \* bound: the clock stops here
    FaultKinds,  \* kinds of faults that may happen
    MaxEvents    \* bound: tasks scheduled, requests of users and administrators,
                 \* faults, and locks that expire while their job is in flight

ASSUME TaskAssumptions ==
    /\ IsFiniteSet(Nodes) /\ IsFiniteSet(Types)
    /\ Nodes \cap {"free", "admin"} = {}
    /\ Ids \subseteq Nat /\ IsFiniteSet(Ids) /\ Silent \subseteq Ids
    /\ TypeOf \in [Ids -> Types]
    /\ RoleChoices \subseteq [Nodes -> SUBSET Types]
    /\ {Capacity, BatchSize} \subseteq [Types -> Nat \ {0}]
    /\ {RetryDelay, BackoffFor, Deadline, MaxNow} \subseteq Nat \ {0}
    /\ {MaxAttempts, MaxEvents} \subseteq Nat
    /\ FaultKinds \subseteq {"scan", "lock", "read", "write", "crash", "overrun"}
    /\ Outcomes \subseteq {"success", "followup", "temporary", "backoff", "permanent"}

VARIABLES
    roles,       \* roles[n]: the task types of the cluster roles of n, fixed
    now,         \* wall clock
    tasks,       \* tasks[t]: TaskQueueClass::Task, Gone if the key is absent
    dueKeys,     \* TaskQueueClass::Due keys and their value, [id, due, typ]
    lock,        \* lock[t]: who took the KV_LOCK_TASK key, "free" if absent
    locked,      \* locked[n][t]: due time in the entry of ipc.locked, 0 if none
    todo,        \* todo[n]: keys a scan collected and did not dispatch yet
    chan,        \* chan[w]: jobs sent to worker w
    pc,          \* pc[w]: receiving, writing its results, removing its locks
    batch,       \* batch[w]: the jobs it works on, with its copy of their task
    born,        \* history: ids that were scheduled
    finished,    \* history: ids whose work succeeded
    swapped,     \* history: ids that were given the result of another task
    overran,     \* history: a lock expired while its job was in flight
    forgot,      \* history: a failed scan dropped the entry of a job in flight
    events       \* history: what MaxEvents bounds

store == <<tasks, dueKeys, lock>>
node == <<locked, todo>>
worker == <<chan, pc, batch>>
history == <<roles, born, finished, swapped, forgot>>
vars == <<roles, now, tasks, dueKeys, lock, locked, todo, chan, pc, batch, born,
          finished, swapped, overran, forgot, events>>

Workers == Nodes \X Types
Gone == [status |-> "gone", due |-> 0, attempt |-> 0, created |-> 0]
Latest == MaxNow + RetryDelay + BackoffFor
Never == Latest + 1             \* u64::MAX, the due time of a failed task
NoEntry == 0                    \* scans start at due 1
Job(k) == [id |-> k.id, due |-> k.due]

(* The places where the nodes have a job for t. *)
JobsOf(t) ==
    UNION {{<<w, "chan", i>> : i \in {j \in DOMAIN chan[w] : chan[w][j].id = t}}
           \cup {<<w, "batch", i>> : i \in {j \in DOMAIN batch[w] : batch[w][j].id = t}}
           : w \in Workers}

InFlight(n, t) == \E j \in JobsOf(t) : j[1][1] = n

Happens == events < MaxEvents /\ events' = events + 1

Fault(kind) ==
    /\ kind \in FaultKinds
    /\ Happens

Init ==
    /\ roles \in RoleChoices
    /\ now = 1
    /\ tasks = [t \in Ids |-> Gone]
    /\ dueKeys = {}
    /\ lock = [t \in Ids |-> "free"]
    /\ locked = [n \in Nodes |-> [t \in Ids |-> NoEntry]]
    /\ todo = [n \in Nodes |-> {}]
    /\ chan = [w \in Workers |-> <<>>]
    /\ pc = [w \in Workers |-> "recv"]
    /\ batch = [w \in Workers |-> <<>>]
    /\ born = {}
    /\ finished = {}
    /\ swapped = {}
    /\ overran = FALSE
    /\ forgot = FALSE
    /\ events = 0

-----------------------------------------------------------------------------
(* Operations of a batch on the keys of a task.                            *)

Pending(due) == [status |-> "pending", due |-> due, attempt |-> 0, created |-> now]

ClearDue(keys, t, due) == {k \in keys : ~(k.id = t /\ k.due = due)}

SetDue(keys, t, due, typ) ==
    ClearDue(keys, t, due) \cup {[id |-> t, due |-> due, typ |-> typ]}

(* schedule_task and schedule_task_with_id, in a batch of their caller.    *)
Schedule(t, due) ==
    /\ t \notin born
    /\ Happens
    /\ born' = born \cup {t}
    /\ tasks' = [tasks EXCEPT ![t] = Pending(due)]
    /\ dueKeys' = SetDue(dueKeys, t, due, "task")
    /\ UNCHANGED <<roles, now, lock, node, worker, finished, swapped, overran, forgot>>

-----------------------------------------------------------------------------
(* process_tasks: the scan of the Due keys, in key order.  A value that is *)
(* not a task type ends it with an error, which is only logged.            *)

Before(j, k) == j.due < k.due \/ (j.due = k.due /\ j.id < k.id)

Reached(keys) ==
    {k \in keys : \A c \in keys : c.typ # "task" => Before(k, c)}

Visible(n, keys) == {k \in keys : TypeOf[k.id] \in roles[n]}

Scanned(n, seen) ==
    LET at(t) == {k.due : k \in {j \in seen : j.id = t}} IN
    /\ todo' = [todo EXCEPT ![n] = {Job(k) : k \in {j \in seen : locked[n][j.id] < j.due}}]
    /\ locked' = [locked EXCEPT ![n] = [t \in Ids |->
                      IF at(t) = {} THEN NoEntry ELSE Max(at(t) \cup {locked[n][t]})]]

Scan(n) ==
    /\ todo[n] = {}
    /\ Scanned(n, Visible(n, Reached({k \in dueKeys : k.due <= now})))
    /\ UNCHANGED <<now, store, worker, history, overran, events>>

(* The iteration fails somewhere: the entries after that are dropped too.  *)
ScanFails(n) ==
    /\ todo[n] = {}
    /\ Fault("scan")
    /\ \E f \in dueKeys :
          /\ f.due <= now
          /\ Scanned(n, Visible(n, Reached({k \in dueKeys : k.due <= now /\ Before(k, f)})))
    /\ forgot' = (forgot \/ \E t \in Ids : InFlight(n, t) /\ locked'[n][t] = NoEntry)
    /\ UNCHANGED <<now, store, worker, roles, born, finished, swapped, overran>>

(* Mutant: a job is sent although the lock was not obtained. *)
TryLock_Ignored(n, t, got) == lock' = [lock EXCEPT ![t] = n]

(* try_lock_task: `got` is what it returns. *)
TryLock(n, t, got) ==
    IF got THEN lock[t] = "free" /\ lock' = [lock EXCEPT ![t] = n]
    ELSE lock[t] # "free" /\ UNCHANGED lock

HasRoom(n, t) == Len(chan[<<n, TypeOf[t]>>]) < Capacity[TypeOf[t]]

(* The jobs were shuffled: any of them may be next.                        *)
Dispatch(n, t) == \E j \in todo[n] :
    /\ j.id = t
    /\ todo' = [todo EXCEPT ![n] = @ \ {j}]
    /\ \/ /\ HasRoom(n, t)
          /\ TryLock(n, t, TRUE)
          /\ chan' = [chan EXCEPT ![<<n, TypeOf[t]>>] = Append(@, j)]
          /\ UNCHANGED locked
       \/ /\ HasRoom(n, t)
          /\ TryLock(n, t, FALSE)
          /\ UNCHANGED <<chan, locked>>
       \/ /\ ~HasRoom(n, t)
          /\ locked' = [locked EXCEPT ![n][t] = NoEntry]
          /\ UNCHANGED <<lock, chan>>
    /\ UNCHANGED <<now, tasks, dueKeys, pc, batch, history, overran, events>>

(* try_lock_task returns false when the lock cannot be read or written.    *)
DispatchFails(n) == \E j \in todo[n] :
    /\ Fault("lock")
    /\ todo' = [todo EXCEPT ![n] = @ \ {j}]
    /\ UNCHANGED <<now, store, locked, worker, history, overran>>

-----------------------------------------------------------------------------
(* TaskResult: its variant and, for Update, the due time of the new keys.  *)
Res(typ) == [typ |-> typ, at |-> 0]

(* The worker of one type: it reads the task of each job it receives, up   *)
(* to a batch; a job whose task is not there is forgotten.                 *)

Recv(w) ==
    LET j == Head(chan[w]) IN
    /\ pc[w] = "recv" /\ chan[w] # <<>>
    /\ Len(batch[w]) < BatchSize[w[2]]
    /\ chan' = [chan EXCEPT ![w] = Tail(@)]
    /\ \/ /\ tasks[j.id] # Gone
          /\ batch' = [batch EXCEPT ![w] =
                Append(@, [id |-> j.id, due |-> j.due, task |-> tasks[j.id], res |-> Res("none")])]
          /\ UNCHANGED events
       \/ /\ tasks[j.id] = Gone
          /\ UNCHANGED <<batch, events>>
       \/ /\ Fault("read")
          /\ UNCHANGED batch
    /\ UNCHANGED <<now, store, node, pc, history, overran>>

(* The work itself: results[t] are the results that the work on task t may *)
(* have.  index() skips the files, it has no result for them.              *)
ResultsOf(results, t) == IF t \in Silent THEN {Res("none")} ELSE results[t]

Run(w, results) ==
    /\ pc[w] = "recv" /\ batch[w] # <<>>
    /\ Len(batch[w]) = BatchSize[w[2]] \/ chan[w] = <<>>
    /\ \E res \in [DOMAIN batch[w] -> UNION {ResultsOf(results, t) : t \in Ids}] :
          /\ \A i \in DOMAIN batch[w] : res[i] \in ResultsOf(results, batch[w][i].id)
          /\ batch' = [batch EXCEPT ![w] = [i \in DOMAIN @ |-> [@[i] EXCEPT !.res = res[i]]]]
          /\ finished' = finished \cup {batch[w][i].id : i \in
                {j \in DOMAIN batch[w] : res[j].typ \in {"success", "followup"}}}
    /\ pc' = [pc EXCEPT ![w] = "write"]
    /\ UNCHANGED <<roles, now, store, node, chan, born, swapped, overran, forgot, events>>

Failures == {"temporary", "backoff", "permanent"}

(* next_retry_time, and the test update_tasks makes for TaskFailureType::  *)
(* Retry; Never when there is to be no other attempt.                      *)
NextRetryTime(task) ==
    IF task.attempt < MaxAttempts /\ now + RetryDelay <= task.created + Deadline
    THEN now + RetryDelay ELSE Never

RetryAt(res, task) ==
    CASE res = "temporary" -> NextRetryTime(task)
      [] res = "backoff" -> LET at == now + BackoffFor IN
                            IF task.attempt < MaxAttempts /\ at < at + Deadline
                            THEN at ELSE Never
      [] res = "permanent" -> Never

(* Mutant: a task that failed for good is removed. *)
FailedTask_Removed(res, task) ==
    LET at == RetryAt(res, task) IN
    IF at # Never
    THEN [status |-> "retry", due |-> at, attempt |-> task.attempt + 1, created |-> task.created]
    ELSE Gone

(* set_status after a failure. *)
FailedTask(res, task) ==
    LET at == RetryAt(res, task) IN
    IF at # Never
    THEN [status |-> "retry", due |-> at, attempt |-> task.attempt + 1, created |-> task.created]
    ELSE [status |-> "failed", due |-> Never, attempt |-> task.attempt, created |-> now]

(* What a result leaves under the key of its task. *)
TaskAfter(e) ==
    CASE e.res.typ \in Failures -> FailedTask(e.res.typ, e.task)
      [] e.res.typ \in {"success", "followup"} -> Gone
      [] e.res.typ = "update" -> Pending(e.res.at)

(* Mutant: a task that failed for good is not kept under a Due key. *)
DueAfter_DropFailed(e) ==
    IF TaskAfter(e) = Gone \/ TaskAfter(e).due = Never THEN {}
    ELSE {[id |-> e.id, due |-> TaskAfter(e).due, typ |-> "task"]}

(* The Due key that goes with it. *)
DueAfter(e) ==
    IF TaskAfter(e) = Gone THEN {}
    ELSE {[id |-> e.id, due |-> TaskAfter(e).due, typ |-> "task"]}

(* Mutant: the Due key of the job is not cleared. *)
Writes_KeepDue(e, k) == k.id = e.id /\ \E d \in DueAfter(e) : d.due = k.due

(* The operations of a result clear the Due key of its job and set the     *)
(* next one.                                                               *)
Writes(e, k) == k.id = e.id /\ (k.due = e.due \/ \E d \in DueAfter(e) : d.due = k.due)

(* The keys after the operations of all the results of b, in their order;  *)
(* `fresh` are the ids that follow-up tasks get.                           *)
LastOf(b, t) == Max({i \in DOMAIN b : b[i].id = t})

TasksAfter(b, fresh) ==
    [t \in Ids |-> CASE t \in fresh -> Pending(now)
                     [] t \notin fresh /\ (\E i \in DOMAIN b : b[i].id = t) ->
                            TaskAfter(b[LastOf(b, t)])
                     [] OTHER -> tasks[t]]

KeysAfter(b, fresh) ==
    {k \in dueKeys : \A i \in DOMAIN b : ~Writes(b[i], k)}
    \cup {[id |-> t, due |-> now, typ |-> "task"] : t \in fresh}
    \cup (UNION {{k \in DueAfter(b[i]) : \A j \in DOMAIN b : j > i => ~Writes(b[j], k)}
                 : i \in DOMAIN b})

(* Mutant: a result is written without asserting that the task exists. *)
Asserted_Nothing(b) == TRUE

(* assert_value(Task, Some), once for every failure in the batch. *)
Asserted(b) == \A i \in DOMAIN b : b[i].res.typ \in Failures => tasks[b[i].id] # Gone

(* The results of a batch in their order: f[i] is the task that the i-th   *)
(* of them is about.                                                       *)
Reported(b) == {i \in DOMAIN b : b[i].id \notin Silent}

Orders(b) ==
    {f \in [1..Cardinality(Reported(b)) -> Reported(b)] :
        \A i \in DOMAIN f : Cardinality({k \in Reported(b) : k <= f[i]}) = i}

(* Mutant: the results are taken from the end of the batch. *)
Zipped_Reversed(b, f) ==
    [i \in DOMAIN f |-> [b[i] EXCEPT !.res = b[f[Cardinality(DOMAIN f) + 1 - i]].res]]

(* tasks.zip(results): the i-th task gets the i-th result, whichever task  *)
(* that is about, and the last tasks get none.                             *)
Zipped(b, f) == [i \in DOMAIN f |-> [b[i] EXCEPT !.res = b[f[i]].res]]

(* update_tasks: one write for the whole batch.  A batch whose assertion   *)
(* fails, or that cannot be written, changes nothing and is not retried.   *)
Update(w) ==
    /\ pc[w] = "write"
    /\ \/ \E f \in Orders(batch[w]) : LET b == Zipped(batch[w], f) IN
             /\ \/ /\ Asserted(b)
                   /\ \E fresh \in SUBSET (Ids \ born) :
                         /\ Cardinality(fresh) =
                               Cardinality({i \in DOMAIN b : b[i].res.typ = "followup"})
                         /\ tasks' = TasksAfter(b, fresh)
                         /\ dueKeys' = KeysAfter(b, fresh)
                         /\ born' = born \cup fresh
                   /\ swapped' = swapped \cup {b[i].id : i \in {j \in DOMAIN f : f[j] # j}}
                \/ /\ ~Asserted(b)
                   /\ UNCHANGED <<tasks, dueKeys, born, swapped>>
             /\ UNCHANGED <<batch, events>>
       \/ /\ Fault("write")
          /\ batch' = [batch EXCEPT ![w] = [i \in DOMAIN @ |-> [@[i] EXCEPT !.res = Res("lost")]]]
          /\ UNCHANGED <<tasks, dueKeys, born, swapped>>
    /\ pc' = [pc EXCEPT ![w] = "unlock"]
    /\ UNCHANGED <<roles, now, lock, node, chan, finished, overran, forgot>>

(* remove_index_lock for every task of the batch: whoever took it.         *)
Unlock(w) ==
    /\ pc[w] = "unlock"
    /\ lock' = [t \in Ids |-> IF \E i \in DOMAIN batch[w] : batch[w][i].id = t
                              THEN "free" ELSE lock[t]]
    /\ batch' = [batch EXCEPT ![w] = <<>>]
    /\ pc' = [pc EXCEPT ![w] = "recv"]
    /\ UNCHANGED <<now, tasks, dueKeys, node, chan, history, overran, events>>

-----------------------------------------------------------------------------
(* Time and crashes.                                                       *)

Tick ==
    /\ now < MaxNow
    /\ now' = now + 1
    /\ UNCHANGED <<store, node, worker, history, overran, events>>

Overrun(owner, t) ==
    IF owner \in Nodes /\ InFlight(owner, t)
    THEN Fault("overrun") /\ overran' = TRUE
    ELSE UNCHANGED <<overran, events>>

(* Mutant: the lock is taken without an expiry. *)
LockExpires_Never(t) == FALSE /\ UNCHANGED vars

(* DEFAULT_LOCK_EXPIRY after try_lock_task. *)
LockExpires(t) ==
    /\ lock[t] # "free"
    /\ Overrun(lock[t], t)
    /\ lock' = [lock EXCEPT ![t] = "free"]
    /\ UNCHANGED <<now, tasks, dueKeys, node, worker, history>>

(* DEFAULT_LOCK_EXPIRY + 1 after the scan that made the entry. *)
EntryExpires(n, t) ==
    /\ locked[n][t] # NoEntry
    /\ \A j \in todo[n] : j.id # t
    /\ Overrun(n, t)
    /\ locked' = [locked EXCEPT ![n][t] = NoEntry]
    /\ UNCHANGED <<now, store, todo, worker, history>>

Crash(n) ==
    /\ Fault("crash")
    /\ locked' = [locked EXCEPT ![n] = [t \in Ids |-> NoEntry]]
    /\ todo' = [todo EXCEPT ![n] = {}]
    /\ chan' = [w \in Workers |-> IF w[1] = n THEN <<>> ELSE chan[w]]
    /\ batch' = [w \in Workers |-> IF w[1] = n THEN <<>> ELSE batch[w]]
    /\ pc' = [w \in Workers |-> IF w[1] = n THEN "recv" ELSE pc[w]]
    /\ UNCHANGED <<now, store, history, overran>>

(* The steps of the manager and of the workers, except the work itself.    *)
Manage ==
    \/ \E n \in Nodes : Scan(n) \/ ScanFails(n) \/ DispatchFails(n) \/ Crash(n)
    \/ \E w \in Workers : Recv(w) \/ Update(w) \/ Unlock(w)
    \/ \E t \in Ids : LockExpires(t)
    \/ \E n \in Nodes, t \in Ids : Dispatch(n, t) \/ EntryExpires(n, t)
    \/ Tick

AnyOutcome == [t \in Ids |-> {Res(o) : o \in Outcomes}]

Next ==
    \/ Manage
    \/ \E w \in Workers : Run(w, AnyOutcome)
    \/ \E t \in Ids, due \in now..MaxNow : Schedule(t, due)

Spec == Init /\ [][Next]_vars

-----------------------------------------------------------------------------
(* Properties                                                              *)

TaskRecords == [status : {"gone", "pending", "retry", "failed"}, due : 0..Never,
                attempt : 0..MaxAttempts, created : 0..MaxNow]

Jobs == [id : Ids, due : 1..Never]
Entries == [id : Ids, due : 1..Never, task : TaskRecords,
            res : [typ : Outcomes \cup {"none", "lost"}, at : {0}]]

(* Every variable holds what the code can store in it. *)
TypeOK ==
    /\ roles \in [Nodes -> SUBSET Types]
    /\ now \in 1..MaxNow
    /\ tasks \in [Ids -> TaskRecords]
    /\ dueKeys \subseteq [id : Ids, due : 1..Never, typ : {"task"}]
    /\ lock \in [Ids -> Nodes \cup {"free"}]
    /\ locked \in [Nodes -> [Ids -> 0..Never]]
    /\ todo \in [Nodes -> SUBSET Jobs]
    /\ DOMAIN chan = Workers /\ DOMAIN batch = Workers
    /\ \A w \in Workers :
          /\ chan[w] \in Seq(Jobs) /\ Len(chan[w]) <= Capacity[w[2]]
          /\ batch[w] \in Seq(Entries) /\ Len(batch[w]) <= BatchSize[w[2]]
    /\ pc \in [Workers -> {"recv", "write", "unlock"}]
    /\ born \subseteq Ids /\ finished \subseteq born /\ swapped \subseteq born
    /\ {overran, forgot} \subseteq BOOLEAN /\ events \in 0..MaxEvents

(* What the memory of the manager can be trusted for: one node has the     *)
(* cluster role t needs, it outlasts the work, and no failed scan cut it.  *)
Undisturbed(t) ==
    /\ Cardinality({n \in Nodes : TypeOf[t] \in roles[n]}) = 1
    /\ ~overran
    /\ ~forgot

(* The two keys of a task agree on one node that overran no lock and       *)
(* forgot no job: a task that exists has exactly the Due key of its        *)
(* status, a task that does not exist has none (process_tasks would        *)
(* dispatch it again and again).                                           *)
KeysMatch ==
    \A t \in Ids : Undisturbed(t) =>
        {k.due : k \in {j \in dueKeys : j.id = t}} =
            IF tasks[t] = Gone THEN {} ELSE {tasks[t].due}

(* process_tasks, update_tasks: no task is worked on before its status     *)
(* says it is due, under the same conditions.                              *)
NeverEarly ==
    \A w \in Workers : \A i \in DOMAIN batch[w] :
        Undisturbed(batch[w][i].id) => batch[w][i].task.due <= now

(* There is never more than one job for a task, in a channel or at work,   *)
(* on all the nodes, unless a lock expired under a job still in flight.    *)
Exclusive ==
    ~overran =>
        \A t \in Ids : Cardinality(JobsOf(t)) <= 1

(* A task that exists can be found: it always has a Due key. *)
NotStranded ==
    \A t \in Ids : tasks[t] # Gone => \E k \in dueKeys : k.id = t

(* A task whose work succeeded and whose key was removed is never written  *)
(* back, not even by a worker that overran its lock: that is what the      *)
(* assertion of update_tasks is for.                                       *)
FinishedStaysGone ==
    [][\A t \in finished : tasks[t] = Gone => tasks'[t] = Gone]_vars

(* A task leaves the queue only when its work succeeded, or when the zip of *)
(* update_tasks gave it the result of another task of its batch.           *)
NoLostTask == \A t \in born : tasks[t] = Gone => t \in finished \cup swapped

(* update_tasks: when a worker removes its locks, the tasks that succeeded *)
(* are out of the store, although one task of a batch that somebody else   *)
(* finished refuses the whole batch: the locks keep that from happening.   *)
(* Nothing is said of the tasks behind a file in their batch: the zip may  *)
(* give them the result of a later task, or none.                          *)
ResultsApplied ==
    ~overran =>
        \A w \in Workers : pc[w] = "unlock" =>
            \A i \in DOMAIN batch[w] :
                /\ batch[w][i].res.typ = "success"
                /\ \A j \in 1..i : batch[w][j].id \notin Silent
                => tasks[batch[w][i].id] = Gone

(* Where jobs come from: a job in memory or in a channel is for a task     *)
(* that was scheduled, that is due, and whose type its node works on; keys *)
(* are written for scheduled tasks only.                                   *)
JobsKnown ==
    /\ \A n \in Nodes : \A j \in todo[n] :
          j.id \in born /\ j.due <= now /\ TypeOf[j.id] \in roles[n]
    /\ \A w \in Workers : w[2] \in roles[w[1]] \/ (chan[w] = <<>> /\ batch[w] = <<>>)
    /\ \A w \in Workers : \A i \in DOMAIN chan[w] :
          chan[w][i].id \in born /\ chan[w][i].due <= now /\ TypeOf[chan[w][i].id] = w[2]
    /\ \A w \in Workers : \A i \in DOMAIN batch[w] :
          /\ batch[w][i].id \in born /\ batch[w][i].due <= now /\ TypeOf[batch[w][i].id] = w[2]
          /\ pc[w] = "write" /\ batch[w][i].id \notin Silent => batch[w][i].res.typ \in Outcomes
          /\ batch[w][i].res.typ \in {"success", "followup"} => batch[w][i].id \in finished
    /\ \A t \in Ids \ born : tasks[t] = Gone
    /\ \A k \in dueKeys : k.id \in born

(* What the locks are for, as long as none expires under its job: the node *)
(* of a job has the lock of its task, no two jobs of a worker are for one  *)
(* task, and the task of a job at work is there until its result is written*)
LocksHeld ==
    ~overran => \A w \in Workers :
        /\ \A i \in DOMAIN chan[w] :
              /\ lock[chan[w][i].id] = w[1]
              /\ \A j \in DOMAIN chan[w] : chan[w][i].id = chan[w][j].id => i = j
              /\ \A j \in DOMAIN batch[w] : chan[w][i].id # batch[w][j].id
        /\ \A i \in DOMAIN batch[w] :
              /\ lock[batch[w][i].id] = w[1]
              /\ \A j \in DOMAIN batch[w] : batch[w][i].id = batch[w][j].id => i = j
              /\ pc[w] # "unlock" => tasks[batch[w][i].id] # Gone

(* What the memory of the manager is for, while it can be trusted: a job   *)
(* that it collected, sent or works on stands for the one Due key of its   *)
(* task, and the entry of `locked` keeps a scan from collecting it again.  *)
MemoryKept ==
    /\ \A k \in dueKeys : Undisturbed(k.id) => tasks[k.id] # Gone /\ k.due = tasks[k.id].due
    /\ \A n \in Nodes : \A j \in todo[n] : Undisturbed(j.id) =>
          tasks[j.id].due = j.due /\ locked[n][j.id] >= j.due
    /\ \A w \in Workers : \A i \in DOMAIN chan[w] : LET t == chan[w][i].id IN
          Undisturbed(t) =>
             /\ tasks[t].due = chan[w][i].due /\ locked[w[1]][t] >= chan[w][i].due
             /\ \A j \in todo[w[1]] : j.id # t
    /\ \A w \in Workers : \A i \in DOMAIN batch[w] : LET t == batch[w][i].id IN
          Undisturbed(t) =>
             /\ batch[w][i].task.due = batch[w][i].due
             /\ pc[w] # "unlock" =>
                   /\ tasks[t] = batch[w][i].task /\ locked[w[1]][t] >= batch[w][i].due
                   /\ \A j \in todo[w[1]] : j.id # t

(* Types, and what process_tasks and update_tasks owe every task: it can be *)
(* found, it leaves only when its work succeeded, it is not worked on      *)
(* before its time.                                                        *)
TaskInv == TypeOK /\ NotStranded /\ NoLostTask /\ NeverEarly
           /\ JobsKnown /\ LocksHeld /\ MemoryKept

=============================================================================
