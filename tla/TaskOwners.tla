----------------------------- MODULE TaskOwners ------------------------------
(***************************************************************************)
(* The rest of the server that writes the keys of tasks while the task     *)
(* manager works on them: calendar events, whose next alarm is a task with *)
(* the id of the event; aggregate reports, whose delivery is a task with   *)
(* the id of the report; and the administrator's Task/set.                 *)
(*                                                                         *)
(* An event is the set of its alarm times.  One request at a time changes  *)
(* an event: the batch asserts the archive that the request read, so that  *)
(* of two requests that overlap one fails and writes nothing.              *)
(***************************************************************************)
EXTENDS TaskManager

CONSTANTS
    Events,      \* ids that belong to calendar events
    Reports,     \* ids that aggregate reports may get
    Alarms,      \* sets of alarm times an event may be given
    MinInterval, \* alarms_minimum_interval
    AdminOps     \* what Task/set is used for: update, destroy

ASSUME OwnerAssumptions ==
    /\ Events \subseteq Ids /\ Reports \subseteq Ids /\ Events \cap Reports = {}
    /\ \A s \in Silent, t \in Events : TypeOf[s] # TypeOf[t]
    /\ Alarms \subseteq SUBSET (1..Latest)
    /\ MinInterval \in Nat
    /\ AdminOps \subseteq {"update", "destroy"}

VARIABLES
    alarms,      \* alarms[t]: alarm times of the event stored under t
    deliverAt,   \* deliverAt[t]: deliver_at of the report stored under t, 0 if none
    edit,        \* a request that changes an event, between its read and its commit
    admin,       \* a Task/set request: [op, id, task, locks]
    removed,     \* history: ids the administrator or a user removed
    passed,      \* history: alarms of t up to passed[t] were passed over
    broken       \* history: ids whose next alarm may have no task: their event was
                 \* edited while an alarm was sent or right after one was passed over,
                 \* the work gave up, or an administrator changed the task

owners == <<alarms, deliverAt, edit, admin, removed, passed, broken>>
ownedVars == <<roles, now, tasks, dueKeys, lock, locked, todo, chan, pc, batch, born,
               finished, swapped, overran, forgot, events,
               alarms, deliverAt, edit, admin, removed, passed, broken>>

Idle == [op |-> "idle", id |-> 0, task |-> Gone, locks |-> FALSE]
NoEdit == [on |-> FALSE, id |-> 0, times |-> {}, prev |-> 0, next |-> 0, met |-> FALSE]

OwnedInit ==
    /\ Init
    /\ alarms = [t \in Events |-> {}]
    /\ deliverAt = [t \in Reports |-> 0]
    /\ edit = NoEdit
    /\ admin = Idle
    /\ removed = {}
    /\ passed = [t \in Events |-> 0]
    /\ broken = {}

-----------------------------------------------------------------------------
(* Calendar events.                                                        *)

(* next_alarm: the first alarm after a time, 0 if there is none. *)
NextAlarm(times, after) ==
    LET later == {x \in times : x > after} IN
    IF later = {} THEN 0 ELSE CHOOSE x \in later : \A y \in later : x <= y

(* Mutant: the previous alarm is deleted after the next one is written. *)
Replaced_DeleteLast(t, prev, next) ==
    LET written == IF next = 0 THEN dueKeys ELSE SetDue(dueKeys, t, next, "task") IN
    /\ tasks' = [tasks EXCEPT ![t] = IF prev # 0 THEN Gone ELSE Pending(next)]
    /\ dueKeys' = IF prev = 0 THEN written ELSE ClearDue(written, t, prev)

(* delete_task for the previous alarm, write_task for the next one. *)
Replaced(t, prev, next) ==
    LET cleared == IF prev = 0 THEN dueKeys ELSE ClearDue(dueKeys, t, prev) IN
    /\ tasks' = CASE next # 0 -> [tasks EXCEPT ![t] = Pending(next)]
                  [] next = 0 /\ prev # 0 -> [tasks EXCEPT ![t] = Gone]
                  [] OTHER -> tasks
    /\ dueKeys' = IF next = 0 THEN cleared ELSE SetDue(cleared, t, next, "task")

(* An event is created, changed or deleted (no alarms): the request reads  *)
(* it and looks up the alarms it had and the ones it gets from that time   *)
(* on.  `met`: a job for the event was there, or works on it since.        *)
EditRead(t, times) ==
    /\ ~edit.on
    /\ Happens
    /\ times # alarms[t]
    /\ edit' = [on |-> TRUE, id |-> t, times |-> times, prev |-> NextAlarm(alarms[t], now),
                next |-> NextAlarm(times, now), met |-> JobsOf(t) # {}]
    /\ UNCHANGED <<now, store, node, worker, history, overran,
                   alarms, deliverAt, admin, removed, passed, broken>>

(* Then it commits.  When the next alarm is the one there was, it leaves   *)
(* the task as it is, although that alarm may have been passed over.       *)
EditCommit ==
    LET t == edit.id
        same == edit.prev = edit.next
        loses == edit.met \/ JobsOf(t) # {} \/ (same /\ 0 < edit.prev /\ edit.prev <= passed[t])
    IN /\ edit.on
       /\ edit' = NoEdit
       /\ alarms' = [alarms EXCEPT ![t] = edit.times]
       /\ IF same THEN UNCHANGED <<tasks, dueKeys>> ELSE Replaced(t, edit.prev, edit.next)
       /\ born' = IF edit.next # 0 THEN born \cup {t} ELSE born
       /\ removed' = IF edit.prev # 0 /\ edit.next = 0 THEN removed \cup {t} ELSE removed
       /\ passed' = IF same THEN passed ELSE [passed EXCEPT ![t] = 0]
       /\ broken' = CASE loses -> broken \cup {t}
                     [] ~loses /\ ~same -> broken \ {t}
                     [] OTHER -> broken
       /\ UNCHANGED <<roles, now, lock, node, worker, finished, swapped, overran, forgot,
                      events, deliverAt, admin>>

(* The request fails after its read, or another one changed the event. *)
EditFails ==
    /\ edit.on
    /\ edit' = NoEdit
    /\ UNCHANGED <<now, store, node, worker, history, overran, events,
                   alarms, deliverAt, admin, removed, passed, broken>>

(* build_next_alarm: the time of the next alarm, or success.  An alarm     *)
(* within the minimum interval is passed over, with all the others there.  *)
TooSoon(t) ==
    LET next == NextAlarm(alarms[t], now) IN next # 0 /\ next < now + MinInterval

NextAlarmResult(t) ==
    LET next == NextAlarm(alarms[t], IF TooSoon(t) THEN now + MinInterval ELSE now)
    IN IF next = 0 THEN Res("success") ELSE [typ |-> "update", at |-> next]

(* send_email_alarm and send_display_alarm fail, or give up before they    *)
(* look for the next alarm, or end with build_next_alarm on the event they *)
(* read.                                                                   *)
AlarmResults ==
    [t \in Ids |-> IF t \notin Events THEN AnyOutcome[t]
                   ELSE {Res("temporary"), Res("success"), NextAlarmResult(t)}]

RunAlarms(w) ==
    LET ran(t, res) == \E i \in DOMAIN batch'[w] : batch'[w][i].id = t /\ batch'[w][i].res = res
    IN /\ Run(w, AlarmResults)
       /\ edit' = [edit EXCEPT !.met = @ \/ \E i \in DOMAIN batch[w] : batch[w][i].id = edit.id]
       /\ passed' = [t \in Events |-> IF TooSoon(t) /\ ran(t, NextAlarmResult(t))
                                      THEN now + MinInterval ELSE passed[t]]
       /\ broken' = broken \cup {t \in Events :
                        ran(t, Res("success")) /\ NextAlarmResult(t) # Res("success")}
       /\ UNCHANGED <<alarms, deliverAt, admin, removed>>

-----------------------------------------------------------------------------
(* Aggregate reports.                                                      *)

(* write_ops with is_set: the report and the task that sends it. *)
CreateReport(t, at) ==
    /\ deliverAt[t] = 0
    /\ deliverAt' = [deliverAt EXCEPT ![t] = at]
    /\ Schedule(t, at)
    /\ UNCHANGED <<alarms, edit, admin, removed, passed, broken>>

(* The work on the task takes the report out of the store and sends it.    *)
ReportExists(t) == deliverAt[t] # 0 /\ t \notin finished

(* reschedule_ops: the new Due key holds the id of the object type, which  *)
(* is not a task type, and the task keeps the due time of its status.      *)
RescheduleReport(t, at) ==
    /\ Happens
    /\ ReportExists(t)
    /\ at > now /\ at # deliverAt[t]
    /\ dueKeys' = SetDue(ClearDue(dueKeys, t, deliverAt[t]), t, at, "object")
    /\ deliverAt' = [deliverAt EXCEPT ![t] = at]
    /\ UNCHANGED <<now, tasks, lock, node, worker, history, overran,
                   alarms, edit, admin, removed, passed, broken>>

(* write_ops without is_set: the administrator destroys the report. *)
DestroyReport(t) ==
    /\ Happens
    /\ ReportExists(t)
    /\ tasks' = [tasks EXCEPT ![t] = Gone]
    /\ dueKeys' = ClearDue(dueKeys, t, deliverAt[t])
    /\ deliverAt' = [deliverAt EXCEPT ![t] = 0]
    /\ removed' = removed \cup {t}
    /\ UNCHANGED <<now, lock, node, worker, history, overran,
                   alarms, edit, admin, passed, broken>>

-----------------------------------------------------------------------------
(* Task/set.  An update reads the task, then takes its lock, then writes   *)
(* its copy; a destruction takes no lock.  Both remove the lock at the end.*)

AdminRead(op, t) ==
    /\ admin = Idle
    /\ Happens
    /\ tasks[t] # Gone
    /\ admin' = [op |-> op, id |-> t, task |-> tasks[t], locks |-> FALSE]
    /\ UNCHANGED <<now, store, node, worker, history, overran,
                   alarms, deliverAt, edit, removed, passed, broken>>

AdminLock ==
    /\ admin.op = "update" /\ ~admin.locks
    /\ IF lock[admin.id] = "free"
       THEN /\ lock' = [lock EXCEPT ![admin.id] = "admin"]
            /\ admin' = [admin EXCEPT !.locks = TRUE]
       ELSE admin' = Idle /\ UNCHANGED lock
    /\ UNCHANGED <<now, tasks, dueKeys, node, worker, history, overran, events,
                   alarms, deliverAt, edit, removed, passed, broken>>

(* The status of the copy is patched: with another due time its Due key is *)
(* moved, otherwise only the task is written.                              *)
AdminUpdate(due) ==
    LET t == admin.id IN
    /\ admin.op = "update" /\ admin.locks
    /\ tasks' = [tasks EXCEPT ![t] = [admin.task EXCEPT !.status = "pending", !.due = due]]
    /\ dueKeys' = IF due = admin.task.due THEN dueKeys
                  ELSE SetDue(ClearDue(dueKeys, t, admin.task.due), t, due, "task")
    /\ broken' = broken \cup {t}
    /\ admin' = [admin EXCEPT !.op = "unlock"]
    /\ UNCHANGED <<now, lock, node, worker, history, overran, events,
                   alarms, deliverAt, edit, removed, passed>>

AdminDestroy ==
    LET t == admin.id IN
    /\ admin.op = "destroy"
    /\ tasks' = [tasks EXCEPT ![t] = Gone]
    /\ dueKeys' = ClearDue(dueKeys, t, admin.task.due)
    /\ removed' = removed \cup {t}
    /\ broken' = broken \cup {t}
    /\ admin' = [admin EXCEPT !.op = "unlock"]
    /\ UNCHANGED <<now, lock, node, worker, history, overran, events,
                   alarms, deliverAt, edit, passed>>

(* The batch cannot be written: the request ends there, locks and all. *)
AdminFails ==
    /\ admin.op = "destroy" \/ admin.locks
    /\ admin.op # "unlock"
    /\ Fault("write")
    /\ admin' = Idle
    /\ UNCHANGED <<now, store, node, worker, history, overran,
                   alarms, deliverAt, edit, removed, passed, broken>>

AdminUnlock ==
    /\ admin.op = "unlock"
    /\ lock' = [lock EXCEPT ![admin.id] = "free"]
    /\ admin' = Idle
    /\ UNCHANGED <<now, tasks, dueKeys, node, worker, history, overran, events,
                   alarms, deliverAt, edit, removed, passed, broken>>

-----------------------------------------------------------------------------
OwnedNext ==
    \/ Manage /\ UNCHANGED owners
    \/ \E w \in Workers : RunAlarms(w)
    \/ \E t \in Ids \ Events : Schedule(t, now) /\ UNCHANGED owners
    \/ \E t \in Events, times \in Alarms : EditRead(t, times)
    \/ EditCommit \/ EditFails
    \/ \E t \in Reports, at \in (now + 1)..MaxNow : CreateReport(t, at) \/ RescheduleReport(t, at)
    \/ \E t \in Reports : DestroyReport(t)
    \/ \E op \in AdminOps, t \in Ids : AdminRead(op, t)
    \/ \E due \in {now, admin.task.due} : AdminUpdate(due)
    \/ AdminLock \/ AdminDestroy \/ AdminFails \/ AdminUnlock

OwnedSpec == OwnedInit /\ [][OwnedNext]_ownedVars

(* The manager's loop never sleeps for more than five minutes, workers are *)
(* tasks of the runtime, and both expiries are times of the clock.  Jobs   *)
(* are dispatched in random order: one that is collected again and again   *)
(* is in time for a free slot of its channel again and again.              *)
OwnedFairness ==
    /\ \A n \in Nodes : WF_ownedVars(Scan(n) /\ UNCHANGED owners)
    /\ \A n \in Nodes, t \in Ids :
          /\ WF_ownedVars(Dispatch(n, t) /\ UNCHANGED owners)
          /\ SF_ownedVars(Dispatch(n, t) /\ HasRoom(n, t) /\ UNCHANGED owners)
          /\ WF_ownedVars(EntryExpires(n, t) /\ UNCHANGED owners)
    /\ \A w \in Workers :
          WF_ownedVars(RunAlarms(w) \/ (UNCHANGED owners /\ (Recv(w) \/ Update(w) \/ Unlock(w))))
    /\ \A t \in Ids : WF_ownedVars(LockExpires(t) /\ UNCHANGED owners)

FairOwnedSpec == OwnedSpec /\ OwnedFairness

-----------------------------------------------------------------------------
(* Properties                                                              *)

(* A task leaves the store only when its work succeeded, somebody took it  *)
(* out, or update_tasks gave it the result of another task, whatever the   *)
(* administrator and the users do meanwhile.                               *)
LeavesWithCause ==
    \A t \in born : tasks[t] = Gone => t \in finished \cup removed \cup swapped

(* t is in the store and some Due key brings a scan to it by the time x, or *)
(* by the time of its retry when its last attempt failed; or it failed for *)
(* good, and is kept as such.                                              *)
Kept(t, x) ==
    \/ tasks[t].status = "failed"
    \/ /\ tasks[t] # Gone
       /\ \E k \in dueKeys :
             k.id = t /\ (k.due <= x \/ (tasks[t].status = "retry" /\ k.due = tasks[t].due))

(* The next alarm of an event is only ever lost when build_next_alarm      *)
(* passed over it, or since the last edit that gave the event another next *)
(* alarm: the event was edited while an alarm was being sent, or left its  *)
(* next alarm alone after that was passed over, the work gave up before it *)
(* looked for the next alarm, an administrator changed the task, or sending*)
(* an alarm failed for good.  It is late only when the retry of an earlier *)
(* one is.                                                                 *)
AlarmLostNeedsCause ==
    \A t \in Events \ broken :
        LET next == NextAlarm(alarms[t], IF passed[t] > now THEN passed[t] ELSE now) IN
        next # 0 => Kept(t, next)

(* A scan reaches a Due key of t, and t is there. *)
Findable(t) ==
    /\ tasks[t] # Gone
    /\ \E k \in Reached({j \in dueKeys : j.due <= now}) : k.id = t

(* process_tasks: a task that scans find is worked on, whoever holds its   *)
(* lock meanwhile and however full the channel of its type is: it leaves   *)
(* the store, fails for good or waits for a later time.  A task that may   *)
(* share its batch with a file may get no result, however often it runs.   *)
DueIsRun ==
    \A t \in Ids : (\A s \in Silent : TypeOf[s] # TypeOf[t]) => (Findable(t) ~> ~Findable(t))
=============================================================================
