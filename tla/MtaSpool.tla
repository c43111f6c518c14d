------------------------------ MODULE MtaSpool ------------------------------
(***************************************************************************)
(* One message of the outbound SMTP queue: the keys it has in the data     *)
(* store (the message, its queue events, its quota counters, the link that *)
(* keeps its blob), the delivery workers of all the nodes that read and    *)
(* write them, and the administrator who edits them.                       *)
(*                                                                         *)
(* A message has recipients in several virtual queues.  Each queue has its *)
(* own event, its own lock and so its own worker; a worker reads the whole *)
(* message, works on its private copy for as long as the delivery takes    *)
(* and writes back in one batch.  The lock is per queue.  It runs out      *)
(* LOCK_EXPIRY after it was taken and nobody renews it, so a delivery that *)
(* takes longer may meet a second worker of its queue: worker[q] is the    *)
(* worker that started alone and worker[Late(q)] one that started while it *)
(* was still at work.                                                      *)
(*                                                                         *)
(* Time saturates: the clock stops at MaxNow and a time later than that is *)
(* MaxNow, so at the horizon every timer has fired.                        *)
(***************************************************************************)
EXTENDS Integers, FiniteSets, FiniteSetsExt

CONSTANTS
    Rcpts,       \* recipients of the message
    Queues,      \* virtual queues
    Reserved,    \* recipients whose delivery a quota was reserved for
    HomeQueues,  \* what the schedule may choose when a message is accepted:
                 \* assignments of queues to recipients
    NextQueue,   \* NextQueue[r]: other queues the schedule expression may
                 \* choose for r after a temporary failure
    Expiry,      \* Expiry[q]: the queue's QueueExpiry, [kind, n]
    NotifyAfter, \* first delay notification (the schedule has only one)
    RetryAfter,  \* retry interval
    MaxNow,      \* bound: the clock saturates here
    MaxClaims,   \* bound: events dispatched and not yet locked
    MaxEdits,    \* bound: administrator requests
    MaxTrouble   \* bound: crashes, failed writes, failed reads, administrator
                 \* requests, recipients spread over several queues and second
                 \* workers of a queue, together

(* Where the workers of a queue are kept.  Bound: two at a time.           *)
Late(q) == <<"late", q>>
Slots == Queues \cup {Late(q) : q \in Queues}
QueueOf(s) == IF s \in Queues THEN s ELSE s[2]

ASSUME SpoolAssumptions ==
    /\ IsFiniteSet(Rcpts) /\ Rcpts # {} /\ IsFiniteSet(Queues)
    /\ \A q \in Queues : Late(q) \notin Queues
    /\ Reserved \subseteq Rcpts
    /\ HomeQueues \subseteq [Rcpts -> Queues]
    /\ NextQueue \in [Rcpts -> SUBSET Queues]
    /\ Expiry \in [Queues -> [kind : {"ttl", "attempts"}, n : Nat \ {0}]]
    /\ {NotifyAfter, RetryAfter, MaxNow, MaxClaims, MaxEdits, MaxTrouble} \subseteq Nat

VARIABLES
    now,         \* wall clock; the message is created at 0
    accepted,    \* queue() has stored the message
    msg,         \* QueueClass::Message, NoMsg if the key is absent
    events,      \* QueueClass::MessageEvent keys, [queue, due]
    quota,       \* quota[r]: counter of the quota that r's entry reserves
    blobLink,    \* BlobLink::Id of the message
    claims,      \* events the queue managers dispatched, lock not yet tried
    worker,      \* worker[s]: [pc, due, view, multi]
    held,        \* queues whose KV_LOCK_QUEUE_MESSAGE is there and valid
    admin,       \* an administrator's request: [op, view]
    delivered,   \* history: delivered[r], times a server accepted r's copy,
                 \* counted up to Many
    reported,    \* history: reported[r], failure notices sent about r, up to Many
    unreported,  \* history: recipients whose failure notice was lost
    spread,      \* history: the message had recipients in several queues
    misread,     \* history: a worker that found no message, or failed to read
                 \* it, cleared the event of a message that is stored
    overruns,    \* history: workers that started while another one of their
                 \* queue was still at work
    faults,      \* history: crashes, failed writes and failed reads so far
    edits        \* history: administrator requests so far

store == <<msg, events, quota, blobLink>>
history == <<delivered, reported, unreported, spread, misread, overruns>>
vars == <<now, accepted, msg, events, quota, blobLink, claims, worker, held, admin,
          delivered, reported, unreported, spread, misread, overruns, faults, edits>>

NoMsg == [rcpts |-> <<>>, meta |-> {}]
Never == MaxNow + 1
Many == MaxTrouble + 2
Trouble == faults + edits + overruns + IF spread THEN 1 ELSE 0
Calm == Trouble < MaxTrouble
Later(d) == IF now + d > MaxNow THEN MaxNow ELSE now + d

-----------------------------------------------------------------------------
(* Message and Recipient *)

Pending(rc) == rc.status \in {"scheduled", "tempfail"}
Final(rc) == ~Pending(rc)

Expired(rc) ==
    LET e == Expiry[rc.queue] IN
    IF e.kind = "ttl" THEN e.n <= now ELSE rc.inner >= e.n

(* What next_events takes the minimum of: retry, notification, expiration. *)
NextTime(rc) ==
    LET e == Expiry[rc.queue] IN
    Min({rc.due, rc.notify} \cup IF e.kind = "ttl" THEN {e.n} ELSE {})

PendingIn(m, q) == {r \in Rcpts : Pending(m.rcpts[r]) /\ m.rcpts[r].queue = q}

NextEvents(m) ==
    {[queue |-> q, due |-> Min({NextTime(m.rcpts[r]) : r \in PendingIn(m, q)})] :
        q \in {p \in Queues : PendingIn(m, p) # {}}}

HasPending(m) == \E r \in Rcpts : Pending(m.rcpts[r])

(* Mutant: a message is never taken for one that others write too. *)
IsMultiQueue_Never(m, q) == FALSE

(* MessageWrapper::new *)
IsMultiQueue(m, q) ==
    \E r \in Rcpts : Pending(m.rcpts[r]) /\ m.rcpts[r].queue # q

(* has_pending_delivery: recipients of every queue expire. *)
MarkExpired(m) ==
    [m EXCEPT !.rcpts =
        [r \in Rcpts |-> IF Pending(@[r]) /\ Expired(@[r])
                            THEN [@[r] EXCEPT !.status = "permfail"]
                            ELSE @[r]]]

(* Mutant: a recipient that expires before any attempt is not reported. *)
FailureNotices_Attempted(m) ==
    {r \in Rcpts : /\ m.rcpts[r].status = "permfail" /\ ~m.rcpts[r].dsnSent
                  /\ m.rcpts[r].inner > 0}

(* send_dsn: the recipients a failure notice goes out about, and the       *)
(* message after build_dsn and update_next_dsn.                            *)
FailureNotices(m) ==
    {r \in Rcpts : m.rcpts[r].status = "permfail" /\ ~m.rcpts[r].dsnSent}

(* Mutant: RCPT_DSN_SENT is not set. *)
AfterDsn_NoFlag(m) ==
    [m EXCEPT !.rcpts =
        [r \in Rcpts |-> IF Pending(@[r]) /\ @[r].notify <= now
                            THEN [@[r] EXCEPT !.notify = Never]
                            ELSE @[r]]]

AfterDsn(m) ==
    [m EXCEPT !.rcpts =
        [r \in Rcpts |->
            IF Final(@[r]) THEN [@[r] EXCEPT !.dsnSent = TRUE]
            ELSE IF @[r].notify <= now THEN [@[r] EXCEPT !.notify = Never]
            ELSE @[r]]]

(* Counts one more for each recipient in rs. *)
Counted(f, rs) == [r \in Rcpts |-> IF r \in rs /\ f[r] < Many THEN f[r] + 1 ELSE f[r]]

Idle == [pc |-> "idle", due |-> 0, view |-> NoMsg, multi |-> FALSE]
NoRequest == [op |-> "none", view |-> NoMsg]

Statuses == {"scheduled", "tempfail", "completed", "permfail"}
Recipient == [queue : Queues, status : Statuses, due : 0..MaxNow, inner : Nat,
              notify : 0..Never, dsnSent : BOOLEAN]
Message == [rcpts : [Rcpts -> Recipient], meta : SUBSET Rcpts]
Event == [queue : Queues, due : 0..MaxNow]

(* The keys of the message and the copies of its workers keep their type.  *)
TypeOK ==
    /\ now \in 0..MaxNow
    /\ {accepted, blobLink, spread, misread} \subseteq BOOLEAN
    /\ msg \in Message \cup {NoMsg}
    /\ events \subseteq Event /\ claims \subseteq Event
    /\ quota \in [Rcpts -> Int]
    /\ worker \in [Slots -> [pc : {"idle", "gone", "deliver", "save", "remove"},
                             due : 0..MaxNow, view : Message \cup {NoMsg},
                             multi : BOOLEAN]]
    /\ held \subseteq Queues
    /\ admin \in [op : {"none", "touch", "retry", "reschedule", "cancel", "destroy"},
                  view : Message \cup {NoMsg}]
    /\ delivered \in [Rcpts -> Nat] /\ reported \in [Rcpts -> Nat]
    /\ unreported \subseteq Rcpts
    /\ overruns \in 0..MaxTrouble
    /\ faults \in 0..MaxTrouble /\ edits \in 0..MaxEdits

Init ==
    /\ now = 0
    /\ accepted = FALSE
    /\ msg = NoMsg
    /\ events = {}
    /\ quota = [r \in Rcpts |-> 0]
    /\ blobLink = FALSE
    /\ claims = {}
    /\ worker = [s \in Slots |-> Idle]
    /\ held = {}
    /\ admin = NoRequest
    /\ delivered = [r \in Rcpts |-> 0]
    /\ reported = [r \in Rcpts |-> 0]
    /\ unreported = {}
    /\ spread = FALSE
    /\ misread = FALSE
    /\ overruns = 0
    /\ faults = 0
    /\ edits = 0

-----------------------------------------------------------------------------
(* queue(): one batch reserves the quotas, sets the events and the blob    *)
(* link and stores the message.  A write that fails stores nothing.        *)
NewMessage(home) ==
    [rcpts |-> [r \in Rcpts |-> [queue |-> home[r], status |-> "scheduled",
                                 due |-> now, inner |-> 0,
                                 notify |-> Later(NotifyAfter),
                                 dsnSent |-> FALSE]],
     meta |-> Reserved]

Enqueue(home) ==
    /\ ~accepted /\ now = 0
    /\ accepted' = TRUE
    /\ msg' = NewMessage(home)
    /\ events' = NextEvents(NewMessage(home))
    /\ quota' = [r \in Rcpts |-> quota[r] + IF r \in Reserved THEN 1 ELSE 0]
    /\ blobLink' = TRUE
    /\ spread' = (Cardinality({home[r] : r \in Rcpts}) > 1)
    /\ UNCHANGED <<now, claims, worker, held, admin, delivered, reported, unreported,
                   misread, overruns, faults, edits>>

(* next_event of some node's queue manager dispatches a due event.         *)
Dispatch(e) ==
    /\ e.due <= now
    /\ Cardinality(claims) < MaxClaims
    /\ claims' = claims \cup {e}
    /\ UNCHANGED <<now, accepted, store, worker, held, admin, history, faults, edits>>

(* try_lock_event fails: WorkerDone with status Locked. *)
Locked(e) ==
    /\ e.queue \in held
    /\ claims' = claims \ {e}
    /\ UNCHANGED <<now, accepted, store, worker, held, admin, history, faults, edits>>

-----------------------------------------------------------------------------
(* try_deliver and deliver_task *)

(* A failure notice about the recipients in rs is queued, unless the write *)
(* of the notice fails, which send_dsn does not look at.                   *)
Notify(rs) ==
    \/ /\ reported' = Counted(reported, rs)
       /\ UNCHANGED unreported
    \/ /\ rs # {} /\ Calm
       /\ unreported' = unreported \cup rs
       /\ UNCHANGED reported

Goto(s, pc, m) == worker' = [worker EXCEPT ![s].pc = pc, ![s].view = m]

Busy(q) == \E s \in Slots : QueueOf(s) = q /\ worker[s].pc # "idle"

(* LOCK_EXPIRY is over: the lock is free.  A worker that is still at work  *)
(* is not told.                                                            *)
LockExpires(q) ==
    /\ q \in held
    /\ Busy(q) => Calm
    /\ held' = held \ {q}
    /\ UNCHANGED <<now, accepted, store, claims, worker, admin, history, faults, edits>>

(* The lock is taken and the message read; expired recipients fail, due    *)
(* notices go out, and the worker finds out what there is to do.  A read   *)
(* that fails is taken for a message that is gone.                         *)
Begin(e) ==
    LET q == e.queue
        s == IF worker[q].pc = "idle" THEN q ELSE Late(q)
        m == MarkExpired(msg)
        due == {r \in PendingIn(m, q) : m.rcpts[r].due <= now}
    IN
    /\ q \notin held /\ worker[s].pc = "idle"
    /\ Busy(q) => Calm
    /\ overruns' = overruns + IF Busy(q) THEN 1 ELSE 0
    /\ held' = held \cup {q}
    /\ claims' = claims \ {e}
    /\ \/ /\ \/ msg = NoMsg /\ UNCHANGED faults
             \/ msg # NoMsg /\ Calm /\ faults' = faults + 1
          /\ worker' = [worker EXCEPT ![s] = [Idle EXCEPT !.pc = "gone", !.due = e.due]]
          /\ UNCHANGED <<delivered, reported, unreported>>
       \/ /\ msg # NoMsg
          /\ worker' = [worker EXCEPT ![s] =
                [pc |-> IF due # {} THEN "deliver"
                        ELSE IF HasPending(m) THEN "save"
                        ELSE "remove",
                 due |-> e.due,
                 view |-> AfterDsn(m),
                 multi |-> IsMultiQueue(msg, q)]]
          /\ Notify(FailureNotices(m))
          /\ UNCHANGED <<delivered, faults>>
    /\ UNCHANGED <<now, accepted, store, admin, spread, misread, edits>>

(* The sender is throttled: the due recipients of the queue wait.          *)
Throttled(s) ==
    LET m == worker[s].view
        due == {r \in PendingIn(m, QueueOf(s)) : m.rcpts[r].due <= now}
    IN
    /\ worker[s].pc = "deliver"
    /\ Goto(s, "save", [m EXCEPT !.rcpts = [r \in Rcpts |->
            IF r \in due THEN [@[r] EXCEPT !.status = "tempfail", !.due = Later(1)]
                         ELSE @[r]]])
    /\ UNCHANGED <<now, accepted, store, claims, held, admin, history, faults, edits>>

(* set_rcpt_status and set_rcpt_rate_limit: a temporary failure evaluates  *)
(* the schedule again, which may move the recipient to another queue.      *)
SetStatus(rc, outcome, q) ==
    CASE outcome = "tempfail" ->
            [rc EXCEPT !.status = "tempfail", !.due = Later(RetryAfter),
                       !.inner = @ + 1, !.queue = q]
      [] outcome = "limited" ->
            [rc EXCEPT !.status = "tempfail", !.due = Later(1)]
      [] OTHER -> [rc EXCEPT !.status = outcome]

(* The attempt: an outcome for every due recipient of the queue, notices,  *)
(* and the message is either kept for later or done with.                  *)
Attempt(s) ==
    LET m == worker[s].view
        due == {r \in PendingIn(m, QueueOf(s)) : m.rcpts[r].due <= now}
    IN
    /\ worker[s].pc = "deliver"
    /\ \E outcome \in [due -> {"completed", "permfail", "tempfail", "limited"}] :
       \E to \in [due -> Queues] :
          LET tried == [m EXCEPT !.rcpts = [r \in Rcpts |->
                  IF r \in due THEN SetStatus(@[r], outcome[r], to[r]) ELSE @[r]]]
          IN
          /\ \A r \in due : \/ to[r] = m.rcpts[r].queue
                            \/ outcome[r] = "tempfail" /\ to[r] \in NextQueue[r]
          /\ spread' = (spread \/ \E r \in due : to[r] # m.rcpts[r].queue)
          /\ delivered' = Counted(delivered, {r \in due : outcome[r] = "completed"})
          /\ Notify(FailureNotices(tried))
          /\ Goto(s, IF HasPending(tried) THEN "save" ELSE "remove", AfterDsn(tried))
    /\ UNCHANGED <<now, accepted, store, claims, held, admin, misread, overruns,
                   faults, edits>>

-----------------------------------------------------------------------------
(* The batches *)

Done(m) == {r \in Rcpts : Final(m.rcpts[r])}
Released(rs) == quota' = [r \in Rcpts |-> quota[r] - IF r \in rs THEN 1 ELSE 0]

Leave(s) == worker' = [worker EXCEPT ![s] = Idle]

(* unlock_event deletes the lock of the queue, whoever took it.            *)
Finish(s) == Leave(s) /\ held' = held \ {QueueOf(s)}

(* Mutant: released quota entries stay with the message. *)
AfterRelease_KeepMeta(m) == m

(* release_quota: the message without the entries of finished recipients.  *)
AfterRelease(m) == [m EXCEPT !.meta = @ \ Done(m)]

(* Mutant: the event is cleared after the new ones are set. *)
Rescheduled_ClearLast(q, due, m) ==
    (events \cup NextEvents(m)) \ {[queue |-> q, due |-> due]}

(* The event that was worked on makes room for the next ones, of all the   *)
(* queues the worker's copy of the message has recipients in.              *)
Rescheduled(q, due, m) ==
    (events \ {[queue |-> q, due |-> due]}) \cup NextEvents(m)

(* The stored message takes the worker's recipients, those of its queue.   *)
Merged(m, q) ==
    [msg EXCEPT !.rcpts = [r \in Rcpts |->
        IF m.rcpts[r].queue = q THEN m.rcpts[r] ELSE @[r]]]

(* save_changes: release the quotas of finished recipients, replace the    *)
(* event, and write the message: merged recipient by recipient when others *)
(* may be writing too, whole otherwise.                                    *)
SaveChanges(s) ==
    LET w == worker[s]
        q == QueueOf(s)
        saved == AfterRelease(w.view)
    IN
    /\ w.pc = "save"
    /\ w.multi => msg # NoMsg
    /\ msg' = IF w.multi THEN Merged(saved, q) ELSE saved
    /\ events' = Rescheduled(q, w.due, saved)
    /\ Released(w.view.meta \cap Done(w.view))
    /\ Finish(s)
    /\ UNCHANGED <<now, accepted, blobLink, claims, admin, history, faults, edits>>

(* The merge finds no message: the whole batch is refused and the worker   *)
(* reports Deferred all the same.                                          *)
SaveRefused(s) ==
    /\ worker[s].pc = "save" /\ worker[s].multi /\ msg = NoMsg
    /\ Finish(s)
    /\ UNCHANGED <<now, accepted, store, claims, admin, history, faults, edits>>

(* remove *)
Remove(s) ==
    /\ worker[s].pc = "remove"
    /\ msg' = NoMsg
    /\ events' = events \ {[queue |-> QueueOf(s), due |-> worker[s].due]}
    /\ Released(worker[s].view.meta)
    /\ blobLink' = FALSE
    /\ Finish(s)
    /\ UNCHANGED <<now, accepted, claims, admin, history, faults, edits>>

(* Mutant: the event of a message that is gone stays. *)
ClearEvent_Keep(s) ==
    /\ worker[s].pc = "gone"
    /\ Finish(s)
    /\ UNCHANGED <<now, accepted, store, claims, admin, history, faults, edits>>

(* The message was gone when the worker read it: its event goes too.       *)
ClearEvent(s) ==
    /\ worker[s].pc = "gone"
    /\ events' = events \ {[queue |-> QueueOf(s), due |-> worker[s].due]}
    /\ misread' = (misread \/ msg # NoMsg)
    /\ Finish(s)
    /\ UNCHANGED <<now, accepted, msg, quota, blobLink, claims, admin, delivered,
                   reported, unreported, spread, overruns, faults, edits>>

(* The node dies and its lock stays until it runs out, or the batch fails  *)
(* and its result is ignored.                                              *)
Fault(s) ==
    /\ worker[s].pc # "idle" /\ Calm
    /\ faults' = faults + 1
    /\ Leave(s) /\ held' \in {held, held \ {QueueOf(s)}}
    /\ UNCHANGED <<now, accepted, store, claims, admin, history, edits>>

-----------------------------------------------------------------------------
(* queued_message_set: the administrator takes no lock. *)

AdminRead(op) ==
    /\ admin = NoRequest /\ msg # NoMsg /\ edits < MaxEdits /\ Calm
    /\ admin' = [op |-> op, view |-> msg]
    /\ edits' = edits + 1
    /\ UNCHANGED <<now, accepted, store, claims, worker, held, history, faults>>

(* What an update may change: `touch` the priority or the envelope id only, *)
(* `retry` the retry time of recipients, `reschedule` makes recipients     *)
(* Scheduled again, `cancel` fails the recipients left out of the request. *)
Edited(m, op, rs) ==
    [m EXCEPT !.rcpts = [r \in Rcpts |->
        IF r \notin rs THEN @[r]
        ELSE CASE op = "retry" -> [@[r] EXCEPT !.due = now]
               [] op = "reschedule" -> [@[r] EXCEPT !.status = "scheduled"]
               [] op = "cancel" -> [@[r] EXCEPT !.status = "permfail"]]]

EditTargets(m, op) ==
    CASE op = "touch" -> {{}}
      [] op = "retry" -> SUBSET {r \in Rcpts : m.rcpts[r].due # now}
      [] op = "reschedule" -> SUBSET {r \in Rcpts : m.rcpts[r].status # "scheduled"}
      [] op = "cancel" -> SUBSET Rcpts
      [] OTHER -> {}

(* Mutant: the events are taken away and none is set for the new times. *)
Replanned_NoSet(m) == events \ NextEvents(admin.view)

(* The events of the message as it was read make room for the new ones.    *)
Replanned(m) == (events \ NextEvents(admin.view)) \cup NextEvents(m)

(* save_registry_changes, or remove_registry when nothing is left to do;   *)
(* nothing at all when nothing changed or the message is gone.             *)
AdminUpdate(rs) ==
    LET m == Edited(admin.view, admin.op, rs)
        saved == AfterRelease(m)
        changed == rs # {} \/ admin.op = "touch"
    IN
    /\ rs \in EditTargets(admin.view, admin.op)
    /\ \/ /\ ~changed \/ (HasPending(m) /\ msg = NoMsg)
          /\ UNCHANGED store
       \/ /\ changed /\ HasPending(m) /\ msg # NoMsg
          /\ Released(m.meta \cap Done(m))
          /\ events' = Replanned(saved)
          /\ msg' = [msg EXCEPT !.rcpts = [r \in Rcpts |->
                        IF r \in rs THEN saved.rcpts[r] ELSE @[r]]]
          /\ UNCHANGED blobLink
       \/ /\ changed /\ ~HasPending(m)
          /\ Released(m.meta)
          /\ events' = events \ NextEvents(admin.view)
          /\ msg' = NoMsg
          /\ blobLink' = FALSE
    /\ admin' = NoRequest
    /\ UNCHANGED <<now, accepted, claims, worker, held, history, faults, edits>>

(* destroy: remove(None) clears the events of the view it read.            *)
AdminDestroy ==
    /\ admin.op = "destroy"
    /\ msg' = NoMsg
    /\ events' = events \ NextEvents(admin.view)
    /\ Released(admin.view.meta)
    /\ blobLink' = FALSE
    /\ admin' = NoRequest
    /\ UNCHANGED <<now, accepted, claims, worker, held, history, faults, edits>>

Tick ==
    /\ accepted /\ now < MaxNow
    /\ now' = now + 1
    /\ UNCHANGED <<accepted, store, claims, worker, held, admin, history, faults, edits>>

(* A dispatched event is tried, and a worker of a queue does its work.     *)
Pick(q) == \E e \in claims : e.queue = q /\ (Begin(e) \/ Locked(e))

Work(s) ==
    \/ Throttled(s) \/ Attempt(s)
    \/ SaveChanges(s) \/ SaveRefused(s) \/ Remove(s) \/ ClearEvent(s)

Next ==
    \/ \E home \in HomeQueues : Enqueue(home)
    \/ \E e \in events : Dispatch(e)
    \/ \E q \in Queues : Pick(q) \/ LockExpires(q)
    \/ \E s \in Slots : Work(s) \/ Fault(s)
    \/ \E op \in {"touch", "retry", "reschedule", "cancel", "destroy"} : AdminRead(op)
    \/ \E rs \in SUBSET Rcpts : AdminUpdate(rs)
    \/ AdminDestroy
    \/ Tick

Spec == Init /\ [][Next]_vars

(* The runtime polls every spawned worker, a manager's scan visits every   *)
(* due event, and time passes: a lock that nobody works under runs out.    *)
(* Crashes, failed writes, administrators and deliveries that outlast      *)
(* their lock are not fair.                                                *)
FairSpec ==
    /\ Spec
    /\ WF_vars(\E home \in HomeQueues : Enqueue(home)) /\ WF_vars(Tick)
    /\ \A q \in Queues :
          /\ SF_vars(\E e \in events : e.queue = q /\ Dispatch(e))
          /\ WF_vars(Pick(q))
          /\ WF_vars(~Busy(q) /\ LockExpires(q))
    /\ \A s \in Slots : WF_vars(Work(s))

-----------------------------------------------------------------------------
(* A stored message always has an event, so some worker will come back to  *)
(* it whatever dies in between.  Only a worker that took the message for   *)
(* gone clears the last event of one that is there.                        *)
NotStranded == msg # NoMsg /\ ~misread => events # {}

(* Every pending recipient has an event of its own queue that fires no     *)
(* later than the recipient is due, also under an administrator who edits  *)
(* the message without its lock.                                           *)
RcptScheduled ==
    msg # NoMsg /\ ~misread => \A r \in Rcpts :
        Pending(msg.rcpts[r]) =>
            \E e \in events : /\ e.queue = msg.rcpts[r].queue
                              /\ e.due <= NextTime(msg.rcpts[r])

Working(s) == worker[s].pc \in {"deliver", "save", "remove"}

(* A worker delivers or saves a copy that has something left to do and     *)
(* removes the message for one that has not; who works on a copy has read  *)
(* one.                                                                    *)
CopiesReal ==
    /\ \A s \in Slots :
          /\ Working(s) <=> worker[s].view # NoMsg
          /\ worker[s].pc \in {"deliver", "save"} => HasPending(worker[s].view)
          /\ worker[s].pc = "remove" => ~HasPending(worker[s].view)
    /\ admin.op = "none" <=> admin.view = NoMsg
    /\ edits = 0 => admin = NoRequest

(* A queue has one worker, which is what its lock is for, unless a worker  *)
(* takes longer than the lock lasts and another one starts.                *)
OneWorker == overruns = 0 => \A q \in Queues : worker[Late(q)].pc = "idle"

(* What a stored message or a copy says happened did happen: the outcome   *)
(* of each recipient that is done was a delivery or a notice, and the flag *)
(* that the notice went out is set exactly on those.                       *)
Settled(m) ==
    \A r \in Rcpts :
        /\ m.rcpts[r].dsnSent <=> Final(m.rcpts[r])
        /\ m.rcpts[r].status = "completed" => delivered[r] > 0
        /\ m.rcpts[r].status = "permfail" => reported[r] > 0 \/ r \in unreported

OutcomesKnown ==
    edits = 0 =>
        /\ msg # NoMsg => Settled(msg)
        /\ \A s \in Slots : Working(s) => Settled(worker[s].view)

(* A message that was not spread is worked on in one queue c by one worker *)
(* at a time, and nobody else writes it meanwhile, as long as no lock runs *)
(* out under its worker.                                                   *)
InQueue(m, c) == \A r \in Rcpts : m.rcpts[r].queue = c

Alone(c) ==
    /\ \A e \in events \cup claims : e.queue = c
    /\ msg # NoMsg => InQueue(msg, c)
    /\ \A q \in Queues :
          /\ worker[q].pc # "idle" => q = c
          /\ Working(q) => /\ msg # NoMsg /\ ~worker[q].multi
                           /\ InQueue(worker[q].view, c)
                           /\ worker[q].view.meta = msg.meta

NotShared ==
    /\ ~accepted => /\ events = {} /\ claims = {} /\ msg = NoMsg
                    /\ ~spread /\ edits = 0
                    /\ \A s \in Slots : worker[s].pc = "idle"
                    /\ \A r \in Rcpts : delivered[r] = 0 /\ reported[r] = 0
    /\ accepted /\ edits = 0 /\ ~spread /\ overruns = 0 => \E c \in Queues : Alone(c)

(* What a worker of q has in its copy for r, which of it is q's own, and   *)
(* which of it save_changes would write.                                   *)
Copy(q, r) == worker[q].view.rcpts[r]
Own(q, r) == Copy(q, r).queue = q
Writes(q, r) == Own(q, r) \/ ~worker[q].multi

(* Two copies of the message never disagree on a recipient they would both *)
(* write, and only the worker of its queue can know more about a recipient *)
(* than the stored message.  So a recipient that is pending in what is     *)
(* stored or would be written was not delivered yet.  All this is the      *)
(* lock's doing, and ends with it.                                         *)
AgreesWithStore(q, r) ==
    /\ Own(q, r) => msg.rcpts[r].queue = q
    /\ Writes(q, r) /\ Pending(Copy(q, r)) => Pending(msg.rcpts[r])
    /\ ~worker[q].multi /\ msg.rcpts[r].queue # q =>
          /\ Final(msg.rcpts[r]) /\ Final(Copy(q, r))
          /\ Copy(q, r).queue = msg.rcpts[r].queue

AgreesWithCopy(q, p, r) ==
    /\ Own(q, r) => ~Own(p, r)
    /\ Own(q, r) /\ ~worker[p].multi =>
          Final(Copy(q, r)) /\ Final(Copy(p, r)) /\ Copy(p, r).queue = q
    /\ ~worker[q].multi /\ ~worker[p].multi => Final(Copy(q, r))

KnowsMore(r) ==
    LET c == msg.rcpts[r].queue IN Working(c) /\ Own(c, r) /\ Final(Copy(c, r))

CopiesAgree ==
    edits = 0 /\ overruns = 0 => \A r \in Rcpts :
        /\ \A q \in Queues : Working(q) =>
              /\ msg # NoMsg => AgreesWithStore(q, r)
              /\ Writes(q, r) /\ Pending(Copy(q, r)) => delivered[r] <= faults
              /\ \A p \in Queues \ {q} : Working(p) => AgreesWithCopy(q, p, r)
        /\ msg # NoMsg /\ Pending(msg.rcpts[r]) => delivered[r] <= faults \/ KnowsMore(r)

(* Without a crash or a lost write between an attempt and its save, and as *)
(* long as no delivery outlasts its lock, no recipient gets the message    *)
(* twice.                                                                  *)
DeliveredOnce == edits = 0 /\ overruns = 0 => \A r \in Rcpts : delivered[r] <= 1 + faults

(* A message leaves the queue only when every recipient got it or the      *)
(* sender was told (or the telling itself failed).                         *)
Accounted ==
    accepted /\ msg = NoMsg /\ edits = 0 =>
        \A r \in Rcpts : \/ delivered[r] > 0
                          \/ reported[r] > 0
                          \/ r \in unreported

(* The sender is told at most once that a recipient failed, and not before *)
(* the flag is set, as long as the recipients are all in one queue and no  *)
(* delivery outlasts its lock.                                             *)
Unsent(m, r) == m # NoMsg /\ ~m.rcpts[r].dsnSent

ReportedOnce ==
    edits = 0 /\ ~spread /\ overruns = 0 => \A r \in Rcpts :
        /\ reported[r] <= 1 + faults
        /\ \A q \in Queues : Unsent(worker[q].view, r) => reported[r] <= faults
        /\ (\A q \in Queues : ~Working(q)) /\ Unsent(msg, r) => reported[r] <= faults

(* The quota counters hold what the stored message has reserved, as long   *)
(* as no worker merges its copy, no administrator edits the message and no *)
(* delivery outlasts its lock.                                             *)
QuotaConserved ==
    edits = 0 /\ ~spread /\ overruns = 0 =>
        \A r \in Rcpts : quota[r] = IF r \in msg.meta THEN 1 ELSE 0

(* The queue drains: whatever the remote servers answer, a message leaves  *)
(* the queue and takes its events with it, unless it was stranded by a     *)
(* worker that could not read it.                                          *)
Drains == accepted ~> (misread \/ (msg = NoMsg /\ events = {}))

(* Types, and no stored message without an event: SmtpSpool::next_event    *)
(* finds a message by its events alone, so this is what keeps mail from    *)
(* being forgotten by queue, save_changes and the administrator; and what  *)
(* the workers of try_deliver know of the message while they work on it.   *)
SpoolInv ==
    /\ TypeOK /\ NotStranded /\ CopiesReal /\ OneWorker
    /\ OutcomesKnown /\ NotShared /\ CopiesAgree

=============================================================================
