---------------------------- MODULE QueueManager ----------------------------
(***************************************************************************)
(* The queue manager of one node (Queue::start): the loop that receives    *)
(* the reports of its delivery workers and the requests of the rest of the *)
(* server, scans the due events of the store and spawns a worker for each  *)
(* one, within the number of threads of its virtual queue.  Other nodes    *)
(* work on the same events; the lock in the store decides who gets one.    *)
(*                                                                         *)
(* Times are relative: seconds until an event is due, a `locked` entry     *)
(* expires or the queue is refreshed, so that time can go on for ever.     *)
(* `locked_revision` is not a variable: between two scans every entry of   *)
(* `locked` has the current revision, and a scan keeps what it touched.    *)
(***************************************************************************)
EXTENDS Integers, Sequences, FiniteSets, FiniteSetsExt

CONSTANTS
    Msgs,        \* (queue id, queue name) pairs that have an event
    Queues,      \* virtual queues
    QueueOf,     \* QueueOf[m]: the queue name in m
    MaxThreads,  \* bound: threads of a virtual queue
    LockedFor,   \* LOCK_EXPIRY and the random delay added to it
    Refresh,     \* QUEUE_REFRESH
    MaxDue,      \* bound: longest delay of a deferred message
    MaxChan,     \* capacity of the manager's channel
    MaxRequests  \* bound: requests to the manager (refresh, pause, reload, stop),
                 \* new events, failed scans and workers that panic

ASSUME ManagerAssumptions ==
    /\ IsFiniteSet(Msgs) /\ IsFiniteSet(Queues)
    /\ QueueOf \in [Msgs -> Queues]
    /\ {MaxThreads, LockedFor, Refresh, MaxDue, MaxChan} \subseteq Nat \ {0}
    /\ MaxRequests \in Nat
    /\ Refresh < LockedFor

VARIABLES
    due,         \* due[m]: seconds until the event in the store is due, Gone
    storeLock,   \* storeLock[m]: who holds the lock in the store
    pc,          \* the manager: waiting, draining its channel, or stopped
    chan,        \* events sent to the manager
    refresh,     \* refresh_queue of the current turn of the loop
    refreshIn,   \* seconds until next_refresh, Forever when paused
    locked,      \* locked[m]: seconds until the entry expires, Forever, None
    inFlight,    \* stats[q].in_flight
    maxInFlight, \* stats[q].max_in_flight
    paused,      \* is_paused
    closed,      \* the receiving end of the channel was closed
    spawned,     \* spawned[m]: workers that have not tried the lock yet
    panics,      \* panics[q]: history, workers that ended without a report
    requests     \* history: what MaxRequests bounds

manager == <<pc, refresh, refreshIn, locked, inFlight, maxInFlight, paused, closed>>
vars == <<due, storeLock, pc, chan, refresh, refreshIn, locked, inFlight,
          maxInFlight, paused, closed, spawned, panics, requests>>

Gone == -1                      \* no event in the store
None == -1                      \* no entry in `locked`
Forever == Refresh + LockedFor + MaxDue
                                \* INFINITE_LOCK, or the day a pause waits

Report(m, status) == [type |-> "done", msg |-> m, status |-> status]
Request(t) == [type |-> t]

Of(q) == {m \in Msgs : QueueOf[m] = q}
HasCapacity(q) == inFlight[q] < maxInFlight[q]
Entries(l) == {m \in Msgs : l[m] # None}

Init ==
    /\ due = [m \in Msgs |-> 0]
    /\ storeLock = [m \in Msgs |-> "free"]
    /\ pc = "wait"
    /\ chan = <<>>
    /\ refresh = FALSE
    /\ refreshIn = 1
    /\ locked = [m \in Msgs |-> None]
    /\ inFlight = [q \in Queues |-> 0]
    /\ maxInFlight = [q \in Queues |-> MaxThreads]
    /\ paused = FALSE
    /\ closed = FALSE
    /\ spawned = [m \in Msgs |-> 0]
    /\ panics = [q \in Queues |-> 0]
    /\ requests = 0

-----------------------------------------------------------------------------
(* handle_event: `wants` is what it returns, whether to refresh the queue. *)

Handle(wants) ==
    /\ pc' = "drain"
    /\ chan' = Tail(chan)
    /\ refresh' = (refresh \/ wants)

Received(type) == pc # "stopped" /\ chan # <<>> /\ Head(chan).type = type

(* in_flight is decremented before the capacity is looked at.              *)
Freed(q) == [inFlight EXCEPT ![q] = @ - 1]

HandleCompleted(e) ==
    LET q == QueueOf[e.msg] IN
    /\ e.status = "completed"
    /\ inFlight' = Freed(q)
    /\ locked' = [locked EXCEPT ![e.msg] = None]
    /\ Handle(Entries(locked') # {} \/ ~(inFlight'[q] < maxInFlight[q]))
    /\ UNCHANGED refreshIn

(* Mutant: the entry of a deferred message stays. *)
HandleDeferred_KeepEntry(e) ==
    /\ e.status = "deferred"
    /\ inFlight' = Freed(QueueOf[e.msg])
    /\ Handle(TRUE)
    /\ UNCHANGED <<locked, refreshIn>>

HandleDeferred(e) ==
    /\ e.status = "deferred"
    /\ inFlight' = Freed(QueueOf[e.msg])
    /\ locked' = [locked EXCEPT ![e.msg] = None]
    /\ Handle(TRUE)
    /\ UNCHANGED refreshIn

HandleLocked(e) ==
    LET q == QueueOf[e.msg] IN
    /\ e.status = "locked"
    /\ inFlight' = Freed(q)
    /\ locked' = [locked EXCEPT ![e.msg] = LockedFor]
    /\ refreshIn' = Min({refreshIn, LockedFor})
    /\ Handle(Cardinality(Entries(locked')) > 1 \/ ~(inFlight'[q] < maxInFlight[q]))

HandleDone ==
    /\ Received("done")
    /\ \/ HandleCompleted(Head(chan))
       \/ HandleDeferred(Head(chan))
       \/ HandleLocked(Head(chan))
    /\ UNCHANGED <<due, storeLock, maxInFlight, paused, closed, spawned, panics,
                   requests>>

HandleRefresh ==
    /\ Received("refresh")
    /\ Handle(TRUE)
    /\ UNCHANGED <<paused, closed, maxInFlight>>

(* Mutant: resuming does not ask for a refresh. *)
HandlePaused_NoRefresh ==
    /\ Received("pause") \/ Received("resume")
    /\ paused' = (Head(chan).type = "pause")
    /\ Handle(FALSE)
    /\ UNCHANGED <<closed, maxInFlight>>

HandlePaused ==
    /\ Received("pause") \/ Received("resume")
    /\ paused' = (Head(chan).type = "pause")
    /\ Handle(~paused')
    /\ UNCHANGED <<closed, maxInFlight>>

HandleReload ==
    /\ Received("reload")
    /\ \E n \in 1..MaxThreads : maxInFlight' = [q \in Queues |-> n]
    /\ Handle(FALSE)
    /\ UNCHANGED <<paused, closed>>

HandleStop ==
    /\ Received("stop")
    /\ closed' = TRUE
    /\ paused' = TRUE
    /\ Handle(FALSE)
    /\ UNCHANGED maxInFlight

HandleRequest ==
    /\ HandleRefresh \/ HandlePaused \/ HandleReload \/ HandleStop
    /\ UNCHANGED <<due, storeLock, refreshIn, locked, inFlight, spawned, panics,
                   requests>>

-----------------------------------------------------------------------------
(* The rest of a turn of the loop *)

(* The events a scan gets to see: all of them, or only some of the due     *)
(* ones when the iteration over the store fails on the way.                *)
Due == {m \in Msgs : due[m] = 0}
Seen(failed) == IF failed THEN SUBSET Due ELSE {{m \in Msgs : due[m] # Gone}}

(* What next_event reads and touches: due events of queues with capacity,  *)
(* whatever the scan itself will add.                                      *)
Touched(seen) == {m \in seen \cap Due : HasCapacity(QueueOf[m])}
Taken(seen) == {m \in Touched(seen) : locked[m] <= 0}
Waiting(seen) == Touched(seen) \ Taken(seen)

NextRefresh(seen) ==
    Min({Refresh} \cup {due[m] : m \in seen \ Due}
                  \cup {locked[m] : m \in Waiting(seen)})

(* As many of the taken events as the threads allow get a worker, the rest *)
(* are forgotten; then the entries the scan did not touch are dropped.     *)
Allowed(spawn, taken) ==
    \A q \in Queues :
        Cardinality(spawn \cap Of(q)) =
            Min({Cardinality(taken \cap Of(q)),
                 Max({0, maxInFlight[q] - inFlight[q]})})

ScanDue ==
    /\ pc # "stopped" /\ chan = <<>> /\ ~paused
    /\ pc = "drain" \/ refreshIn = 0
    /\ refresh \/ refreshIn = 0

Scan(spawn, failed) ==
    /\ ScanDue
    /\ failed => requests < MaxRequests
    /\ requests' = requests + IF failed THEN 1 ELSE 0
    /\ \E seen \in Seen(failed) :
          /\ spawn \subseteq Taken(seen) /\ Allowed(spawn, Taken(seen))
          /\ locked' = [m \in Msgs |-> IF m \in spawn THEN Forever
                                       ELSE IF m \in Waiting(seen) THEN locked[m]
                                       ELSE None]
          /\ refreshIn' = NextRefresh(seen)
    /\ spawned' = [m \in Msgs |-> spawned[m] + IF m \in spawn THEN 1 ELSE 0]
    /\ inFlight' = [q \in Queues |-> inFlight[q] + Cardinality(spawn \cap Of(q))]
    /\ pc' = "wait"
    /\ refresh' = FALSE
    /\ UNCHANGED <<due, storeLock, chan, maxInFlight, paused, closed, panics>>

(* Nothing to refresh, or the queue is paused. *)
EndTurn ==
    /\ pc # "stopped" /\ chan = <<>>
    /\ \/ /\ ~paused /\ pc = "drain" /\ ~refresh /\ refreshIn > 0
          /\ UNCHANGED refreshIn
       \/ /\ paused /\ (pc = "drain" \/ refreshIn = 0)
          /\ refreshIn' = Forever
    /\ pc' = "wait"
    /\ refresh' = FALSE
    /\ UNCHANGED <<due, storeLock, chan, locked, inFlight, maxInFlight, paused,
                   closed, spawned, panics, requests>>

(* recv returns None: the channel is closed and drained. *)
Stopped ==
    /\ pc = "wait" /\ closed /\ chan = <<>>
    /\ pc' = "stopped"
    /\ UNCHANGED <<due, storeLock, chan, refresh, refreshIn, locked, inFlight,
                   maxInFlight, paused, closed, spawned, panics, requests>>

-----------------------------------------------------------------------------
(* try_deliver *)

(* Sending waits for room in the channel and fails once it is closed.      *)
Send(e) ==
    \/ /\ ~closed /\ Len(chan) < MaxChan
       /\ chan' = Append(chan, e)
    \/ /\ closed
       /\ UNCHANGED chan

TryLock(m) ==
    /\ spawned[m] > 0
    /\ spawned' = [spawned EXCEPT ![m] = @ - 1]
    /\ \/ /\ storeLock[m] = "free"
          /\ storeLock' = [storeLock EXCEPT ![m] = "here"]
          /\ UNCHANGED chan
       \/ /\ storeLock[m] # "free"
          /\ Send(Report(m, "locked"))
          /\ UNCHANGED storeLock
    /\ UNCHANGED <<due, manager, panics, requests>>

(* The worker removes the event, or defers it; then it unlocks and reports. *)
Deliver(m) ==
    /\ storeLock[m] = "here"
    /\ \/ /\ due' = [due EXCEPT ![m] = Gone]
          /\ Send(Report(m, "completed"))
       \/ /\ due[m] # Gone
          /\ \E d \in 1..MaxDue : due' = [due EXCEPT ![m] = d]
          /\ Send(Report(m, "deferred"))
    /\ storeLock' = [storeLock EXCEPT ![m] = "free"]
    /\ UNCHANGED <<manager, spawned, panics, requests>>

(* A worker that panics reports nothing and leaves its lock to expire.     *)
Panic(m) ==
    LET q == QueueOf[m] IN
    /\ storeLock[m] = "here"
    /\ requests < MaxRequests
    /\ requests' = requests + 1
    /\ panics' = [panics EXCEPT ![q] = @ + 1]
    /\ storeLock' = [storeLock EXCEPT ![m] = "there"]
    /\ UNCHANGED <<due, manager, chan, spawned>>

-----------------------------------------------------------------------------
(* The other nodes, the rest of the server, and time *)

OtherNodeLocks(m) ==
    /\ due[m] = 0 /\ storeLock[m] = "free"
    /\ storeLock' = [storeLock EXCEPT ![m] = "there"]
    /\ UNCHANGED <<due, manager, chan, spawned, panics, requests>>

(* The other worker is done or has deferred the event; or it died and its  *)
(* lock expired.                                                           *)
OtherNodeUnlocks(m) ==
    /\ storeLock[m] = "there"
    /\ storeLock' = [storeLock EXCEPT ![m] = "free"]
    /\ \E d \in {Gone, due[m], MaxDue} : due' = [due EXCEPT ![m] = d]
    /\ UNCHANGED <<manager, chan, spawned, panics, requests>>

Ask(t) ==
    /\ requests < MaxRequests
    /\ requests' = requests + 1
    /\ Send(Request(t))
    /\ UNCHANGED <<due, storeLock, manager, spawned, panics>>

(* queue() stores a new event; its refresh reaches the manager, or does    *)
(* not when the message was accepted by another node.                      *)
Arrive(m) ==
    /\ due[m] = Gone /\ requests < MaxRequests
    /\ requests' = requests + 1
    /\ due' = [due EXCEPT ![m] = 0]
    /\ \/ Send(Request("refresh"))
       \/ UNCHANGED chan
    /\ UNCHANGED <<storeLock, manager, spawned, panics>>

Down(t) == IF t > 0 /\ t # Forever THEN t - 1 ELSE t

Tick ==
    /\ due' = [m \in Msgs |-> Down(due[m])]
    /\ locked' = [m \in Msgs |-> Down(locked[m])]
    /\ refreshIn' = Down(refreshIn)
    /\ UNCHANGED <<storeLock, pc, chan, refresh, inFlight, maxInFlight, paused,
                   closed, spawned, panics, requests>>

Next ==
    \/ HandleDone \/ HandleRequest
    \/ \E spawn \in SUBSET Msgs, failed \in BOOLEAN : Scan(spawn, failed)
    \/ EndTurn \/ Stopped
    \/ \E m \in Msgs : \/ TryLock(m) \/ Deliver(m) \/ Panic(m) \/ Arrive(m)
                       \/ OtherNodeLocks(m) \/ OtherNodeUnlocks(m)
    \/ \E t \in {"refresh", "pause", "resume", "reload", "stop"} : Ask(t)
    \/ Tick

Spec == Init /\ [][Next]_vars

(* The runtime polls the manager and the workers, time passes, another     *)
(* node ends its work or loses its lock, and no due event is passed over   *)
(* for ever: scans go by due time, or in random order.                     *)
FairSpec ==
    /\ Spec
    /\ WF_vars(HandleDone) /\ WF_vars(HandleRequest) /\ WF_vars(EndTurn)
    /\ WF_vars(Stopped)
    /\ WF_vars(\E spawn \in SUBSET Msgs : Scan(spawn, FALSE))
    /\ WF_vars(Tick)
    /\ \A m \in Msgs :
          /\ WF_vars(TryLock(m)) /\ WF_vars(Deliver(m))
          /\ WF_vars(OtherNodeUnlocks(m))
          /\ SF_vars(\E spawn \in SUBSET Msgs : m \in spawn /\ Scan(spawn, FALSE))

-----------------------------------------------------------------------------
(* The workers of q that have not tried their lock, the messages of q that *)
(* one is delivering, and the reports from q that a sequence holds.        *)
Starting(sp, q) == UNION {{m} \X (1..sp[m]) : m \in Of(q)}
Delivering(sl, q) == {m \in Of(q) : sl[m] = "here"}
DoneAt(s, q) == {i \in 1..Len(s) : s[i].type = "done" /\ QueueOf[s[i].msg] = q}

Running(q) == Cardinality(Starting(spawned, q)) + Cardinality(Delivering(storeLock, q))
Reports(q) == Cardinality(DoneAt(chan, q))

Events ==
    {Report(m, s) : m \in Msgs, s \in {"completed", "deferred", "locked"}}
        \cup {Request(t) : t \in {"refresh", "pause", "resume", "reload", "stop"}}

(* Every variable holds what the manager and its workers can leave in it:  *)
(* no counter goes below zero or over its limit.                           *)
TypeOK ==
    /\ due \in [Msgs -> Gone..MaxDue]
    /\ storeLock \in [Msgs -> {"free", "here", "there"}]
    /\ pc \in {"wait", "drain", "stopped"}
    /\ chan \in Seq(Events)
    /\ refreshIn \in 0..Forever
    /\ locked \in [Msgs -> None..Forever]
    /\ inFlight \in [Queues -> 0..MaxThreads]
    /\ maxInFlight \in [Queues -> 1..MaxThreads]
    /\ {refresh, paused, closed} \subseteq BOOLEAN
    /\ spawned \in [Msgs -> 0..MaxThreads]
    /\ panics \in [Queues -> Nat]
    /\ requests \in 0..MaxRequests

(* in_flight counts exactly the workers that are running or whose report   *)
(* is still in the channel, and the ones that will never report; once the  *)
(* channel is closed reports are lost, and it only stays as large as that. *)
InFlightExact ==
    \A q \in Queues :
        LET n == Running(q) + Reports(q) + panics[q]
        IN  inFlight[q] >= n /\ (~closed => inFlight[q] = n)

(* A queue never has more workers than threads, reloads included.          *)
WithinThreads == \A q \in Queues : Running(q) <= MaxThreads

(* An entry that keeps the manager off an event for good has a worker that *)
(* will report and remove it (unless one panicked).                        *)
NoOrphanEntry ==
    \A m \in Msgs :
        \/ locked[m] # Forever
        \/ spawned[m] > 0
        \/ storeLock[m] = "here"
        \/ \E i \in 1..Len(chan) : chan[i].type = "done" /\ chan[i].msg = m
        \/ panics[QueueOf[m]] > 0
        \/ closed

(* A due event is sooner or later locked by a worker of some node, unless  *)
(* this node's queue is paused or stopping, or its threads are lost to     *)
(* panics.                                                                 *)
DueIsTried ==
    \A m \in Msgs :
        [](due[m] = 0 => <>(\/ due[m] # 0 \/ storeLock[m] # "free"
                            \/ paused \/ closed \/ panics[QueueOf[m]] > 0))

(* The manager's tables agree with the workers that run, whatever reports, *)
(* scans, reloads and panics come between: exact counters, no more workers *)
(* than threads, no entry that outlives its worker.                        *)
ManagerInv == TypeOK /\ InFlightExact /\ WithinThreads /\ NoOrphanEntry

=============================================================================
