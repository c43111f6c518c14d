----------------------------- MODULE PushManager -----------------------------
(***************************************************************************)
(* Web push of one node: the push subscriptions of the accounts (in the    *)
(* data store), the router that receives every change notification of the  *)
(* node, the manager that queues notifications per subscription and sends  *)
(* them, and the requests it has under way.  Router and manager each have  *)
(* one bounded channel and each sends to the channel of the other; a send  *)
(* waits for room.                                                         *)
(*                                                                         *)
(* There is no clock.  `rested` says that the interval since the last      *)
(* request that applies (push_throttle, push_attempt_interval) has passed  *)
(* and `due` that push_retry_interval has passed since the last retry.     *)
(* Left out: the types and filters of a subscription (every notification   *)
(* is wanted), push shards, and the broadcast to other nodes.              *)
(***************************************************************************)
EXTENDS Integers, Sequences, FiniteSets, FiniteSetsExt, Functions

CONSTANTS
    Users,        \* accounts that have push subscriptions
    Groups,       \* accounts whose changes their members receive too
    MaxId,        \* bound: subscriptions an account has at a time
    Notes,        \* change notifications, each published once
    About,        \* About[n]: account that n is a change of
    Part,         \* Part[n]: request of a delivery that carries n
    Clients,      \* IMAP IDLE, WebSocket and event-source connections
    Cap,          \* capacity of a channel (IPC_CHANNEL_BUFFER)
    MaxAttempts,  \* push_attempts_max
    MaxSets,      \* bound: calls of PushSubscription/set, changes of groups
    MaxFaults     \* bound: failed loads and restarts

ASSUME PushAssumptions ==
    /\ IsFiniteSet(Users) /\ IsFiniteSet(Groups) /\ Users \cap Groups = {}
    /\ About \in [Notes -> Users \cup Groups]
    /\ {Cap, MaxAttempts} \subseteq Nat \ {0}
    /\ {MaxId, MaxSets, MaxFaults} \subseteq Nat

Accounts == Users \cup Groups
Ids == Users \X (1..MaxId)
IdsOf(u) == {id \in Ids : id[1] = u}

VARIABLES
    sub,        \* sub[id]: none, new (unverified) or verified, in the store
    expired,    \* ids in the store whose time is over
    coded,      \* new subscriptions that were sent their verification code
    memberOf,   \* groups of each user, as its access token has them
    up,         \* channel of the router
    down,       \* channel of the manager
    router,     \* [push, ipc, out]: is_push accounts, clients, blocked send
    mgr,        \* [reg, ids, retry, due, armed, calls, out]: see Empty
    closed,     \* clients that have disconnected
    joined,     \* history: <<account, client>> the router has subscribed
    published,  \* history: notifications that were published
    sets,       \* history: calls of PushSubscription/set, changes of groups
    faults      \* history: failed loads and restarts

history == <<published, sets, faults>>
store == <<sub, expired, coded, memberOf>>
vars == <<sub, expired, coded, memberOf, up, down, router, mgr, closed, joined,
          published, sets, faults>>

(* reg is push_servers, ids is account_push_ids, retry is retry_ids, armed *)
(* says that retry_timeout is not a year, calls are the requests under     *)
(* way, and out is the register message the manager waits to send.         *)
Empty == [reg |-> <<>>, ids |-> [a \in Accounts |-> {}], retry |-> {},
          due |-> FALSE, armed |-> FALSE, calls |-> {}, out |-> <<>>]
Closed == [push |-> {}, ipc |-> [a \in Accounts |-> {}], out |-> <<>>]

(* A PushRegistration: lapsed says that the copy of the subscription in it *)
(* has expired.  History: passed, a request ended while notifications were *)
(* queued; again, an answer to an earlier registration is still to come;   *)
(* moved, the groups of the user have changed since it was registered.     *)
Registration(members, again) ==
    [members |-> members, attempts |-> 0, rested |-> TRUE, notes |-> {},
     inFlight |-> FALSE, lapsed |-> FALSE, passed |-> FALSE, again |-> again,
     moved |-> FALSE]

Init ==
    /\ sub = [id \in Ids |-> "none"] /\ expired = {} /\ coded = {}
    /\ memberOf = [u \in Users |-> Groups]
    /\ up = <<>> /\ down = <<>>
    /\ router = Closed /\ mgr = Empty
    /\ closed = {} /\ joined = {} /\ published = {}
    /\ sets = 0 /\ faults = 0

Members(u) == {u} \cup memberOf[u]
Active(u) == {id \in IdsOf(u) : sub[id] = "verified" /\ id \notin expired}

-----------------------------------------------------------------------------
(* PushSubscription/set and the clients of the node.                       *)

(* Every call first drops the expired subscriptions of the account.  The   *)
(* write and the message to the router are one step: the router may take   *)
(* the message at any later time.                                          *)
Set(u, kept, id, state) ==
    /\ sets < MaxSets /\ Len(up) < Cap
    /\ sub' = [i \in Ids |-> IF i = id THEN state
                             ELSE IF i \in IdsOf(u) \ kept THEN "none" ELSE sub[i]]
    /\ expired' = expired \ IdsOf(u)
    /\ coded' = {i \in coded : sub'[i] = "new"}
    /\ up' = Append(up, [type |-> "update", account |-> u])
    /\ sets' = sets + 1
    /\ UNCHANGED <<memberOf, down, router, mgr, closed, joined, published, faults>>

Present(u) == {id \in IdsOf(u) : sub[id] # "none"}
Unexpired(u) == Present(u) \ expired

(* The new id is one above the highest the archive still has.              *)
Create(u) ==
    LET id == <<u, 1 + Max({0} \cup {i[2] : i \in Present(u)})>>
    IN id \in Ids /\ Set(u, Unexpired(u), id, "new")

Verify(u) == \E id \in Unexpired(u) \cap coded : Set(u, Unexpired(u), id, "verified")
Destroy(u) == \E id \in Unexpired(u) : Set(u, Unexpired(u) \ {id}, id, "none")
Change(u) == \E id \in Unexpired(u) : Set(u, Unexpired(u), id, sub[id])

(* The time of a subscription is over, in the store and in the copy the    *)
(* manager has.                                                            *)
Expire(id) ==
    /\ sub[id] = "verified" /\ id \notin expired
    /\ expired' = expired \cup {id}
    /\ mgr' = IF id \in DOMAIN mgr.reg THEN [mgr EXCEPT !.reg[id].lapsed = TRUE] ELSE mgr
    /\ UNCHANGED <<sub, coded, memberOf, up, down, router, closed, joined, history>>

Join(u) ==
    /\ sets < MaxSets
    /\ \E gs \in SUBSET Groups \ {memberOf[u]} : memberOf' = [memberOf EXCEPT ![u] = gs]
    /\ sets' = sets + 1
    /\ UNCHANGED <<sub, expired, coded, up, down, router, mgr, closed, joined, published, faults>>

Publish(n) ==
    /\ n \notin published /\ Len(up) < Cap
    /\ published' = published \cup {n}
    /\ up' = Append(up, [type |-> "publish", note |-> n])
    /\ UNCHANGED <<store, down, router, mgr, closed, joined, sets, faults>>

Subscribe(c, a) ==
    /\ c \notin closed /\ Len(up) < Cap
    /\ <<a, c>> \notin joined
    /\ ~ \E i \in DOMAIN up : up[i].type = "subscribe"
    /\ up' = Append(up, [type |-> "subscribe", account |-> a, client |-> c])
    /\ UNCHANGED <<store, down, router, mgr, closed, joined, history>>

Disconnect(c) ==
    /\ c \notin closed
    /\ closed' = closed \cup {c}
    /\ UNCHANGED <<store, up, down, router, mgr, joined, history>>

-----------------------------------------------------------------------------
(* The router.                                                             *)

(* Unsetting is_push keeps the clients of the account.                     *)
Registered(r, msg) == [r EXCEPT !.push = (@ \cup msg.activate) \ msg.expired]

(* Mutant: the purge forgets accounts that have no client. *)
Purged_PushToo(r) ==
    [r EXCEPT !.ipc = [a \in Accounts |-> @[a] \ closed],
              !.push = {a \in @ : r.ipc[a] \ closed # {}}]

Purged(r) == [r EXCEPT !.ipc = [a \in Accounts |-> @[a] \ closed]]

(* What the router makes of a message; out is what it then sends on.       *)
Routed(r, msg) ==
    CASE msg.type = "register" -> Registered(r, msg)
      [] msg.type = "subscribe" -> [r EXCEPT !.ipc[msg.account] = @ \cup {msg.client}]
      [] msg.type = "update" -> [r EXCEPT !.out = <<msg>>]
      [] msg.type = "publish" ->
            IF About[msg.note] \in r.push
            THEN [r EXCEPT !.out = <<[type |-> "push", note |-> msg.note]>>] ELSE r

(* A closed client met on the way, or an hour since the last one, makes    *)
(* the router purge.                                                       *)
PurgeNeeded(msg) ==
    msg.type = "publish" /\ router.ipc[About[msg.note]] \cap closed # {}

Route ==
    /\ router.out = <<>> /\ up # <<>>
    /\ \E hour \in BOOLEAN :
          router' = IF hour \/ PurgeNeeded(Head(up))
                    THEN Purged(Routed(router, Head(up))) ELSE Routed(router, Head(up))
    /\ joined' = IF Head(up).type = "subscribe"
                 THEN joined \cup {<<Head(up).account, Head(up).client>>} ELSE joined
    /\ up' = Tail(up)
    /\ UNCHANGED <<store, down, mgr, closed, history>>

(* push_tx.send(..).await: the router waits for room.                      *)
Forward ==
    /\ router.out # <<>> /\ Len(down) < Cap
    /\ down' = down \o router.out
    /\ router' = [router EXCEPT !.out = <<>>]
    /\ UNCHANGED <<store, up, mgr, closed, joined, history>>

-----------------------------------------------------------------------------
(* The manager.                                                            *)

(* A request for each of these subscriptions, with what is queued for it. *)
Sent(r) == [r EXCEPT !.notes = {}, !.inFlight = TRUE, !.rested = FALSE, !.passed = FALSE]
Send(m, to) ==
    [m EXCEPT !.calls = @ \cup {[id |-> i, notes |-> m.reg[i].notes] : i \in to},
              !.reg = [i \in DOMAIN m.reg |-> IF i \in to THEN Sent(m.reg[i]) ELSE m.reg[i]]]

(* Every handler ends with a look at retry_ids.                            *)
RetryReady(r) == ~r.inFlight /\ r.rested
Dropped(r) == [r EXCEPT !.notes = {}, !.attempts = 0, !.passed = FALSE]
GiveUp(m, on) ==
    [m EXCEPT !.reg = [i \in DOMAIN m.reg |-> IF i \in on THEN Dropped(m.reg[i]) ELSE m.reg[i]]]

Tried(m, ready) ==
    LET again == {id \in ready : m.reg[id].attempts < MaxAttempts}
    IN GiveUp(Send(m, again), ready \ again)

(* Mutant: the manager sleeps although subscriptions are left to retry. *)
Retried_Slumber(m) ==
    LET ready == {id \in m.retry \cap DOMAIN m.reg : RetryReady(m.reg[id])}
    IN IF m.due THEN [Tried(m, ready) EXCEPT !.retry = @ \ ready, !.armed = FALSE]
       ELSE [m EXCEPT !.armed = m.retry # {}]

Retried(m) ==
    LET known == m.retry \cap DOMAIN m.reg
        ready == {id \in known : RetryReady(m.reg[id])}
        left == known \ ready
    IN IF m.retry = {} THEN [m EXCEPT !.armed = FALSE]
       ELSE IF ~m.due THEN [m EXCEPT !.armed = TRUE]
       ELSE IF left = {} THEN [Tried(m, ready) EXCEPT !.retry = {}, !.armed = FALSE]
       ELSE [Tried(m, ready) EXCEPT !.retry = left, !.armed = TRUE, !.due = FALSE]

(* Event::Update: reload the subscriptions of the account.                 *)
Unanswered(m, id) ==
    \/ \E c \in m.calls : c.id = id
    \/ \E i \in DOMAIN down : down[i].type \in {"success", "failure"} /\ down[i].id = id

Reloaded(r, members) ==
    [r EXCEPT !.members = members, !.lapsed = FALSE, !.moved = @ \/ r.members # members]

Insert(m, u) ==
    [m EXCEPT !.reg = [i \in DOMAIN m.reg \cup Active(u) |->
                          IF i \notin Active(u) THEN m.reg[i]
                          ELSE IF i \in DOMAIN m.reg THEN Reloaded(m.reg[i], Members(u))
                          ELSE Registration(Members(u), Unanswered(m, i))],
              !.ids = [a \in Accounts |-> (IF a = u THEN {} ELSE m.ids[a]) \cup
                                          (IF a \in Members(u) THEN Active(u) ELSE {})]]

Remove(m, gone) ==
    LET known == gone \cap DOMAIN m.reg
    IN [m EXCEPT !.reg = [i \in DOMAIN m.reg \ known |-> m.reg[i]],
                 !.ids = [a \in Accounts |-> m.ids[a] \ {i \in known : a \in m.reg[i].members}]]

Register(m, on, off) ==
    IF on \cup off = {} THEN m
    ELSE [m EXCEPT !.out = <<[type |-> "register", activate |-> on, expired |-> off]>>]

OnUpdate(m, u) ==
    LET old == m.ids[u]
        added == Insert(m, u)
        current == added.ids[u]
        left == Remove(added, old \ current)
        on == IF current # {} /\ current # old THEN Members(u) ELSE {}
        off == {a \in Accounts : added.ids[a] # {} /\ left.ids[a] = {}}
    IN Register(left, on, off)

(* Event::Push: queue the notification for each subscription, and send at  *)
(* once what need not wait.                                                *)
(* Mutant: a request is sent while another one is under way. *)
PushReady_Busy(r) == r.rested /\ (r.attempts = 0 \/ r.attempts < MaxAttempts)

PushReady(r) == ~r.inFlight /\ r.rested /\ (r.attempts = 0 \/ r.attempts < MaxAttempts)

Queue(m, to, n) ==
    [m EXCEPT !.reg = [i \in DOMAIN m.reg |->
                          IF i \in to THEN [m.reg[i] EXCEPT !.notes = @ \cup {n}] ELSE m.reg[i]]]

OnPush(m, n) ==
    LET a == About[n]
        known == m.ids[a] \cap DOMAIN m.reg
        over == {id \in known : m.reg[id].lapsed}
        wanted == known \ over
        ready == {id \in wanted : PushReady(m.reg[id])}
        kept == [m EXCEPT !.reg = [i \in DOMAIN m.reg \ over |-> m.reg[i]], !.ids[a] = known]
    IN IF m.ids[a] = {} THEN m
       ELSE Register([Send(Queue(kept, wanted, n), ready) EXCEPT
                         !.retry = (@ \ ready) \cup (wanted \ ready)],
                     {}, IF known = {} THEN {a} ELSE {})

(* DeliverySuccess takes the subscription off retry_ids, also when more    *)
(* was queued while the request was under way (`passed`).  The interval    *)
(* that applies to the next request changes with num_attempts.             *)
Succeeded(r, rested) ==
    [r EXCEPT !.attempts = 0, !.inFlight = FALSE, !.rested = rested, !.passed = @ \/ r.notes # {}]

OnSuccess(m, id, rested) ==
    IF id \notin DOMAIN m.reg THEN m
    ELSE [m EXCEPT !.reg[id] = Succeeded(@, rested), !.retry = @ \ {id}]

Failed(r, ns) ==
    [r EXCEPT !.attempts = @ + 1, !.inFlight = FALSE, !.rested = FALSE, !.notes = @ \cup ns]

OnFailure(m, id, ns) ==
    IF id \notin DOMAIN m.reg THEN m
    ELSE [m EXCEPT !.reg[id] = Failed(@, ns), !.retry = @ \cup {id}]

(* The newest unverified subscription is sent its code, unless the account *)
(* was sent one within push_verify_timeout.                                *)
Newest(u) ==
    LET new == {id \in IdsOf(u) : sub[id] = "new" /\ id \notin expired}
    IN {id \in new : \A i \in new : i[2] <= id[2]}

Handled(m, msg, rested) ==
    CASE msg.type = "update" -> OnUpdate(m, msg.account)
      [] msg.type = "push" -> OnPush(m, msg.note)
      [] msg.type = "success" -> OnSuccess(m, msg.id, rested)
      [] msg.type = "failure" -> OnFailure(m, msg.id, msg.notes)

(* The handler and the retry pass, or the handler up to the send of a      *)
(* register message that has to wait for room.                             *)
Handle ==
    /\ mgr.out = <<>> /\ down # <<>>
    /\ \E rested, verify \in BOOLEAN :
          LET m == Handled(mgr, Head(down), rested) IN
             /\ mgr' = IF m.out = <<>> THEN Retried(m) ELSE m
             /\ coded' = IF Head(down).type = "update" /\ verify
                         THEN coded \cup Newest(Head(down).account) ELSE coded
    /\ down' = Tail(down)
    /\ UNCHANGED <<sub, expired, memberOf, up, router, closed, joined, history>>

TellRouter ==
    /\ mgr.out # <<>> /\ Len(up) < Cap
    /\ up' = up \o mgr.out
    /\ mgr' = Retried([mgr EXCEPT !.out = <<>>])
    /\ UNCHANGED <<store, down, router, closed, joined, history>>

(* load_push_subscriptions fails: the event is gone, the pass is skipped.  *)
LoadFails ==
    /\ mgr.out = <<>> /\ down # <<>> /\ Head(down).type = "update"
    /\ faults < MaxFaults
    /\ faults' = faults + 1
    /\ down' = Tail(down)
    /\ UNCHANGED <<store, up, router, mgr, closed, joined, published, sets>>

(* retry_timeout is over; timeout() looks at the channel first.            *)
Wake ==
    /\ mgr.out = <<>> /\ down = <<>> /\ mgr.armed /\ mgr.due
    /\ mgr' = Retried(mgr)
    /\ UNCHANGED <<store, up, down, router, closed, joined, history>>

(* The tasks `send` spawned: each request of the delivery (Part) succeeds  *)
(* or fails as a whole.                                                    *)
Respond(c, parts) ==
    LET ns == {n \in c.notes : Part[n] \in parts} IN
    /\ parts \subseteq {Part[n] : n \in c.notes}
    /\ Len(down) < Cap
    /\ mgr' = [mgr EXCEPT !.calls = @ \ {c}]
    /\ down' = Append(down, IF ns = {} THEN [type |-> "success", id |-> c.id]
                            ELSE [type |-> "failure", id |-> c.id, notes |-> ns])
    /\ UNCHANGED <<store, up, router, closed, joined, published, sets, faults>>

(* Time passes.                                                            *)
Rest(id) ==
    /\ ~mgr.reg[id].rested
    /\ mgr' = [mgr EXCEPT !.reg[id].rested = TRUE]
    /\ UNCHANGED <<store, up, down, router, closed, joined, history>>

RetryDue ==
    /\ ~mgr.due /\ mgr.retry # {}
    /\ mgr' = [mgr EXCEPT !.due = TRUE]
    /\ UNCHANGED <<store, up, down, router, closed, joined, history>>

(* The node restarts: queues, channels and requests are gone; the manager  *)
(* loads the subscriptions and registers their accounts.                   *)
Restart ==
    LET all == UNION {Active(u) : u \in Users}
        Holds(a) == {id \in all : a \in Members(id[1])}
        m == [Empty EXCEPT !.reg = [id \in all |-> Registration(Members(id[1]), FALSE)],
                           !.ids = [a \in Accounts |-> Holds(a)]]
    IN /\ faults < MaxFaults
       /\ faults' = faults + 1
       /\ mgr' = Register(m, {a \in Accounts : Holds(a) # {}}, {})
       /\ up' = <<>> /\ down' = <<>> /\ router' = Closed
       /\ joined' = {}
       /\ UNCHANGED <<store, closed, published, sets>>

-----------------------------------------------------------------------------
RouterRuns == Route \/ Forward
ManagerRuns == Handle \/ TellRouter \/ Wake
Responds == \E c \in mgr.calls : \E parts \in SUBSET {Part[n] : n \in c.notes} : Respond(c, parts)

Next ==
    \/ RouterRuns \/ ManagerRuns \/ Responds
    \/ \E id \in DOMAIN mgr.reg : Rest(id)
    \/ RetryDue
    \/ \E u \in Users : Create(u) \/ Verify(u) \/ Destroy(u) \/ Change(u) \/ Join(u)
    \/ \E id \in Ids : Expire(id)
    \/ \E n \in Notes : Publish(n)
    \/ \E c \in Clients, a \in Accounts : Subscribe(c, a)
    \/ \E c \in Clients : Disconnect(c)
    \/ LoadFails \/ Restart

Spec == Init /\ [][Next]_vars

(* Both tasks run, requests end (push_timeout) and time passes.            *)
FairSpec ==
    /\ Spec
    /\ WF_vars(RouterRuns) /\ WF_vars(ManagerRuns)
    /\ WF_vars(Responds) /\ WF_vars(RetryDue)
    /\ \A id \in Ids : WF_vars(id \in DOMAIN mgr.reg /\ Rest(id))

-----------------------------------------------------------------------------
(* Properties.                                                             *)

RegRecord == [members : SUBSET Accounts, attempts : Nat, rested : BOOLEAN,
              notes : SUBSET Notes, inFlight : BOOLEAN, lapsed : BOOLEAN,
              passed : BOOLEAN, again : BOOLEAN, moved : BOOLEAN]
Registers == [type : {"register"}, activate : SUBSET Accounts, expired : SUBSET Accounts]
Updates == [type : {"update"}, account : Users]
UpMessages == Registers \cup Updates \cup [type : {"publish"}, note : Notes]
                  \cup [type : {"subscribe"}, account : Accounts, client : Clients]
Orders == Updates \cup [type : {"push"}, note : Notes]
DownMessages == Orders \cup [type : {"success"}, id : Ids]
                    \cup [type : {"failure"}, id : Ids, notes : SUBSET Notes]

(* Every variable keeps its type.                                          *)
TypeOK ==
    /\ sub \in [Ids -> {"none", "new", "verified"}]
    /\ expired \subseteq Ids /\ coded \subseteq Ids /\ memberOf \in [Users -> SUBSET Groups]
    /\ up \in Seq(UpMessages) /\ Len(up) <= Cap /\ down \in Seq(DownMessages) /\ Len(down) <= Cap
    /\ DOMAIN router = DOMAIN Closed
    /\ router.push \subseteq Accounts /\ router.ipc \in [Accounts -> SUBSET Clients]
    /\ router.out \in Seq(Orders) /\ Len(router.out) <= 1
    /\ DOMAIN mgr = DOMAIN Empty
    /\ DOMAIN mgr.reg \subseteq Ids /\ \A id \in DOMAIN mgr.reg : mgr.reg[id] \in RegRecord
    /\ mgr.ids \in [Accounts -> SUBSET Ids] /\ mgr.retry \subseteq Ids
    /\ {mgr.due, mgr.armed} \subseteq BOOLEAN
    /\ mgr.calls \subseteq [id : Ids, notes : SUBSET Notes]
    /\ mgr.out \in Seq(Registers) /\ Len(mgr.out) <= 1
    /\ joined \subseteq Accounts \X Clients
    /\ {sets, faults} \subseteq Nat

(* When the manager waits, whatever is queued for a subscription with no   *)
(* request under way has a retry to come and a timeout that will run it;   *)
(* the only way out is the answer that arrives over a queue (`passed`).    *)
QueuedIsScheduled ==
    mgr.out = <<>> =>
        \A id \in DOMAIN mgr.reg :
            LET r == mgr.reg[id]
            IN r.notes # {} /\ ~r.inFlight /\ ~r.passed => id \in mgr.retry /\ mgr.armed

(* in_flight keeps a subscription to one delivery at a time, over pushes,  *)
(* retries, failures and reloads; only a registration that took the place  *)
(* of an earlier one of the same id may have two.                          *)
OneDelivery ==
    \A id \in DOMAIN mgr.reg :
        mgr.reg[id].again \/ Cardinality({c \in mgr.calls : c.id = id}) <= 1

OnItsWay(a) ==
    \E msg \in Range(up \o mgr.out) : msg.type = "register" /\ a \in msg.activate

(* Every account whose changes a registered subscription is to receive is  *)
(* an is_push account of the router, or the message that makes it one is   *)
(* on its way: nothing the router drops, purges or unsets loses it.  Only  *)
(* groups the user joined after it subscribed are left out.  A client that *)
(* is still connected stays subscribed, whatever purges and registrations  *)
(* the router handles.                                                     *)
RouterServes ==
    /\ \A id \in DOMAIN mgr.reg :
          LET r == mgr.reg[id]
          IN ~r.lapsed /\ ~r.moved => \A a \in r.members : a \in router.push \/ OnItsWay(a)
    /\ \A j \in joined : j[2] \notin closed => j[2] \in router.ipc[j[1]]

Queued(id, n) == id \in DOMAIN mgr.reg /\ n \in mgr.reg[id].notes

(* Router and manager each wait for room in the channel the other reads.   *)
Embraced == router.out # <<>> /\ mgr.out # <<>> /\ Len(up) = Cap /\ Len(down) = Cap

(* Every queued notification is sent or given up on, unless an answer took *)
(* the subscription off retry_ids (`passed`) or router and manager block   *)
(* each other.                                                             *)
QueuedIsSent ==
    \A id \in Ids, n \in Notes :
        Queued(id, n) ~> (Queued(id, n) => mgr.reg[id].passed \/ Embraced)

Answers(id) == {i \in DOMAIN down : down[i].type \in {"success", "failure"} /\ down[i].id = id}

(* in_flight is true exactly while a request or its answer is under way,   *)
(* of which there is one, and an attempt is made only below the limit.     *)
InFlightKnown ==
    \A id \in DOMAIN mgr.reg : LET r == mgr.reg[id] IN
        ~r.again =>
            /\ Cardinality({c \in mgr.calls : c.id = id}) + Cardinality(Answers(id)) =
                  IF r.inFlight THEN 1 ELSE 0
            /\ r.attempts <= IF r.inFlight THEN MaxAttempts - 1 ELSE MaxAttempts

(* account_push_ids lists every registered subscription under every        *)
(* account it is a member of.  What is listed under its own account and is *)
(* not registered, or over, cannot become active again before an update of *)
(* the account is handled: the id is verified only with a code that the    *)
(* handling of an update sends.                                            *)
IdsListed ==
    /\ \A id \in DOMAIN mgr.reg :
          id[1] \in mgr.reg[id].members /\ \A a \in mgr.reg[id].members : id \in mgr.ids[a]
    /\ \A id \in coded : sub[id] = "new"
    /\ \A id \in Ids : id \in mgr.ids[id[1]] /\ (id \in DOMAIN mgr.reg => mgr.reg[id].lapsed) =>
          id \notin Active(id[1]) \cup coded

Unsets(msg, a) == msg.type = "register" /\ a \in msg.expired
Kept(a, s) == \A i \in DOMAIN s : ~Unsets(s[i], a)
TurnedOn(a, s) ==
    \E i \in DOMAIN s : /\ s[i].type = "register" /\ a \in s[i].activate
                        /\ \A j \in DOMAIN s : i <= j => ~Unsets(s[j], a)

(* The last the router will hear of an account that a subscription needs   *)
(* makes it an is_push account, or leaves it one.                          *)
LastWordOn ==
    \A id \in DOMAIN mgr.reg : ~mgr.reg[id].moved =>
        \A a \in mgr.reg[id].members :
            \/ TurnedOn(a, mgr.out)
            \/ Kept(a, mgr.out) /\ (TurnedOn(a, up) \/ (Kept(a, up) /\ a \in router.push))

(* Types, and the bookkeeping of PushManager: at most one delivery per     *)
(* subscription, none that is owed and not scheduled, and registrations    *)
(* that router and manager agree on.                                       *)
PushInv ==
    TypeOK /\ OneDelivery /\ QueuedIsScheduled /\ InFlightKnown /\ IdsListed /\ LastWordOn

=============================================================================
