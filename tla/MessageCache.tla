---------------------------- MODULE MessageCache ----------------------------
(***************************************************************************)
(* The message cache of one account on one node                            *)
(* (email/src/cache/mod.rs, the same shape as groupware/src/cache/mod.rs). *)
(*                                                                         *)
(* Tasks call get_cached_messages: a miss builds the cache from the store  *)
(* behind a placeholder, a hit brings the cached value up to date from the *)
(* change log behind the value's own update lock.  Every read of the store *)
(* is a step of its own; commits come from any task of any node.           *)
(*                                                                         *)
(* The account's default folders always exist (Mailboxes are the others),  *)
(* so that create_system_folders never runs.                               *)
(***************************************************************************)
EXTENDS AccountLog, TLC

CONSTANTS Tasks,        \* tasks of the node
          MaxLocks,     \* update locks; one more than tasks is enough
          MaxCalls,     \* bound: calls
          MaxTrouble    \* bound: evictions, errors, truncations

VARIABLES entry,        \* the cached value, or NoCache
          guard,        \* the task that holds the placeholder, or NoTask
          locks,        \* the update locks: [holder, revision]
          pc,           \* where each task is
          mine,         \* the value each task works on
          chg,          \* the changes each task has read
          todo,         \* documents the task has still to read
          held,         \* the lock whose permit the task holds, or 0
          since,        \* history: the change id when the call began
          answer,       \* history: what the step returned: [value, since]
          calls,        \* history: calls that began
          trouble       \* history: evictions, errors, truncations

vars == <<storeVars, entry, guard, locks, pc, mine, chg, todo, held, since, answer, calls, trouble>>

NoCache == [last |-> 0, lock |-> 0]
NoAnswer == [value |-> NoCache, since |-> 0]
NoTask == "none"
NoDoc == [thread |-> NoThread, ver |-> 0]

ASSUME TasksAssumption ==
    NoTask \notin Tasks /\ MaxLocks > Cardinality(Tasks) /\ {MaxCalls, MaxTrouble} \subseteq Nat

(* What a read of the archive of d finds.                                  *)
Archive(d) == IF Live(d) THEN [thread |-> docs[d].thread, ver |-> docs[d].ver]
              ELSE NoDoc

FreshLock == [holder |-> NoTask, revision |-> 0]

(* UpdateLock::new: a lock that nothing refers to any more stands for it.  *)
NewLock ==
    Min({l \in 1..MaxLocks :
            entry.lock # l /\ \A p \in Tasks : mine[p].lock # l /\ held[p] # l})

EmptyCache(lock) ==
    [last |-> 0, items |-> 0, boxes |-> 0, lock |-> lock,
     docs |-> [d \in Documents |-> NoDoc], scanned |-> {}, rebased |-> {}, holed |-> FALSE]

Init ==
    /\ StoreInit
    /\ entry = NoCache
    /\ guard = NoTask
    /\ locks = [l \in 1..MaxLocks |-> FreshLock]
    /\ pc = [p \in Tasks |-> "idle"]
    /\ mine = [p \in Tasks |-> NoCache]
    /\ chg = [p \in Tasks |-> Unread]
    /\ todo = [p \in Tasks |-> {}]
    /\ held = [p \in Tasks |-> 0]
    /\ since = [p \in Tasks |-> 0]
    /\ answer = NoAnswer
    /\ calls = 0 /\ trouble = 0

-----------------------------------------------------------------------------
Call(p) ==
    /\ pc[p] = "idle"
    /\ calls < MaxCalls /\ calls' = calls + 1
    /\ pc' = [pc EXCEPT ![p] = "get"]
    /\ since' = [since EXCEPT ![p] = Len(log)]
    /\ answer' = NoAnswer
    /\ UNCHANGED <<storeVars, entry, guard, locks, mine, chg, todo, held, trouble>>

(* get_value_or_guard_async: the value, the placeholder with a new update  *)
(* lock, or a wait for the task that holds the placeholder.                *)
Get(p) ==
    /\ pc[p] = "get"
    /\ \/ /\ entry # NoCache
          /\ mine' = [mine EXCEPT ![p] = entry]
          /\ pc' = [pc EXCEPT ![p] = "changes"]
          /\ UNCHANGED <<guard, locks>>
       \/ /\ entry = NoCache
          /\ guard = NoTask
          /\ guard' = p
          /\ locks' = [locks EXCEPT ![NewLock] = FreshLock]
          /\ mine' = [mine EXCEPT ![p] = EmptyCache(NewLock)]
          /\ pc' = [pc EXCEPT ![p] = "last"]
    /\ answer' = NoAnswer
    /\ UNCHANGED <<storeVars, entry, chg, todo, held, since, calls, trouble>>

(* full_cache_build reads the last change id before the documents.         *)
ReadLast(p) ==
    /\ pc[p] = "last"
    /\ mine' = [mine EXCEPT ![p] = [EmptyCache(@.lock) EXCEPT
                                       !.last = LastChangeId(log),
                                       !.items = LastChangeId(log),
                                       !.boxes = LastChangeId(log)]]
    /\ pc' = [pc EXCEPT ![p] = "emails"]
    /\ answer' = NoAnswer
    /\ UNCHANGED <<storeVars, entry, guard, locks, chg, todo, held, since, calls, trouble>>

(* The scan of one collection.  `scanned` is history: what it found that   *)
(* was not there yet when the last change id was read.                     *)
Scanned(c, D) ==
    [c EXCEPT !.docs = [d \in Documents |-> IF d \in D THEN Archive(d) ELSE @[d]],
              !.scanned = @ \cup {d \in D : Live(d) /\ docs[d].ver > c.last}]

ReadEmails(p) ==
    /\ pc[p] = "emails"
    /\ mine' = [mine EXCEPT ![p] = Scanned(@, Messages)]
    /\ pc' = [pc EXCEPT ![p] = "boxes"]
    /\ answer' = NoAnswer
    /\ UNCHANGED <<storeVars, entry, guard, locks, chg, todo, held, since, calls, trouble>>

(* Mutant: the permit is not released.                                     *)
Return_KeepPermit(p, c, lks) ==
    /\ locks' = lks
    /\ held' = [held EXCEPT ![p] = 0]
    /\ answer' = [value |-> c, since |-> since[p]]
    /\ since' = [since EXCEPT ![p] = 0]
    /\ mine' = [mine EXCEPT ![p] = NoCache]
    /\ chg' = [chg EXCEPT ![p] = Unread]
    /\ pc' = [pc EXCEPT ![p] = "idle"]
    /\ UNCHANGED storeVars

(* The call returns c, and drops the permit if it holds one.               *)
Return(p, c, lks) ==
    /\ locks' = [l \in DOMAIN lks |->
                    IF l = held[p] THEN [lks[l] EXCEPT !.holder = NoTask] ELSE lks[l]]
    /\ held' = [held EXCEPT ![p] = 0]
    /\ answer' = [value |-> c, since |-> since[p]]
    /\ since' = [since EXCEPT ![p] = 0]
    /\ mine' = [mine EXCEPT ![p] = NoCache]
    /\ chg' = [chg EXCEPT ![p] = Unread]
    /\ pc' = [pc EXCEPT ![p] = "idle"]
    /\ UNCHANGED storeVars

(* The value c goes into the cache, in the place of any placeholder, its   *)
(* lock takes the revision, and the call returns it.                       *)
Published(p, c) ==
    /\ entry' = c
    /\ guard' = NoTask
    /\ todo' = [todo EXCEPT ![p] = {}]
    /\ Return(p, c, [locks EXCEPT ![c.lock].revision = c.last])
    /\ UNCHANGED <<calls, trouble>>

ReadBoxes(p) ==
    /\ pc[p] = "boxes"
    /\ Published(p, Scanned(mine[p], Mailboxes))

(* History: entries the value lacks were gone when the log was read.       *)
Holed(c) == [c EXCEPT !.holed = @ \/ \E i \in DOMAIN log : i > c.last /\ log[i] = Gone]

(* The changes since the cached value: a truncated log asks for a build    *)
(* with the value's own lock, no change is a hit.                          *)
ReadChanges(p) ==
    /\ pc[p] = "changes"
    /\ LET c == ChangesSince(log, mine[p].last)
       IN  \/ /\ c.truncated
              /\ pc' = [pc EXCEPT ![p] = "last"]
              /\ answer' = NoAnswer
              /\ UNCHANGED <<storeVars, entry, guard, locks, mine, chg, todo,
                             held, since, calls, trouble>>
           \/ /\ ~c.truncated
              /\ c.changes = <<>>
              /\ Return(p, Holed(mine[p]), locks)
              /\ UNCHANGED <<entry, guard, todo, calls, trouble>>
           \/ /\ ~c.truncated
              /\ c.changes # <<>>
              /\ chg' = [chg EXCEPT ![p] = c]
              /\ mine' = [mine EXCEPT ![p] = Holed(@)]
              /\ pc' = [pc EXCEPT ![p] = "acquire"]
              /\ answer' = NoAnswer
              /\ UNCHANGED <<storeVars, entry, guard, locks, todo, held,
                             since, calls, trouble>>

(* The documents a list names and the ones whose archive is read again: a  *)
(* message unless its only change is a deletion (two are a move to another *)
(* thread), a mailbox unless its last change is one.                       *)
Named(list) == {list[i].id.doc : i \in {j \in DOMAIN list : list[j].op # "prop"}}

(* Mutant: a message that both came and went in the list is dropped.       *)
Reread_DropMoved(list) ==
    {d \in Named(list) : \A i \in DOMAIN list : list[i].id.doc = d => list[i].op # "del"}

Reread(list) ==
    {d \in Named(list) :
        LET at == {i \in DOMAIN list : list[i].id.doc = d /\ list[i].op # "prop"}
        IN  IF d \in Messages THEN Cardinality(at) > 1 \/ \E i \in at : list[i].op # "del"
            ELSE list[Max(at)].op # "del"}

(* The value c the update starts from, without the documents it names; `m` *)
(* is the value the changes were read for.  History: what c holds although *)
(* it changed after the change id the list begins at (`rebased`), and that *)
(* the list begins later than c ends (`holed`).                            *)
Based(c, m, list) ==
    [c EXCEPT !.docs = [d \in Documents |-> IF d \in Named(list) THEN NoDoc ELSE @[d]],
              !.rebased = @ \cup {d \in Documents : c.docs[d].ver > m.last},
              !.holed = @ \/ m.holed \/ c.last < m.last]

(* UpdateLock::acquire: if another task moved the revision on, start from  *)
(* the value that is cached now, or keep this one if it was evicted.       *)
Acquire(p) ==
    /\ pc[p] = "acquire"
    /\ LET l == mine[p].lock
           stale == locks[l].revision # mine[p].last
           base == IF stale /\ entry # NoCache THEN entry ELSE mine[p]
       IN  /\ locks[l].holder = NoTask
           /\ \/ /\ stale
                 /\ base.last >= chg[p].to
                 /\ Return(p, base, locks)
                 /\ UNCHANGED <<entry, guard, todo, calls, trouble>>
              \/ /\ ~stale \/ base.last < chg[p].to
                 /\ locks' = [locks EXCEPT ![l].holder = p]
                 /\ held' = [held EXCEPT ![p] = l]
                 /\ mine' = [mine EXCEPT ![p] = Based(base, mine[p], chg[p].changes)]
                 /\ todo' = [todo EXCEPT ![p] = Reread(chg[p].changes)]
                 /\ pc' = [pc EXCEPT ![p] = "read"]
                 /\ answer' = NoAnswer
                 /\ UNCHANGED <<storeVars, entry, guard, chg, since, calls, trouble>>

(* The archives are read one by one, the messages first.                   *)
ReadArchive(p, d) ==
    /\ pc[p] = "read"
    /\ d \in todo[p]
    /\ d \in Mailboxes => todo[p] \cap Messages = {}
    /\ mine' = [mine EXCEPT ![p].docs[d] = Archive(d)]
    /\ todo' = [todo EXCEPT ![p] = @ \ {d}]
    /\ answer' = NoAnswer
    /\ UNCHANGED <<storeVars, entry, guard, locks, pc, chg, held, since, calls, trouble>>

Or(id, other) == IF id # 0 THEN id ELSE other

(* The updated value; the two halves keep a change id of their own.        *)
Updated(c, ch) ==
    [c EXCEPT !.last = ch.to,
              !.items = IF HasKind(ch.changes, "item") THEN Or(ch.item, ch.to) ELSE @,
              !.boxes = IF HasKind(ch.changes, "container")
                        THEN Or(ch.container, ch.to) ELSE @]

Publish(p) ==
    /\ pc[p] = "read"
    /\ todo[p] = {}
    /\ Published(p, Updated(mine[p], chg[p]))

Trouble == trouble < MaxTrouble /\ trouble' = trouble + 1

(* An error of the store: the call returns it, the placeholder and the     *)
(* permit are dropped.                                                     *)
Fails(p) ==
    /\ Trouble
    /\ pc[p] \in {"last", "emails", "boxes", "changes", "read"}
    /\ guard' = IF guard = p THEN NoTask ELSE guard
    /\ todo' = [todo EXCEPT ![p] = {}]
    /\ Return(p, NoCache, locks)
    /\ UNCHANGED <<entry, calls>>

Evict ==
    /\ Trouble
    /\ entry # NoCache
    /\ entry' = NoCache
    /\ answer' = NoAnswer
    /\ UNCHANGED <<storeVars, guard, locks, pc, mine, chg, todo, held, since, calls>>

Store ==
    /\ \/ UNCHANGED trouble /\ (Write \/ PurgeMark \/ PurgeFails)
       \/ Trouble /\ PurgeRange
    /\ answer' = NoAnswer
    /\ UNCHANGED <<entry, guard, locks, pc, mine, chg, todo, held, since, calls>>

Step(p) ==
    \/ Get(p)
    \/ ReadLast(p)
    \/ ReadEmails(p)
    \/ ReadBoxes(p)
    \/ ReadChanges(p)
    \/ Acquire(p)
    \/ \E d \in Documents : ReadArchive(p, d)
    \/ Publish(p)

Next ==
    \/ Store
    \/ Evict
    \/ \E p \in Tasks : Call(p) \/ Step(p) \/ Fails(p)

Spec == Init /\ [][Next]_vars

-----------------------------------------------------------------------------
(* Every variable holds what get_cached_messages can leave in it.          *)
TypeOK ==
    /\ StoreTypeOK
    /\ entry = NoCache \/ entry.last \in 0..MaxLog
    /\ guard \in Tasks \cup {NoTask}
    /\ \A l \in DOMAIN locks : locks[l].holder \in Tasks \cup {NoTask}
    /\ pc \in [Tasks -> {"idle", "get", "last", "emails", "boxes", "changes",
                         "acquire", "read"}]
    /\ held \in [Tasks -> 0..MaxLocks]
    /\ todo \in [Tasks -> SUBSET Documents]

(* A caller sees every change that was committed before it called: each    *)
(* document whose last change is that old is in the answer as it is in the *)
(* store (get_cached_messages asks the log after the call began), unless   *)
(* the value has a hole: the log was read between the two writes of a      *)
(* truncation or after one that failed, or the changes were applied to an  *)
(* older value than they were read for.                                    *)
AnswersFresh ==
    answer.value # NoCache /\ ~answer.value.holed =>
        \A d \in Documents :
            Live(d) /\ docs[d].ver <= answer.since => answer.value.docs[d] = Archive(d)

(* d was deleted before the call, and is in its answer.                    *)
Ghost(d) ==
    /\ answer.value # NoCache
    /\ docs[d].st = "dead"
    /\ docs[d].ver <= answer.since
    /\ answer.value.docs[d] # NoDoc

(* The only deleted documents a caller can see are those that were in the  *)
(* value already when the changes since an earlier change id were applied  *)
(* to it: read by a full build after it had noted the change id, or cached *)
(* by another task between this one's read of the log and its permit; or   *)
(* the value has a hole.                                                   *)
GhostsHaveCause ==
    \A d \in Documents :
        Ghost(d) => answer.value.holed \/ d \in answer.value.scanned \cup answer.value.rebased

(* Nobody waits for ever: the placeholder and the permit a task waits for  *)
(* are in the hands of a task that is reading the store for it, and that   *)
(* task waits for nobody.                                                  *)
WaitsForWorker ==
    \A p \in Tasks :
        /\ pc[p] = "get" /\ entry = NoCache /\ guard # NoTask =>
              pc[guard] \in {"last", "emails", "boxes"}
        /\ pc[p] = "acquire" =>
              LET h == locks[mine[p].lock].holder
              IN h # NoTask => pc[h] = "read" /\ held[h] = mine[p].lock

(* Types, and that get_cached_messages never leaves a placeholder or a     *)
(* permit with a task that will not give it back.                          *)
CacheInv == TypeOK /\ WaitsForWorker

=============================================================================
