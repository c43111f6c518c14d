----------------------------- MODULE AccountLog -----------------------------
(***************************************************************************)
(* The messages and mailboxes of one account in the data store, with the   *)
(* change log that every commit extends in the same transaction            *)
(* (store/src/backend/rocksdb/write.rs), and the purge that truncates the  *)
(* log (common/src/storage/transaction.rs).                                *)
(*                                                                         *)
(* A document is [st, thread, ver]: ver is the change id of its last       *)
(* change, which the archive of a message carries too.  Document ids come  *)
(* from a counter and are never used twice.                                *)
(***************************************************************************)
EXTENDS ChangeLog

CONSTANTS Messages,     \* document ids of messages
          Mailboxes,    \* document ids of mailboxes
          Threads,      \* thread ids
          MaxLog,       \* bound: commits
          MaxEntries    \* changes_max_history

VARIABLES docs,         \* the documents
          log,          \* the change log
          cut           \* delete_changes: 0, or where the marker is due

storeVars == <<docs, log, cut>>

Documents == Messages \cup Mailboxes

NoThread == 0

Id(d, t) == [kind |-> IF d \in Messages THEN "item" ELSE "container",
             doc |-> d, thread |-> t]

Live(d) == docs[d].st = "live"

LiveMailboxes == {d \in Mailboxes : Live(d)}

StoreInit ==
    /\ docs = [d \in Documents |->
                  [st |-> "unborn", thread |-> NoThread, ver |-> 0]]
    /\ log = <<>>
    /\ cut = 0

(* A message logs the mailboxes whose counts it changes.                   *)
Touched(c, mailboxes) == LogProperty(c, {Id(m, NoThread) : m \in mailboxes})

(* One transaction: the change id, the documents and the log entry.        *)
Commit(d, st, t, c) ==
    /\ Len(log) < MaxLog
    /\ log' = Append(log, Serialize(c))
    /\ docs' = [docs EXCEPT ![d] = [st |-> st, thread |-> t, ver |-> Len(log) + 1]]
    /\ cut' = cut

InsertMessage(d, t, boxes) ==
    /\ docs[d].st = "unborn"
    /\ Commit(d, "live", t, Touched(LogInsert(NoChanges, Id(d, t)), boxes))

UpdateMessage(d, boxes) ==
    /\ Live(d)
    /\ LET t == docs[d].thread
       IN  Commit(d, "live", t, Touched(LogUpdate(NoChanges, Id(d, t)), boxes))

(* The merge of two threads gives the message another id: the entry holds  *)
(* the deletion of the old one and the insertion of the new one.           *)
MoveThread(d, t) ==
    /\ Live(d)
    /\ docs[d].thread # t
    /\ Commit(d, "live", t,
              LogInsert(LogDelete(NoChanges, Id(d, docs[d].thread)), Id(d, t)))

DeleteMessage(d, boxes) ==
    /\ Live(d)
    /\ LET t == docs[d].thread
       IN  Commit(d, "dead", t, Touched(LogDelete(NoChanges, Id(d, t)), boxes))

WriteMailbox(m) ==
    \/ /\ docs[m].st = "unborn"
       /\ Commit(m, "live", NoThread, LogInsert(NoChanges, Id(m, NoThread)))
    \/ /\ Live(m)
       /\ Commit(m, "live", NoThread, LogUpdate(NoChanges, Id(m, NoThread)))
    \/ /\ Live(m)
       /\ Commit(m, "dead", NoThread, LogDelete(NoChanges, Id(m, NoThread)))

(* delete_changes: the range goes in one write, the marker comes in a      *)
(* second one, and an error between the two leaves the log without it.     *)
PurgeRange ==
    /\ cut = 0
    /\ CutAt(log, MaxEntries) > 0
    /\ cut' = CutAt(log, MaxEntries)
    /\ log' = DeleteRange(log, cut')
    /\ docs' = docs

PurgeMark ==
    /\ cut > 0
    /\ log' = WriteMarker(log, cut)
    /\ cut' = 0
    /\ docs' = docs

PurgeFails ==
    /\ cut > 0
    /\ cut' = 0
    /\ UNCHANGED <<docs, log>>

Write ==
    \/ \E d \in Messages, t \in Threads, boxes \in SUBSET LiveMailboxes :
           InsertMessage(d, t, boxes)
    \/ \E d \in Messages, boxes \in SUBSET LiveMailboxes : UpdateMessage(d, boxes)
    \/ \E d \in Messages, t \in Threads : MoveThread(d, t)
    \/ \E d \in Messages, boxes \in SUBSET LiveMailboxes : DeleteMessage(d, boxes)
    \/ \E m \in Mailboxes : WriteMailbox(m)

-----------------------------------------------------------------------------
StoreTypeOK ==
    /\ docs \in [Documents -> [st : {"unborn", "live", "dead"},
                               thread : Threads \cup {NoThread},
                               ver : 0..MaxLog]]
    /\ Len(log) <= MaxLog
    /\ cut \in 0..MaxLog

=============================================================================
