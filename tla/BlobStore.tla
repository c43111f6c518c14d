------------------------------ MODULE BlobStore ------------------------------
(***************************************************************************)
(* One blob (the content with one hash): its data in the blob store, the   *)
(* keys the data store has for it (the Commit key, which says that the     *)
(* data was uploaded, and its links), the writers that store the same      *)
(* content, and the purge of its shard.  Blob store and data store are two *)
(* systems: nothing writes both in one step.                               *)
(*                                                                         *)
(* A writer uploads (put_temporary_blob, put_jmap_blob), queues a message  *)
(* (MessageWrapper::queue) or copies a blob that has a link already        *)
(* (Blob/copy); then it exchanges its temporary link for a permanent one,  *)
(* which stays until the document is destroyed.                            *)
(***************************************************************************)
EXTENDS Integers, FiniteSets

CONSTANTS
    Writers,     \* requests that store this content
    Kind,        \* Kind[w]: upload, queue or copy
    Account,     \* Account[w]: account in the key of its temporary link
    HoldFor,     \* how long a temporary link holds
    MaxNow,      \* bound: the clock stops here
    MaxFaults    \* bound: writers and purges that stop half way

ASSUME BlobAssumptions ==
    /\ IsFiniteSet(Writers)
    /\ Kind \in [Writers -> {"upload", "queue", "copy"}]
    /\ {HoldFor, MaxFaults} \subseteq Nat /\ MaxNow \in Nat \ {0}

VARIABLES
    now,         \* wall clock
    data,        \* the blob store has the content
    commit,      \* BlobOp::Commit key
    temp,        \* BlobLink::Temporary keys, [account, until]
    links,       \* BlobLink::Document and Id keys, by the writer that made them
    pc,          \* pc[w]: next step of w
    until,       \* until[w]: end of its temporary link
    purge,       \* the purge: [pc, unlinked, expired]
    late,        \* history: a writer outlived its temporary link
    raced,       \* history: a writer relied on a key the purge was about to clear
    torn,        \* history: a purge stopped between deleting data and keys
    faults       \* history: writers and purges that stopped half way

store == <<data, commit, temp, links>>
history == <<late, raced, torn>>
vars == <<now, data, commit, temp, links, pc, until, purge, late, raced, torn, faults>>

Waiting == [pc |-> "wait", unlinked |-> FALSE, expired |-> {}]

Init ==
    /\ now = 1
    /\ data = FALSE /\ commit = FALSE
    /\ temp = {} /\ links = {}
    /\ pc = [w \in Writers |-> "reserve"]
    /\ until = [w \in Writers |-> 0]
    /\ purge = Waiting
    /\ late = FALSE /\ raced = FALSE /\ torn = FALSE
    /\ faults = 0

Link(w) == [account |-> Account[w], until |-> until[w]]
Purging == purge.pc # "wait" /\ purge.unlinked

Step(w, from, to) ==
    /\ pc[w] = from
    /\ pc' = [pc EXCEPT ![w] = to]
    /\ late' = (late \/ (from \notin {"reserve", "linked"} /\ until[w] <= now))
    /\ UNCHANGED <<now, purge, torn, faults>>

-----------------------------------------------------------------------------
(* Writers.                                                                *)

(* Mutant: the upload starts without a temporary link. *)
Reserve_Nothing(w) ==
    /\ Step(w, "reserve", IF Kind[w] = "upload" THEN "check" ELSE "put")
    /\ Kind[w] # "copy"
    /\ until' = [until EXCEPT ![w] = now + HoldFor]
    /\ UNCHANGED <<data, commit, temp, links, raced>>

(* The temporary link is written first; queue() does not look whether the  *)
(* content is there already.                                               *)
Reserve(w) ==
    /\ Step(w, "reserve", IF Kind[w] = "upload" THEN "check" ELSE "put")
    /\ Kind[w] # "copy"
    /\ until' = [until EXCEPT ![w] = now + HoldFor]
    /\ temp' = temp \cup {[account |-> Account[w], until |-> now + HoldFor]}
    /\ UNCHANGED <<data, commit, links, raced>>

(* blob_exists: content that was committed is not uploaded again. *)
Check(w) ==
    /\ Step(w, "check", IF commit THEN "ready" ELSE "put")
    /\ raced' = (raced \/ (commit /\ Purging))
    /\ UNCHANGED <<store, until>>

Put(w) ==
    /\ Step(w, "put", IF Kind[w] = "queue" THEN "ready" ELSE "commit")
    /\ data' = TRUE
    /\ raced' = (raced \/ Purging)
    /\ UNCHANGED <<commit, temp, links, until>>

Commit(w) ==
    /\ Step(w, "commit", "ready")
    /\ commit' = TRUE
    /\ raced' = (raced \/ Purging)
    /\ UNCHANGED <<data, temp, links, until>>

(* Blob/copy: whoever has access through a link adds one of his own.       *)
CopyCheck(w) ==
    /\ Kind[w] = "copy"
    /\ links # {}
    /\ Step(w, "reserve", "copy")
    /\ until' = [until EXCEPT ![w] = now + HoldFor]
    /\ UNCHANGED <<store, raced>>

Copy(w) ==
    /\ Step(w, "copy", "ready")
    /\ until' = [until EXCEPT ![w] = now + HoldFor]
    /\ temp' = temp \cup {[account |-> Account[w], until |-> now + HoldFor]}
    /\ raced' = (raced \/ links = {})
    /\ UNCHANGED <<data, commit, links>>

(* Mutant: the temporary link is cleared in a batch of its own. *)
MakeLink_TwoBatches(w) ==
    /\ \/ /\ Step(w, "ready", "swap")
          /\ temp' = temp \ {Link(w)}
          /\ UNCHANGED <<commit, links>>
       \/ /\ Step(w, "swap", "linked")
          /\ links' = links \cup {w}
          /\ commit' = (commit \/ Kind[w] = "queue")
          /\ UNCHANGED temp
    /\ UNCHANGED <<data, until, raced>>

(* One batch: the temporary link goes, the permanent one comes, and for a  *)
(* queued message the Commit key with it.                                  *)
MakeLink(w) ==
    /\ Step(w, "ready", "linked")
    /\ temp' = temp \ {Link(w)}
    /\ links' = links \cup {w}
    /\ commit' = (commit \/ Kind[w] = "queue")
    /\ raced' = (raced \/ (\E v \in Writers \ {w} : pc[v] # "linked" /\ until[v] # 0 /\ Link(v) = Link(w)))
    /\ UNCHANGED <<data, until>>

(* The document is destroyed, the message leaves the queue. *)
Unlink(w) ==
    /\ Step(w, "linked", "gone")
    /\ links' = links \ {w}
    /\ UNCHANGED <<data, commit, temp, until, raced>>

(* A request that stops half way leaves what it wrote. *)
Abandon(w) ==
    /\ pc[w] \notin {"reserve", "linked", "gone"}
    /\ faults < MaxFaults /\ faults' = faults + 1
    /\ pc' = [pc EXCEPT ![w] = "gone"]
    /\ UNCHANGED <<now, store, until, purge, history>>

-----------------------------------------------------------------------------
(* purge_blobs.                                                            *)

Expired == {t \in temp : t.until <= now}

(* Mutant: links that have expired keep their blob. *)
Unlinked_IgnoreExpiry == links = {} /\ temp = {}

Unlinked == links = {} /\ temp \subseteq Expired

(* The scan: which links have expired, and whether any link is left.  A    *)
(* hash that has no key at all is not seen.                                *)
PurgeScan ==
    /\ purge.pc = "wait"
    /\ commit \/ temp # {} \/ links # {}
    /\ Unlinked \/ Expired # {}
    /\ purge' = [pc |-> "delete", unlinked |-> Unlinked, expired |-> Expired]
    /\ UNCHANGED <<now, store, pc, until, history, faults>>

PurgeDelete ==
    /\ purge.pc = "delete"
    /\ data' = IF purge.unlinked THEN FALSE ELSE data
    /\ purge' = [purge EXCEPT !.pc = "clear"]
    /\ UNCHANGED <<now, commit, temp, links, pc, until, history, faults>>

PurgeClear ==
    /\ purge.pc = "clear"
    /\ commit' = IF purge.unlinked THEN FALSE ELSE commit
    /\ temp' = temp \ purge.expired
    /\ purge' = Waiting
    /\ UNCHANGED <<now, data, links, pc, until, history, faults>>

(* The blob store or the data store fails, or the node stops.              *)
PurgeFails ==
    /\ purge.pc # "wait"
    /\ faults < MaxFaults /\ faults' = faults + 1
    /\ torn' = (torn \/ (purge.pc = "clear" /\ purge.unlinked))
    /\ purge' = Waiting
    /\ UNCHANGED <<now, store, pc, until, late, raced>>

Tick ==
    /\ now < MaxNow
    /\ now' = now + 1
    /\ UNCHANGED <<store, pc, until, purge, history, faults>>

Next ==
    \/ \E w \in Writers : \/ Reserve(w) \/ Check(w) \/ Put(w) \/ Commit(w) \/ CopyCheck(w)
                          \/ Copy(w) \/ MakeLink(w) \/ Unlink(w) \/ Abandon(w)
    \/ PurgeScan \/ PurgeDelete \/ PurgeClear \/ PurgeFails
    \/ Tick

Spec == Init /\ [][Next]_vars

(* The purge is a scheduled task that the task manager retries; the clock  *)
(* goes on.  Nothing makes a client finish its request.                    *)
FairSpec == Spec /\ WF_vars(PurgeScan) /\ WF_vars(PurgeDelete) /\ WF_vars(PurgeClear)
                 /\ WF_vars(Tick)

-----------------------------------------------------------------------------
(* Properties                                                              *)

TempLinks == [account : {Account[w] : w \in Writers}, until : 1..MaxNow + HoldFor]

(* Every variable holds what the code can store in it. *)
TypeOK ==
    /\ now \in 1..MaxNow
    /\ {data, commit, late, raced, torn} \subseteq BOOLEAN
    /\ temp \subseteq TempLinks
    /\ links \subseteq Writers
    /\ pc \in [Writers -> {"reserve", "check", "put", "commit", "copy", "ready", "linked", "gone"}]
    /\ until \in [Writers -> 0..MaxNow + HoldFor]
    /\ purge \in [pc : {"wait", "delete", "clear"}, unlinked : BOOLEAN, expired : SUBSET TempLinks]
    /\ faults \in 0..MaxFaults

(* put_temporary_blob, queue and purge_blobs: a document lacks its content *)
(* only if its writer outlived its temporary link, relied on keys that a   *)
(* purge was about to clear, or came after a purge that stopped half way.  *)
DanglingNeedsCause == links # {} /\ ~data => late \/ raced \/ torn

(* The Commit key is a promise: whoever finds it, and no purge is at work, *)
(* finds the data, unless a purge stopped half way or a writer was late.   *)
CommitMeansData ==
    commit /\ ~data => late \/ raced \/ torn \/ (purge.pc = "clear" /\ Purging)

(* Data always has a Commit key or a temporary link under which a purge    *)
(* will find it, however the writers ended: even a purge that stopped half *)
(* way loses no data.                                                      *)
NoLeak == data => commit \/ temp # {} \/ late \/ raced

Ready(w) == pc[w] \in {"commit", "ready"} /\ until[w] > now

(* Why: a writer at work has its temporary link until it expires, and what *)
(* is uploaded, or found committed, stays while it does; a document has    *)
(* its Commit key from the start.                                          *)
WritersSafe ==
    ~late /\ ~raced =>
        /\ \A w \in Writers :
              pc[w] \in {"check", "put", "commit", "ready"} /\ until[w] > now => Link(w) \in temp
        /\ links # {} \/ (\E w \in Writers : Ready(w) /\ pc[w] = "ready" /\ Kind[w] # "queue")
              => commit
        /\ links # {} \/ (\E w \in Writers : Ready(w)) => data \/ torn

(* Why: from its scan to its end a purge that found no link meets neither a*)
(* document nor a writer that will make one; and a purge that found one    *)
(* leaves the Commit key or a link that has not expired.                   *)
PurgeSafe ==
    ~late /\ ~raced =>
        /\ Purging => links = {} /\ \A w \in Writers : ~Ready(w)
        /\ Purging /\ purge.pc = "clear" => ~data
        /\ \A t \in purge.expired : t.until <= now
        /\ purge.pc # "wait" /\ ~purge.unlinked => commit \/ temp \ purge.expired # {}

(* Content without a link is deleted in the end. *)
GarbageCollected ==
    (data /\ links = {} /\ \A w \in Writers : pc[w] \in {"reserve", "gone"})
        ~> (~data \/ links # {} \/ late \/ raced
               \/ \E w \in Writers : pc[w] \notin {"reserve", "gone"}
               \/ \E t \in temp : t.until > MaxNow)

(* Types, and the agreement of the two stores: put_temporary_blob and      *)
(* purge_blobs leave no Commit key without data and no data without a key. *)
BlobInv == TypeOK /\ CommitMeansData /\ NoLeak /\ WritersSafe /\ PurgeSafe

=============================================================================
