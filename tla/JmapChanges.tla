----------------------------- MODULE JmapChanges -----------------------------
(***************************************************************************)
(* JMAP Foo/changes (jmap/src/changes/get.rs) against the change log, with *)
(* a client that keeps itself in sync: it sends the state it has, applies  *)
(* the page of changes it receives and takes the new state.  Commits come  *)
(* between the server's first reads (the ids the user may see, the state   *)
(* of the cache) and its read of the log.                                  *)
(*                                                                         *)
(* The client's state is [kind, from, to, sent]: "initial", "exact" (the   *)
(* change id is `to`) or "intermediate", a page of the range from..to.     *)
(* What it knows is a set of [id, ver]; a created or updated object is     *)
(* fetched in the same step.                                               *)
(***************************************************************************)
EXTENDS AccountLog

CONSTANTS Sessions,     \* kinds of session: [kind, cached, shared]
          MaxChanges    \* maxChanges of the request

ASSUME SessionsAssumption ==
    /\ Sessions \subseteq [kind : {"item", "container"}, cached : BOOLEAN, shared : BOOLEAN]
    /\ MaxChanges \in Nat \ {0}

(* In a session, kind says whether the type is a container; cached, that   *)
(* its new state is taken from a cache (e-mails and calendars, but not     *)
(* files); shared, that the user is not a member of the account.           *)
VARIABLES session,      \* the session, fixed
          client,       \* the state the client has
          known,        \* the objects it knows
          reply,        \* the request being served: None, or what it has read
          ahead,        \* history: created ids reported before their state
          hidden,       \* history: ids of changes the ACL filtered out
          holed         \* history: an answer left out deleted log entries

clientVars == <<session, client, known, reply, ahead, hidden, holed>>
vars == <<storeVars, clientVars>>

Initial == [kind |-> "initial", from |-> 0, to |-> 0, sent |-> 0]
Exact(id) == [kind |-> "exact", from |-> 0, to |-> id, sent |-> 0]
Intermediate(from, to, sent) ==
    [kind |-> "intermediate", from |-> from, to |-> to, sent |-> sent]

None == [new |-> Initial, allowed |-> {}, busy |-> FALSE]

OfKind(list) == SelectSeq(list, LAMBDA c : c.id.kind = session.kind)

LiveNow == {[id |-> Id(d, docs[d].thread), ver |-> docs[d].ver] :
               d \in {e \in Documents : Live(e) /\ Id(e, NoThread).kind = session.kind}}

(* The last change of this kind; a cache is at this change id or at a      *)
(* later one of the other kind, if it was built in full.                   *)
LastOfKind ==
    LET ids == {i \in DOMAIN log : log[i] # Gone /\ (log[i] = Truncated \/ HasKind(log[i], session.kind))}
    IN  IF ids = {} THEN 0 ELSE Max(ids)

CacheStates == {Exact(i) : i \in LastOfKind..LastChangeId(log)}

Init ==
    /\ StoreInit
    /\ session \in Sessions
    /\ client \in {Initial, Exact(0)}
    /\ known = {}
    /\ reply = None
    /\ ahead = {} /\ hidden = {} /\ holed = FALSE

-----------------------------------------------------------------------------
(* The request arrives: the ACL of a client that is no member is taken     *)
(* from the cache as it is now, and so is the new state of a cached type.  *)
(* If that is the client's own state the answer is empty.                  *)
Request(new) ==
    /\ ~reply.busy
    /\ new \in IF session.cached /\ client.kind = "exact" THEN CacheStates ELSE {Initial}
    /\ client.kind = "exact" => new # client
    /\ reply' = [new |-> new, busy |-> TRUE,
                 allowed |-> IF session.shared THEN {d \in Documents : Live(d)} ELSE {}]
    /\ UNCHANGED <<storeVars, session, client, known, ahead, hidden, holed>>

(* The range of the log that answers the request, and how much of it the   *)
(* client already has.                                                     *)
PageRange(c) == Changes(log, c.from, c.to, TRUE)

Answered ==
    IF client.kind = "initial" THEN [sent |-> 0, log |-> Changes(log, 0, Len(log), TRUE)]
    ELSE IF client.kind = "exact" THEN [sent |-> 0, log |-> ChangesSince(log, client.to)]
    ELSE IF client.sent >= Len(OfKind(PageRange(client).changes))
         THEN [sent |-> 0, log |-> ChangesSince(log, client.to)]
    ELSE [sent |-> client.sent, log |-> PageRange(client)]

(* cannotCalculateChanges                                                  *)
Refused(a) ==
    /\ a.log.truncated \/ a.log.from = 0
    /\ client # Initial

(* The changes the client may see, without those it has.                   *)
Visible(c) == ~session.shared \/ c.id.doc \in reply.allowed

Rest(a) ==
    LET seen == SelectSeq(OfKind(a.log.changes), Visible)
    IN  SubSeq(seen, a.sent + 1, Len(seen))

Page(a) == SubSeq(Rest(a), 1, Min({MaxChanges, Len(Rest(a))}))

ChangeId(a) ==
    LET id == IF session.kind = "item" THEN a.log.item ELSE a.log.container
    IN  IF id # 0 THEN id ELSE a.log.to

(* Mutant: the next page starts where this one did.                        *)
NewState_SamePage(a) ==
    IF Len(Rest(a)) > MaxChanges THEN Intermediate(a.log.from, ChangeId(a), a.sent)
    ELSE IF reply.new = Initial THEN Exact(ChangeId(a))
    ELSE reply.new

(* Mutant: the next page skips one change.                                 *)
NewState_Skip(a) ==
    IF Len(Rest(a)) > MaxChanges
    THEN Intermediate(a.log.from, ChangeId(a), a.sent + MaxChanges + 1)
    ELSE IF reply.new = Initial THEN Exact(ChangeId(a))
    ELSE reply.new

(* More changes: the next page of this range.  Otherwise the state read    *)
(* from the cache, or the last change of the range.                        *)
NewState(a) ==
    IF Len(Rest(a)) > MaxChanges THEN Intermediate(a.log.from, ChangeId(a), a.sent + MaxChanges)
    ELSE IF reply.new = Initial THEN Exact(ChangeId(a))
    ELSE reply.new

(* The client applies a page: what was created or updated it fetches.      *)
Applied(set, page) ==
    LET Apply(s, c) ==
            {k \in s : k.id # c.id}
                \cup IF c.op = "del" THEN {} ELSE {k \in LiveNow : k.id = c.id}
    IN  FoldLeft(Apply, set, page)

(* History: the ids the ACL filtered out.  The changes that were sent with *)
(* earlier pages are skipped after the filter: one that has become         *)
(* invisible meanwhile shifts the others.                                  *)
Hidden(a) ==
    LET hides == \E c \in Range(a.log.changes) : ~Visible(c)
    IN  {c.id : c \in {e \in Range(a.log.changes) : hides /\ (a.sent > 0 \/ ~Visible(e))}}

(* History: entries behind the client's state were gone, or marked in the  *)
(* range of its page, when the log was read.                               *)
Holed == \E i \in DOMAIN log :
            \/ log[i] = Gone /\ i > client.to
            \/ log[i] \in {Gone, Truncated} /\ client.kind = "initial"
            \/ log[i] \in {Gone, Truncated} /\ client.kind = "intermediate" /\ client.from <= i

(* The server reads the log and answers.                                   *)
Respond ==
    /\ reply.busy
    /\ \E a \in {Answered} :
           /\ ~Refused(a)
           /\ IF client = Initial /\ a.log.changes = <<>> /\ a.log.from = 0
              THEN UNCHANGED <<client, known, ahead, hidden, holed>>
              ELSE /\ client' = NewState(a)
                   /\ known' = Applied(known, Page(a))
                   /\ ahead' = ahead \cup {k.id : k \in {j \in known' : j.ver > client'.to}}
                   /\ hidden' = hidden \cup Hidden(a)
                   /\ holed' = (holed \/ Holed)
    /\ reply' = None
    /\ UNCHANGED <<storeVars, session>>

(* The error: the client fetches everything (external).                    *)
Resync(new) ==
    /\ reply.busy
    /\ new \in CacheStates
    /\ \E a \in {Answered} : Refused(a)
    /\ client' = new
    /\ known' = LiveNow
    /\ reply' = None
    /\ ahead' = {} /\ hidden' = {} /\ holed' = FALSE
    /\ UNCHANGED <<storeVars, session>>

States == {Initial} \cup {Exact(i) : i \in 0..MaxLog}

Store ==
    /\ Write \/ PurgeRange \/ PurgeMark \/ PurgeFails
    /\ UNCHANGED clientVars

Next ==
    \/ Store
    \/ \E new \in States : Request(new) \/ Resync(new)
    \/ Respond

Spec == Init /\ [][Next]_vars

-----------------------------------------------------------------------------
(* The states of the client are states get_changes can answer with, and    *)
(* the client knows one version of each object.                            *)
TypeOK ==
    /\ StoreTypeOK
    /\ client.kind \in {"initial", "exact", "intermediate"}
    /\ client.to \in 0..MaxLog
    /\ client.kind = "intermediate" => client.from <= client.to /\ client.sent > 0
    /\ \A k, l \in known : k.id = l.id => k = l

(* The state of the client is as new as every object of the kind.          *)
UpToDate ==
    /\ ~reply.busy /\ client.kind = "exact"
    /\ \A d \in Documents : Id(d, NoThread).kind = session.kind => docs[d].ver <= client.to

(* A client of an uncached type (files) that is up to date knows exactly   *)
(* the objects there are, in the version they have, unless it was answered *)
(* from a log with a hole.                                                 *)
Converged ==
    UpToDate /\ ~holed /\ ~session.cached /\ ~session.shared => known = LiveNow

(* What a client that is up to date misses, the ACL, read before the log,  *)
(* filtered out; what it knows in excess was reported to it as created     *)
(* together with a state from before the creation, or its deletion was     *)
(* filtered out.                                                           *)
DifferencesHaveCause ==
    UpToDate /\ ~holed =>
        /\ \A k \in LiveNow \ known : k.id \in hidden
        /\ \A k \in known \ LiveNow : k.id \in ahead \cup hidden

(* Paging comes to an end: every page ends the range, or moves it or the   *)
(* place in it on; over a log of finite length that is a bound.            *)
PagesAdvance ==
    [][client.kind = "intermediate" /\ reply.busy /\ ~reply'.busy =>
          \/ client'.kind = "exact"
          \/ client'.to > client.to
          \/ client'.to = client.to /\ client'.sent > client.sent]_vars

(* Types, and the promise of Foo/changes where nothing is filtered or      *)
(* cached: a client that follows its states knows what there is.           *)
SyncInv == TypeOK /\ Converged

=============================================================================
