--------------------------- MODULE MtaSpoolProofs ---------------------------
(***************************************************************************)
(* The safety of the spool for any recipients, virtual queues, schedules,  *)
(* expiries, retry times and numbers of faults and administrator requests. *)
(* Solitary and Shared hold as long as no delivery outlasts its lock and   *)
(* meets a second worker of its queue; the other stages whatever the locks *)
(* do.  The proof goes in five stages, each using the ones before:         *)
(*   Base       types, events, and which copies workers hold;              *)
(*   Outcomes   what a copy says of a recipient did happen (Accounted);    *)
(*   Solitary   one queue, one worker (QuotaConserved, ReportedOnce);      *)
(*   Shared     several queues, several workers (DeliveredOnce);           *)
(*   Planned    every pending recipient has its event (RcptScheduled).     *)
(***************************************************************************)
EXTENDS MtaSpool, FiniteSetTheorems, WellFoundedInduction, TLAPS

LEMMA Numbers ==
    /\ MaxNow \in Nat /\ Never = MaxNow + 1 /\ Many \in Nat /\ Many >= 2
    /\ MaxTrouble \in Nat /\ MaxEdits \in Nat /\ NotifyAfter \in Nat /\ RetryAfter \in Nat
BY SpoolAssumptions DEF Never, Many

(* A set of naturals that is not empty has a least element.                *)
LEMMA MinOfNats ==
    ASSUME NEW S, S \subseteq Nat, S # {}
    PROVE  Min(S) \in S /\ \A x \in S : Min(S) <= x
<1> DEFINE R == OpToRel(<, Nat)
<1>1. IsWellFoundedOn(R, Nat)
  BY NatLessThanWellFounded
<1>2. \A x, y \in Nat : x < y => <<x, y>> \in R
  BY DEF OpToRel
<1> HIDE DEF R
<1>3. PICK x \in S : \A y \in S : ~(<<y, x>> \in R)
  BY <1>1, WFMin, Zenon
<1>4. ASSUME NEW y \in S PROVE x <= y
  <2>1. x \in Nat /\ y \in Nat
    OBVIOUS
  <2>2. ~(y < x)
    BY <1>2, <1>3, <2>1, Zenon
  <2> QED
    BY <2>1, <2>2
<1> QED
  BY <1>4 DEF Min

-----------------------------------------------------------------------------
(* The slots of the workers *)

LEMMA SlotKinds ==
    /\ Queues \subseteq Slots
    /\ \A q \in Queues : Late(q) \in Slots /\ Late(q) \notin Queues
    /\ \A s \in Slots : s \in Queues \/ \E q \in Queues : s = Late(q)
    /\ \A q \in Queues : QueueOf(q) = q
    /\ \A s \in Slots : QueueOf(s) \in Queues
<1>1. \A q \in Queues : Late(q) \notin Queues
  BY SpoolAssumptions
<1>2. \A q \in Queues : Late(q)[2] = q
  BY DEF Late
<1> QED
  BY <1>1, <1>2 DEF Slots, QueueOf

-----------------------------------------------------------------------------
(* What the operators on messages make of each recipient *)

LEMMA MessageParts ==
    /\ NoMsg \notin Message
    /\ \A m \in Message : m.rcpts \in [Rcpts -> Recipient] /\ m.meta \subseteq Rcpts
    /\ \A m \in Message, f \in [Rcpts -> Recipient] :
          [m EXCEPT !.rcpts = f] \in Message /\ [m EXCEPT !.rcpts = f].rcpts = f
              /\ [m EXCEPT !.rcpts = f].meta = m.meta
<1>1. NoMsg \notin Message
  <2>1. SUFFICES ASSUME NoMsg \in Message PROVE FALSE
    OBVIOUS
  <2>2. NoMsg.rcpts \in [Rcpts -> Recipient]
    BY <2>1 DEF Message
  <2>3. NoMsg.rcpts = <<>>
    BY DEF NoMsg
  <2>4. DOMAIN NoMsg.rcpts = {}
    BY <2>3
  <2> QED
    BY <2>2, <2>4, SpoolAssumptions
<1> QED
  BY <1>1 DEF Message

LEMMA LaterType ==
    ASSUME now \in 0..MaxNow, NEW d \in Nat
    PROVE  Later(d) \in 0..MaxNow
BY Numbers DEF Later

LEMMA MarkExpiredIs ==
    ASSUME NEW m \in Message
    PROVE  LET x == MarkExpired(m) IN
           /\ x \in Message /\ x.meta = m.meta
           /\ \A r \in Rcpts : x.rcpts[r] =
                 IF Pending(m.rcpts[r]) /\ Expired(m.rcpts[r])
                 THEN [m.rcpts[r] EXCEPT !.status = "permfail"] ELSE m.rcpts[r]
<1> DEFINE f == [r \in Rcpts |->
                    IF Pending(m.rcpts[r]) /\ Expired(m.rcpts[r])
                    THEN [m.rcpts[r] EXCEPT !.status = "permfail"] ELSE m.rcpts[r]]
<1>1. MarkExpired(m) = [m EXCEPT !.rcpts = f]
  BY DEF MarkExpired, Message
<1>2. f \in [Rcpts -> Recipient]
  BY MessageParts DEF Recipient, Statuses
<1> QED
  BY <1>1, <1>2, MessageParts

LEMMA AfterDsnIs ==
    ASSUME NEW m \in Message
    PROVE  LET x == AfterDsn(m) IN
           /\ x \in Message /\ x.meta = m.meta
           /\ \A r \in Rcpts : x.rcpts[r] =
                 IF Final(m.rcpts[r]) THEN [m.rcpts[r] EXCEPT !.dsnSent = TRUE]
                 ELSE IF m.rcpts[r].notify <= now THEN [m.rcpts[r] EXCEPT !.notify = Never]
                 ELSE m.rcpts[r]
<1> DEFINE f == [r \in Rcpts |->
                 IF Final(m.rcpts[r]) THEN [m.rcpts[r] EXCEPT !.dsnSent = TRUE]
                 ELSE IF m.rcpts[r].notify <= now THEN [m.rcpts[r] EXCEPT !.notify = Never]
                 ELSE m.rcpts[r]]
<1>1. AfterDsn(m) = [m EXCEPT !.rcpts = f]
  BY DEF AfterDsn, Message
<1>2. f \in [Rcpts -> Recipient]
  <2>1. Never \in 0..Never
    BY Numbers
  <2>2. ASSUME NEW r \in Rcpts PROVE f[r] \in Recipient
    <3>1. m.rcpts[r] \in Recipient
      BY MessageParts
    <3>2. [m.rcpts[r] EXCEPT !.dsnSent = TRUE] \in Recipient
      BY <3>1 DEF Recipient
    <3>3. [m.rcpts[r] EXCEPT !.notify = Never] \in Recipient
      BY <2>1, <3>1 DEF Recipient
    <3> QED
      BY <3>1, <3>2, <3>3
  <2> QED
    BY <2>2
<1>3. \A r \in Rcpts : f[r] =
                 IF Final(m.rcpts[r]) THEN [m.rcpts[r] EXCEPT !.dsnSent = TRUE]
                 ELSE IF m.rcpts[r].notify <= now THEN [m.rcpts[r] EXCEPT !.notify = Never]
                 ELSE m.rcpts[r]
  OBVIOUS
<1> HIDE DEF f
<1>4. AfterDsn(m) \in Message /\ AfterDsn(m).meta = m.meta /\ AfterDsn(m).rcpts = f
  BY <1>1, <1>2, MessageParts
<1> QED
  BY <1>3, <1>4

LEMMA AfterReleaseIs ==
    ASSUME NEW m \in Message
    PROVE  /\ AfterRelease(m) \in Message
           /\ AfterRelease(m).rcpts = m.rcpts
           /\ AfterRelease(m).meta = m.meta \ Done(m)
BY DEF AfterRelease, Message

LEMMA MergedIs ==
    ASSUME msg \in Message, NEW m \in Message, NEW q \in Queues
    PROVE  /\ Merged(m, q) \in Message /\ Merged(m, q).meta = msg.meta
           /\ \A r \in Rcpts : Merged(m, q).rcpts[r] =
                 IF m.rcpts[r].queue = q THEN m.rcpts[r] ELSE msg.rcpts[r]
<1> DEFINE f == [r \in Rcpts |->
                    IF m.rcpts[r].queue = q THEN m.rcpts[r] ELSE msg.rcpts[r]]
<1>1. Merged(m, q) = [msg EXCEPT !.rcpts = f]
  BY DEF Merged, Message
<1>2. f \in [Rcpts -> Recipient]
  BY MessageParts
<1> QED
  BY <1>1, <1>2, MessageParts

LEMMA EditedIs ==
    ASSUME now \in 0..MaxNow, NEW m \in Message, NEW rs \in SUBSET Rcpts,
           NEW op \in {"touch", "retry", "reschedule", "cancel"}, op = "touch" => rs = {}
    PROVE  Edited(m, op, rs) \in Message /\ Edited(m, op, rs).meta = m.meta
<1> DEFINE g(r) == CASE op = "retry" -> [m.rcpts[r] EXCEPT !.due = now]
                     [] op = "reschedule" -> [m.rcpts[r] EXCEPT !.status = "scheduled"]
                     [] op = "cancel" -> [m.rcpts[r] EXCEPT !.status = "permfail"]
           f == [r \in Rcpts |-> IF r \notin rs THEN m.rcpts[r] ELSE g(r)]
<1>1. Edited(m, op, rs) = [m EXCEPT !.rcpts = f]
  BY DEF Edited, Message
<1>2. ASSUME NEW r \in Rcpts PROVE f[r] \in Recipient
  <2>1. m.rcpts[r] \in Recipient
    BY MessageParts
  <2>2. CASE r \notin rs
    BY <2>1, <2>2
  <2>3. CASE op = "retry"
    BY <2>1, <2>2, <2>3 DEF Recipient
  <2>4. CASE op = "reschedule"
    BY <2>1, <2>2, <2>4 DEF Recipient, Statuses
  <2>5. CASE op = "cancel"
    BY <2>1, <2>2, <2>5 DEF Recipient, Statuses
  <2> QED
    BY <2>2, <2>3, <2>4, <2>5
<1>3. f \in [Rcpts -> Recipient]
  BY <1>2
<1> HIDE DEF f
<1> QED
  BY <1>1, <1>3, MessageParts

LEMMA NewMessageIs ==
    ASSUME now \in 0..MaxNow, NEW home \in [Rcpts -> Queues]
    PROVE  /\ NewMessage(home) \in Message /\ NewMessage(home).meta = Reserved
           /\ \A r \in Rcpts : /\ NewMessage(home).rcpts[r].queue = home[r]
                               /\ NewMessage(home).rcpts[r].status = "scheduled"
                               /\ NewMessage(home).rcpts[r].dsnSent = FALSE
<1>1. Later(NotifyAfter) \in 0..Never /\ now \in 0..MaxNow
  BY LaterType, Numbers
<1> QED
  BY <1>1, SpoolAssumptions DEF NewMessage, Message, Recipient, Statuses

(* The next events of a message, one for each queue with something to do.  *)
LEMMA NextEventsAre ==
    ASSUME NEW m \in Message
    PROVE  /\ NextEvents(m) \subseteq Event
           /\ HasPending(m) => NextEvents(m) # {}
           /\ \A e \in NextEvents(m) : \E r \in Rcpts : m.rcpts[r].queue = e.queue
<1>1. ASSUME NEW r \in Rcpts
      PROVE  NextTime(m.rcpts[r]) \in 0..MaxNow
  <2> DEFINE rc == m.rcpts[r]
             x == Expiry[rc.queue]
             T == {rc.due, rc.notify} \cup IF x.kind = "ttl" THEN {x.n} ELSE {}
  <2>1. rc \in Recipient
    BY MessageParts
  <2>2. rc.due \in 0..MaxNow /\ rc.notify \in Nat /\ rc.queue \in Queues
    BY <2>1, Numbers DEF Recipient
  <2>3. x.n \in Nat
    BY <2>2, SpoolAssumptions
  <2>4. T \subseteq Nat /\ T # {} /\ rc.due \in T
    BY <2>2, <2>3
  <2>5. NextTime(rc) = Min(T)
    BY DEF NextTime
  <2> HIDE DEF T
  <2>6. Min(T) \in Nat /\ Min(T) <= rc.due
    BY <2>4, MinOfNats
  <2> QED
    BY <2>2, <2>5, <2>6, Numbers
<1>2. ASSUME NEW q \in Queues, PendingIn(m, q) # {}
      PROVE  Min({NextTime(m.rcpts[r]) : r \in PendingIn(m, q)}) \in 0..MaxNow
  <2> DEFINE T == {NextTime(m.rcpts[r]) : r \in PendingIn(m, q)}
  <2>1. T \subseteq 0..MaxNow /\ T # {}
    BY <1>1, <1>2 DEF PendingIn
  <2>2. T \subseteq Nat
    BY <2>1, Numbers
  <2> HIDE DEF T
  <2>3. Min(T) \in T
    BY <2>1, <2>2, MinOfNats
  <2> QED
    BY <2>1, <2>3 DEF T
<1>3. NextEvents(m) \subseteq Event
  <2>1. ASSUME NEW e \in NextEvents(m) PROVE e \in Event
    <3>1. PICK q \in {p \in Queues : PendingIn(m, p) # {}} :
              e = [queue |-> q, due |-> Min({NextTime(m.rcpts[r]) : r \in PendingIn(m, q)})]
      BY DEF NextEvents
    <3>2. Min({NextTime(m.rcpts[r]) : r \in PendingIn(m, q)}) \in 0..MaxNow
      BY <1>2
    <3> QED
      BY <3>1, <3>2 DEF Event
  <2> QED
    BY <2>1
<1>4. ASSUME HasPending(m) PROVE NextEvents(m) # {}
  <2>1. PICK r \in Rcpts : Pending(m.rcpts[r])
    BY <1>4 DEF HasPending
  <2>2. m.rcpts[r].queue \in Queues /\ r \in PendingIn(m, m.rcpts[r].queue)
    BY <2>1, MessageParts DEF PendingIn, Recipient
  <2> QED
    BY <2>2 DEF NextEvents
<1>5. ASSUME NEW e \in NextEvents(m) PROVE \E r \in Rcpts : m.rcpts[r].queue = e.queue
  <2>1. PICK q \in {p \in Queues : PendingIn(m, p) # {}} :
            e = [queue |-> q, due |-> Min({NextTime(m.rcpts[r]) : r \in PendingIn(m, q)})]
    BY DEF NextEvents
  <2>2. e.queue = q
    BY <2>1
  <2> QED
    BY <2>1, <2>2 DEF PendingIn
<1> QED
  BY <1>3, <1>4, <1>5

-----------------------------------------------------------------------------
(* What the steps of a worker make of its copy *)

(* Notices about rs went out for a copy v of what was m, if r had none.    *)
Noticed(m, v, rs) ==
    \A r \in Rcpts :
        /\ v.rcpts[r].dsnSent <=> m.rcpts[r].dsnSent \/ Final(v.rcpts[r])
        /\ r \in rs <=> v.rcpts[r].status = "permfail" /\ ~m.rcpts[r].dsnSent

(* Recipients of v that are done were done in m, with the same outcome.    *)
KeepsOutcomes(m, v) ==
    \A r \in Rcpts :
        /\ Pending(v.rcpts[r]) => Pending(m.rcpts[r])
        /\ Final(m.rcpts[r]) => v.rcpts[r].status = m.rcpts[r].status

(* v is the copy that try_deliver makes of the stored message m.           *)
Read(m, v, rs) ==
    /\ v \in Message /\ v.meta = m.meta /\ rs \subseteq Rcpts
    /\ Noticed(m, v, rs) /\ KeepsOutcomes(m, v)
    /\ \A r \in Rcpts :
          /\ v.rcpts[r].queue = m.rcpts[r].queue
          /\ v.rcpts[r].status = "completed" => m.rcpts[r].status = "completed"

(* v is the copy m of the worker of q after an attempt that delivered to   *)
(* the recipients in done.                                                 *)
Tried(m, v, q, done, rs) ==
    /\ v \in Message /\ v.meta = m.meta /\ rs \subseteq Rcpts /\ done \subseteq Rcpts
    /\ Noticed(m, v, rs) /\ KeepsOutcomes(m, v)
    /\ \A r \in Rcpts :
          /\ r \in done <=> Pending(m.rcpts[r]) /\ v.rcpts[r].status = "completed"
          /\ Pending(m.rcpts[r]) /\ Final(v.rcpts[r]) =>
                m.rcpts[r].queue = q /\ v.rcpts[r].queue = q
          /\ v.rcpts[r].queue # m.rcpts[r].queue => m.rcpts[r].queue = q
          /\ Final(m.rcpts[r]) => v.rcpts[r].queue = m.rcpts[r].queue

(* v is the copy m whose due recipients wait.                              *)
Waits(m, v) ==
    /\ v \in Message /\ v.meta = m.meta
    /\ \A r \in Rcpts :
          /\ v.rcpts[r].queue = m.rcpts[r].queue
          /\ v.rcpts[r].dsnSent = m.rcpts[r].dsnSent
          /\ Pending(m.rcpts[r]) <=> Pending(v.rcpts[r])
          /\ Final(m.rcpts[r]) => v.rcpts[r].status = m.rcpts[r].status

NextStep(v) == IF HasPending(v) THEN {"deliver", "save"} ELSE {"remove"}

Base == TypeOK /\ NotStranded /\ CopiesReal /\ OneWorker

LEMMA CopyTypes ==
    ASSUME Base
    PROVE  /\ msg # NoMsg => msg \in Message
           /\ \A s \in Slots : Working(s) => worker[s].view \in Message
           /\ \A s \in Slots : ~Working(s) => worker[s].view = NoMsg
           /\ admin.op # "none" => admin.view \in Message
           /\ now \in 0..MaxNow
BY DEF Base, TypeOK, CopiesReal

LEMMA ReadIs ==
    ASSUME NEW m \in Message
    PROVE  /\ Read(m, AfterDsn(MarkExpired(m)), FailureNotices(MarkExpired(m)))
           /\ HasPending(AfterDsn(MarkExpired(m))) <=> HasPending(MarkExpired(m))
<1> DEFINE x == MarkExpired(m)
           v == AfterDsn(x)
<1>1. /\ x \in Message /\ x.meta = m.meta
      /\ \A r \in Rcpts : x.rcpts[r] =
            IF Pending(m.rcpts[r]) /\ Expired(m.rcpts[r])
            THEN [m.rcpts[r] EXCEPT !.status = "permfail"] ELSE m.rcpts[r]
  BY MarkExpiredIs
<1>2. FailureNotices(x) =
          {r \in Rcpts : x.rcpts[r].status = "permfail" /\ ~x.rcpts[r].dsnSent}
  BY DEF FailureNotices
<1> HIDE DEF x
<1>3. /\ v \in Message /\ v.meta = x.meta
      /\ \A r \in Rcpts : v.rcpts[r] =
            IF Final(x.rcpts[r]) THEN [x.rcpts[r] EXCEPT !.dsnSent = TRUE]
            ELSE IF x.rcpts[r].notify <= now THEN [x.rcpts[r] EXCEPT !.notify = Never]
            ELSE x.rcpts[r]
  BY <1>1, AfterDsnIs
<1> HIDE DEF v
<1>4. ASSUME NEW r \in Rcpts
      PROVE  /\ x.rcpts[r].queue = m.rcpts[r].queue
             /\ x.rcpts[r].dsnSent = m.rcpts[r].dsnSent
             /\ Pending(x.rcpts[r]) => Pending(m.rcpts[r])
             /\ Final(m.rcpts[r]) => x.rcpts[r].status = m.rcpts[r].status
             /\ x.rcpts[r].status = "completed" => m.rcpts[r].status = "completed"
             /\ x.rcpts[r].dsnSent \in BOOLEAN
  <2>1. m.rcpts[r] \in Recipient /\ x.rcpts[r] \in Recipient
    BY <1>1, MessageParts
  <2>2. CASE Pending(m.rcpts[r]) /\ Expired(m.rcpts[r])
    <3>1. x.rcpts[r] = [m.rcpts[r] EXCEPT !.status = "permfail"]
      BY <1>1, <2>2
    <3> QED
      BY <2>1, <2>2, <3>1 DEF Recipient, Pending, Final
  <2>3. CASE ~(Pending(m.rcpts[r]) /\ Expired(m.rcpts[r]))
    <3>1. x.rcpts[r] = m.rcpts[r]
      BY <1>1, <2>3
    <3> QED
      BY <2>1, <3>1 DEF Recipient
  <2> QED
    BY <2>2, <2>3
<1>5. ASSUME NEW r \in Rcpts
      PROVE  /\ v.rcpts[r].queue = x.rcpts[r].queue
             /\ v.rcpts[r].status = x.rcpts[r].status
             /\ v.rcpts[r].dsnSent <=> x.rcpts[r].dsnSent \/ Final(v.rcpts[r])
             /\ v.rcpts[r].dsnSent \in BOOLEAN
  <2>1. x.rcpts[r] \in Recipient /\ v.rcpts[r] \in Recipient
    BY <1>1, <1>3, MessageParts
  <2>2. CASE Final(x.rcpts[r])
    <3>1. v.rcpts[r] = [x.rcpts[r] EXCEPT !.dsnSent = TRUE]
      BY <1>3, <2>2
    <3> QED
      BY <2>1, <2>2, <3>1 DEF Recipient, Pending, Final
  <2>3. CASE ~Final(x.rcpts[r])
    <3>1. v.rcpts[r] = [x.rcpts[r] EXCEPT !.notify = Never] \/ v.rcpts[r] = x.rcpts[r]
      BY <1>3, <2>3
    <3> QED
      BY <2>1, <2>3, <3>1 DEF Recipient, Pending, Final
  <2> QED
    BY <2>2, <2>3
<1>6. Read(m, v, FailureNotices(x))
  BY <1>1, <1>2, <1>3, <1>4, <1>5 DEF Read, Noticed, KeepsOutcomes, Pending, Final
<1>7. HasPending(v) <=> HasPending(x)
  BY <1>5 DEF HasPending, Pending
<1> QED
  BY <1>6, <1>7 DEF x, v

(* f is the recipient rc after an outcome.                                 *)
Outcomes == {"completed", "permfail", "tempfail", "limited"}

After(rc, f, outcome, to) ==
    /\ f \in Recipient
    /\ f.dsnSent = rc.dsnSent
    /\ f.queue = IF outcome = "tempfail" THEN to ELSE rc.queue
    /\ f.status = IF outcome = "limited" THEN "tempfail" ELSE outcome

LEMMA SetStatusIs ==
    ASSUME NEW rc \in Recipient, now \in 0..MaxNow, NEW to \in Queues,
           NEW outcome \in Outcomes
    PROVE  After(rc, SetStatus(rc, outcome, to), outcome, to)
<1> DEFINE f == SetStatus(rc, outcome, to)
<1>1. CASE outcome = "tempfail"
  <2>1. f = [rc EXCEPT !.status = "tempfail", !.due = Later(RetryAfter),
                       !.inner = rc.inner + 1, !.queue = to]
    BY <1>1 DEF SetStatus
  <2>2. Later(RetryAfter) \in 0..MaxNow /\ rc.inner + 1 \in Nat
    BY LaterType, Numbers DEF Recipient
  <2> QED
    BY <1>1, <2>1, <2>2 DEF Recipient, Statuses, After
<1>2. CASE outcome = "limited"
  <2>1. f = [rc EXCEPT !.status = "tempfail", !.due = Later(1)]
    BY <1>2 DEF SetStatus
  <2>2. Later(1) \in 0..MaxNow
    BY LaterType
  <2> QED
    BY <1>2, <2>1, <2>2 DEF Recipient, Statuses, After
<1>3. CASE outcome \in {"completed", "permfail"}
  <2>1. f = [rc EXCEPT !.status = outcome]
    BY <1>3 DEF SetStatus
  <2> QED
    BY <1>3, <2>1 DEF Recipient, Statuses, After
<1> QED
  BY <1>1, <1>2, <1>3 DEF Outcomes

(* The outcomes of an attempt on the due recipients of q, as x has them.   *)
AfterAll(m, x, q, due, outcome, to) ==
    /\ due \subseteq Rcpts /\ x \in Message /\ x.meta = m.meta
    /\ \A r \in Rcpts \ due : x.rcpts[r] = m.rcpts[r]
    /\ \A r \in due :
          /\ Pending(m.rcpts[r]) /\ m.rcpts[r].queue = q
          /\ outcome[r] \in Outcomes
          /\ to[r] = m.rcpts[r].queue \/ outcome[r] = "tempfail"
          /\ After(m.rcpts[r], x.rcpts[r], outcome[r], to[r])

LEMMA TriedIs ==
    ASSUME NEW m \in Message, NEW x, NEW q \in Queues, NEW due, NEW done, NEW outcome, NEW to,
           AfterAll(m, x, q, due, outcome, to),
           done = {r \in due : outcome[r] = "completed"}
    PROVE  /\ Tried(m, AfterDsn(x), q, done, FailureNotices(x))
           /\ HasPending(AfterDsn(x)) <=> HasPending(x)
           /\ \A r \in Rcpts : AfterDsn(x).rcpts[r].queue = x.rcpts[r].queue
<1> DEFINE v == AfterDsn(x)
<1>1. x \in Message /\ x.meta = m.meta /\ due \subseteq Rcpts
  BY DEF AfterAll
<1>2. ASSUME NEW r \in Rcpts
      PROVE  /\ x.rcpts[r] \in Recipient
             /\ x.rcpts[r].dsnSent = m.rcpts[r].dsnSent
             /\ r \notin due => x.rcpts[r] = m.rcpts[r]
             /\ r \in due =>
                   /\ Pending(m.rcpts[r]) /\ m.rcpts[r].queue = q
                   /\ outcome[r] \in Outcomes
                   /\ to[r] = m.rcpts[r].queue \/ outcome[r] = "tempfail"
                   /\ x.rcpts[r].queue = IF outcome[r] = "tempfail" THEN to[r] ELSE q
                   /\ x.rcpts[r].status = IF outcome[r] = "limited" THEN "tempfail" ELSE outcome[r]
  <2>1. m.rcpts[r] \in Recipient /\ x.rcpts[r] \in Recipient
    BY <1>1, MessageParts
  <2>2. CASE r \notin due
    BY <2>1, <2>2 DEF AfterAll
  <2>3. CASE r \in due
    <3>1. /\ Pending(m.rcpts[r]) /\ m.rcpts[r].queue = q
          /\ outcome[r] \in Outcomes
          /\ to[r] = m.rcpts[r].queue \/ outcome[r] = "tempfail"
          /\ After(m.rcpts[r], x.rcpts[r], outcome[r], to[r])
      BY <2>3 DEF AfterAll
    <3>2. /\ x.rcpts[r].dsnSent = m.rcpts[r].dsnSent
          /\ x.rcpts[r].queue = IF outcome[r] = "tempfail" THEN to[r] ELSE m.rcpts[r].queue
          /\ x.rcpts[r].status = IF outcome[r] = "limited" THEN "tempfail" ELSE outcome[r]
      BY <3>1, Zenon DEF After
    <3> QED
      BY <2>1, <2>3, <3>1, <3>2
  <2> QED
    BY <2>2, <2>3
<1>3. FailureNotices(x) =
          {r \in Rcpts : x.rcpts[r].status = "permfail" /\ ~x.rcpts[r].dsnSent}
  BY DEF FailureNotices
<1>4. /\ v \in Message /\ v.meta = x.meta
      /\ \A r \in Rcpts : v.rcpts[r] =
            IF Final(x.rcpts[r]) THEN [x.rcpts[r] EXCEPT !.dsnSent = TRUE]
            ELSE IF x.rcpts[r].notify <= now THEN [x.rcpts[r] EXCEPT !.notify = Never]
            ELSE x.rcpts[r]
  BY <1>1, AfterDsnIs
<1> HIDE DEF v
<1>5. ASSUME NEW r \in Rcpts
      PROVE  /\ v.rcpts[r].queue = x.rcpts[r].queue
             /\ v.rcpts[r].status = x.rcpts[r].status
             /\ v.rcpts[r].dsnSent <=> x.rcpts[r].dsnSent \/ Final(v.rcpts[r])
             /\ v.rcpts[r].dsnSent \in BOOLEAN
  <2>1. x.rcpts[r] \in Recipient /\ v.rcpts[r] \in Recipient
    BY <1>2, <1>4, MessageParts
  <2>2. CASE Final(x.rcpts[r])
    <3>1. v.rcpts[r] = [x.rcpts[r] EXCEPT !.dsnSent = TRUE]
      BY <1>4, <2>2
    <3> QED
      BY <2>1, <2>2, <3>1 DEF Recipient, Pending, Final
  <2>3. CASE ~Final(x.rcpts[r])
    <3>1. v.rcpts[r] = [x.rcpts[r] EXCEPT !.notify = Never] \/ v.rcpts[r] = x.rcpts[r]
      BY <1>4, <2>3
    <3> QED
      BY <2>1, <2>3, <3>1 DEF Recipient, Pending, Final
  <2> QED
    BY <2>2, <2>3
<1>6. \A r \in Rcpts : v.rcpts[r].queue = x.rcpts[r].queue
  BY <1>5
<1>7. Noticed(m, v, FailureNotices(x))
  <2>1. ASSUME NEW r \in Rcpts
        PROVE  /\ v.rcpts[r].dsnSent <=> m.rcpts[r].dsnSent \/ Final(v.rcpts[r])
               /\ r \in FailureNotices(x) <=>
                     v.rcpts[r].status = "permfail" /\ ~m.rcpts[r].dsnSent
    <3>1. x.rcpts[r].dsnSent = m.rcpts[r].dsnSent
      BY <1>2
    <3>2. /\ v.rcpts[r].status = x.rcpts[r].status
          /\ v.rcpts[r].dsnSent <=> x.rcpts[r].dsnSent \/ Final(v.rcpts[r])
      BY <1>5
    <3> QED
      BY <1>3, <3>1, <3>2, Zenon
  <2> QED
    BY <2>1, Zenon DEF Noticed
<1>8. KeepsOutcomes(m, v)
  BY <1>2, <1>5 DEF KeepsOutcomes, Pending, Final, Outcomes
<1>9. ASSUME NEW r \in Rcpts
      PROVE  /\ r \in done <=> Pending(m.rcpts[r]) /\ v.rcpts[r].status = "completed"
             /\ Pending(m.rcpts[r]) /\ Final(v.rcpts[r]) =>
                   m.rcpts[r].queue = q /\ v.rcpts[r].queue = q
             /\ v.rcpts[r].queue # m.rcpts[r].queue => m.rcpts[r].queue = q
             /\ Final(m.rcpts[r]) => v.rcpts[r].queue = m.rcpts[r].queue
  BY <1>2, <1>5, <1>6 DEF Pending, Final, Outcomes
<1>10. Tried(m, v, q, done, FailureNotices(x))
  BY <1>1, <1>3, <1>4, <1>7, <1>8, <1>9 DEF Tried
<1>11. HasPending(v) <=> HasPending(x)
  BY <1>5 DEF HasPending, Pending
<1> QED
  BY <1>6, <1>10, <1>11 DEF v

-----------------------------------------------------------------------------
(* What each step does to the worker and to the counts *)

WorkerRec == [pc : {"idle", "gone", "deliver", "save", "remove"}, due : 0..MaxNow,
              view : Message \cup {NoMsg}, multi : BOOLEAN]

(* The worker in slot s turns to pc with copy v; the others go on.         *)
Turns(s, pc, v, multi) ==
    /\ worker' \in [Slots -> WorkerRec] /\ held' \subseteq Queues
    /\ worker'[s].pc = pc /\ worker'[s].view = v /\ worker'[s].multi = multi
    /\ \A p \in Slots \ {s} : worker'[p] = worker[p]

LEMMA TurnsTo ==
    ASSUME TypeOK, NEW s \in Slots, NEW w \in WorkerRec,
           worker' = [worker EXCEPT ![s] = w], held' \subseteq Queues
    PROVE  Turns(s, w.pc, w.view, w.multi)
BY DEF TypeOK, Turns, WorkerRec

LEMMA GotoIs ==
    ASSUME TypeOK, NEW s \in Slots, NEW v \in Message,
           NEW pc \in {"idle", "gone", "deliver", "save", "remove"}, Goto(s, pc, v),
           held' = held
    PROVE  Turns(s, pc, v, worker[s].multi)
<1>1. worker \in [Slots -> WorkerRec]
  BY DEF TypeOK, WorkerRec
<1>2. worker' = [worker EXCEPT ![s] = [worker[s] EXCEPT !.pc = pc, !.view = v]]
  BY <1>1 DEF Goto, WorkerRec
<1>3. worker[s] \in WorkerRec
  BY <1>1
<1> DEFINE w == [worker[s] EXCEPT !.pc = pc, !.view = v]
<1>4. w \in WorkerRec /\ w.pc = pc /\ w.view = v /\ w.multi = worker[s].multi
  BY <1>3 DEF WorkerRec
<1> HIDE DEF w
<1>5. worker' = [worker EXCEPT ![s] = w]
  BY <1>2 DEF w
<1>6. held' \subseteq Queues
  BY DEF TypeOK
<1> QED
  BY <1>1, <1>4, <1>5, <1>6 DEF Turns

LEMMA LeaveIs ==
    ASSUME TypeOK, NEW s \in Slots, Leave(s), held' \in {held, held \ {QueueOf(s)}}
    PROVE  Turns(s, "idle", NoMsg, FALSE)
<1>1. Idle \in WorkerRec /\ Idle.pc = "idle" /\ Idle.view = NoMsg /\ Idle.multi = FALSE
  BY Numbers DEF Idle, WorkerRec
<1>2. held' \subseteq Queues
  BY DEF TypeOK
<1> QED
  BY <1>1, <1>2, TurnsTo DEF Leave

LEMMA FinishIs ==
    ASSUME TypeOK, NEW s \in Slots, Finish(s)
    PROVE  Turns(s, "idle", NoMsg, FALSE)
BY LeaveIs DEF Finish

LEMMA CountedIs ==
    ASSUME NEW f \in [Rcpts -> Nat], NEW rs
    PROVE  /\ Counted(f, rs) \in [Rcpts -> Nat]
           /\ \A r \in Rcpts :
                 /\ f[r] <= Counted(f, rs)[r]
                 /\ Counted(f, rs)[r] <= f[r] + 1
                 /\ r \notin rs => Counted(f, rs)[r] = f[r]
                 /\ r \in rs => Counted(f, rs)[r] > 0
BY Numbers DEF Counted

LEMMA NotifyIs ==
    ASSUME TypeOK, NEW rs \in SUBSET Rcpts, Notify(rs)
    PROVE  /\ reported' \in [Rcpts -> Nat]
           /\ unreported' \subseteq Rcpts /\ unreported \subseteq unreported'
           /\ \A r \in Rcpts :
                 /\ reported[r] <= reported'[r] /\ reported'[r] <= reported[r] + 1
                 /\ r \notin rs => reported'[r] = reported[r]
                 /\ r \in rs => reported'[r] > 0 \/ r \in unreported'
<1>1. reported \in [Rcpts -> Nat] /\ unreported \subseteq Rcpts
  BY DEF TypeOK
<1>2. CASE reported' = Counted(reported, rs) /\ UNCHANGED unreported
  BY <1>1, <1>2, CountedIs
<1>3. CASE unreported' = unreported \cup rs /\ UNCHANGED reported
  BY <1>1, <1>3
<1> QED
  BY <1>2, <1>3 DEF Notify

-----------------------------------------------------------------------------
(* The steps of a worker, as the stages of the proof see them *)

(* A worker starts in slot s, for an event of q that was dispatched.  In   *)
(* the slot of a late worker it starts while another one is at work.       *)
Starting(s, q) ==
    /\ worker[s].pc = "idle" /\ \E e \in claims : e.queue = q
    /\ overruns' \in {overruns, overruns + 1}
    /\ overruns' # overruns => Calm
    /\ s \notin Queues => overruns' = overruns + 1

(* try_deliver finds no message, or fails to read it.                      *)
FindsNone(s, q) ==
    /\ Starting(s, q)
    /\ Turns(s, "gone", NoMsg, FALSE)
    /\ faults' \in {faults, faults + 1} /\ (faults' # faults => Calm)
    /\ claims' \subseteq claims
    /\ UNCHANGED <<now, accepted, msg, events, quota, blobLink, admin, delivered,
                   reported, unreported, spread, misread, edits>>

(* try_deliver reads the message.                                          *)
Reads(s, q) ==
    /\ Starting(s, q)
    /\ msg # NoMsg
    /\ \E v, rs, pc :
          /\ Read(msg, v, rs) /\ Notify(rs)
          /\ pc \in NextStep(v) /\ Turns(s, pc, v, IsMultiQueue(msg, q))
    /\ claims' \subseteq claims
    /\ UNCHANGED <<now, accepted, msg, events, quota, blobLink, admin, delivered,
                   spread, misread, faults, edits>>

(* The slot that try_deliver's worker for an event of q starts in.         *)
Slot(q) == IF worker[q].pc = "idle" THEN q ELSE Late(q)

LEMMA SlotIs ==
    ASSUME NEW q \in Queues
    PROVE  /\ Slot(q) \in Slots /\ QueueOf(Slot(q)) = q
           /\ Slot(q) \notin Queues => Busy(q)
<1>1. CASE worker[q].pc = "idle"
  BY <1>1, SlotKinds DEF Slot
<1>2. CASE worker[q].pc # "idle"
  <2>1. Slot(q) = Late(q) /\ Late(q) \in Slots /\ Late(q) \notin Queues
    BY <1>2, SlotKinds DEF Slot
  <2>2. QueueOf(Late(q)) = q
    BY <2>1 DEF QueueOf, Late
  <2>3. q \in Slots /\ QueueOf(q) = q
    BY SlotKinds
  <2> QED
    BY <1>2, <2>1, <2>2, <2>3 DEF Busy
<1> QED
  BY <1>1, <1>2

LEMMA BeginIs ==
    ASSUME Base, NEW e \in claims, Begin(e)
    PROVE  /\ e.queue \in Queues
           /\ FindsNone(Slot(e.queue), e.queue) \/ Reads(Slot(e.queue), e.queue)
<1> DEFINE q == e.queue
           s == Slot(q)
           m == MarkExpired(msg)
           due == {r \in PendingIn(m, q) : m.rcpts[r].due <= now}
<1>1. TypeOK /\ q \in Queues /\ e.due \in 0..MaxNow
  BY DEF Base, TypeOK, Event
<1>2. /\ worker[s].pc = "idle" /\ claims' \subseteq claims
      /\ held' = held \cup {q}
      /\ Busy(q) => Calm
      /\ overruns' = overruns + IF Busy(q) THEN 1 ELSE 0
      /\ UNCHANGED <<now, accepted, store, admin, spread, misread, edits>>
  BY DEF Begin, Slot
<1>5. s \in Slots /\ (s \notin Queues => Busy(q)) /\ held' \subseteq Queues
  BY <1>1, <1>2, SlotIs DEF TypeOK
<1>6. Starting(s, q)
  <2>1. overruns \in Nat
    BY <1>1, Numbers DEF TypeOK
  <2> HIDE DEF s
  <2> QED
    BY <1>2, <1>5, <2>1 DEF Starting
<1>3. CASE /\ \/ msg = NoMsg /\ UNCHANGED faults
              \/ msg # NoMsg /\ Calm /\ faults' = faults + 1
           /\ worker' = [worker EXCEPT ![s] = [Idle EXCEPT !.pc = "gone", !.due = e.due]]
           /\ UNCHANGED <<delivered, reported, unreported>>
  <2> DEFINE w == [Idle EXCEPT !.pc = "gone", !.due = e.due]
  <2>1. w \in WorkerRec /\ w.pc = "gone" /\ w.view = NoMsg /\ w.multi = FALSE
    BY <1>1 DEF Idle, WorkerRec
  <2>2. worker' = [worker EXCEPT ![s] = w]
    BY <1>3
  <2> HIDE DEF w
  <2>3. Turns(s, "gone", NoMsg, FALSE)
    BY <1>1, <1>5, <2>1, <2>2, TurnsTo
  <2> QED
    BY <1>1, <1>2, <1>3, <1>6, <2>3 DEF FindsNone, store
<1>4. CASE /\ msg # NoMsg
           /\ worker' = [worker EXCEPT ![s] =
                 [pc |-> IF due # {} THEN "deliver"
                         ELSE IF HasPending(m) THEN "save"
                         ELSE "remove",
                  due |-> e.due,
                  view |-> AfterDsn(m),
                  multi |-> IsMultiQueue(msg, q)]]
           /\ Notify(FailureNotices(m))
           /\ UNCHANGED <<delivered, faults>>
  <2> DEFINE v == AfterDsn(m)
             rs == FailureNotices(m)
             pc == IF due # {} THEN "deliver" ELSE IF HasPending(m) THEN "save" ELSE "remove"
             w == [pc |-> pc, due |-> e.due, view |-> v, multi |-> IsMultiQueue(msg, q)]
  <2>1. msg \in Message
    BY <1>4, CopyTypes
  <2>2. Read(msg, v, rs) /\ (HasPending(v) <=> HasPending(m))
    BY <2>1, ReadIs
  <2>3. due # {} => HasPending(m)
    BY DEF HasPending, PendingIn
  <2>4. pc \in NextStep(v)
    BY <2>2, <2>3 DEF NextStep
  <2>5. v \in Message /\ pc \in {"deliver", "save", "remove"}
    BY <2>2 DEF Read
  <2>6. IsMultiQueue(msg, q) \in BOOLEAN
    BY DEF IsMultiQueue
  <2>7. worker' = [worker EXCEPT ![s] = w] /\ Notify(rs)
    BY <1>4
  <2> HIDE DEF v, rs, pc
  <2>8. w \in WorkerRec /\ w.pc = pc /\ w.view = v /\ w.multi = IsMultiQueue(msg, q)
    BY <1>1, <2>5, <2>6 DEF WorkerRec
  <2> HIDE DEF w
  <2>9. Turns(s, pc, v, IsMultiQueue(msg, q))
    BY <1>1, <1>5, <2>7, <2>8, TurnsTo
  <2>10. \E x, ns, to : /\ Read(msg, x, ns) /\ Notify(ns)
                        /\ to \in NextStep(x) /\ Turns(s, to, x, IsMultiQueue(msg, q))
    BY <2>2, <2>4, <2>7, <2>9, Zenon
  <2>11. UNCHANGED <<now, accepted, msg, events, quota, blobLink, admin, delivered,
                     spread, misread, faults, edits>>
    BY <1>2, <1>4 DEF store
  <2> HIDE DEF q, s
  <2>12. Reads(s, q)
    BY <1>2, <1>4, <1>6, <2>10, <2>11, Zenon DEF Reads
  <2> QED
    BY <1>1, <2>12 DEF q, s
<1> QED
  BY <1>1, <1>3, <1>4 DEF Begin, Slot

(* The due recipients wait, as the sender is throttled.                    *)
Postpones(s) ==
    /\ worker[s].pc = "deliver"
    /\ \E v : Waits(worker[s].view, v) /\ HasPending(v) /\ Turns(s, "save", v, worker[s].multi)
    /\ UNCHANGED <<now, accepted, store, claims, admin, history, faults, edits>>

(* Some of the due recipients are delivered to, the others fail or wait.   *)
Tries(s, q) ==
    /\ worker[s].pc = "deliver"
    /\ \E v, done, rs, pc :
          /\ Tried(worker[s].view, v, q, done, rs) /\ Notify(rs)
          /\ delivered' = Counted(delivered, done)
          /\ pc = (IF HasPending(v) THEN "save" ELSE "remove")
          /\ Turns(s, pc, v, worker[s].multi)
          /\ ~spread' => \A r \in Rcpts : v.rcpts[r].queue = worker[s].view.rcpts[r].queue
    /\ spread' \in BOOLEAN /\ (spread => spread')
    /\ UNCHANGED <<now, accepted, store, claims, admin, misread, overruns, faults, edits>>

LEMMA ThrottledIs ==
    ASSUME Base, NEW s \in Slots, Throttled(s)
    PROVE  Postpones(s)
<1> DEFINE m == worker[s].view
           due == {r \in PendingIn(m, QueueOf(s)) : m.rcpts[r].due <= now}
           f == [r \in Rcpts |-> IF r \in due
                    THEN [m.rcpts[r] EXCEPT !.status = "tempfail", !.due = Later(1)]
                    ELSE m.rcpts[r]]
           v == [m EXCEPT !.rcpts = f]
<1>1. /\ worker[s].pc = "deliver" /\ TypeOK /\ HasPending(m)
      /\ UNCHANGED <<now, accepted, store, claims, held, admin, history, faults, edits>>
  BY DEF Throttled, Base, CopiesReal
<1>2. m \in Message /\ now \in 0..MaxNow
  BY <1>1, CopyTypes DEF Working
<1>3. Goto(s, "save", v)
  BY <1>2 DEF Throttled, Message
<1>4. Later(1) \in 0..MaxNow
  BY <1>2, LaterType
<1>5. ASSUME NEW r \in Rcpts
      PROVE  /\ f[r] \in Recipient
             /\ f[r].queue = m.rcpts[r].queue
             /\ f[r].dsnSent = m.rcpts[r].dsnSent
             /\ Pending(m.rcpts[r]) <=> Pending(f[r])
             /\ Final(m.rcpts[r]) => f[r].status = m.rcpts[r].status
  <2>1. m.rcpts[r] \in Recipient
    BY <1>2, MessageParts
  <2>2. CASE r \in due
    <3>1. f[r] = [m.rcpts[r] EXCEPT !.status = "tempfail", !.due = Later(1)]
      BY <2>2
    <3>2. Pending(m.rcpts[r])
      BY <2>2 DEF PendingIn
    <3> QED
      BY <1>4, <2>1, <3>1, <3>2 DEF Recipient, Statuses, Pending, Final
  <2>3. CASE r \notin due
    BY <2>1, <2>3
  <2> QED
    BY <2>2, <2>3
<1>6. f \in [Rcpts -> Recipient]
  BY <1>5
<1> HIDE DEF f
<1>7. v \in Message /\ v.rcpts = f /\ v.meta = m.meta
  BY <1>2, <1>6, MessageParts, Zenon
<1> HIDE DEF v
<1>8. Waits(m, v)
  BY <1>5, <1>7 DEF Waits
<1>9. HasPending(v)
  BY <1>1, <1>5, <1>7 DEF HasPending
<1>10. Turns(s, "save", v, worker[s].multi)
  BY <1>1, <1>3, <1>7, GotoIs
<1> QED
  BY <1>1, <1>8, <1>9, <1>10, Zenon DEF Postpones

LEMMA AttemptIs ==
    ASSUME Base, NEW s \in Slots, Attempt(s)
    PROVE  Tries(s, QueueOf(s))
<1> DEFINE m == worker[s].view
           due == {r \in PendingIn(m, QueueOf(s)) : m.rcpts[r].due <= now}
           Result(outcome, to) == [m EXCEPT !.rcpts = [r \in Rcpts |->
                  IF r \in due THEN SetStatus(@[r], outcome[r], to[r]) ELSE @[r]]]
<1>1. PICK outcome \in [due -> {"completed", "permfail", "tempfail", "limited"}],
           to \in [due -> Queues] :
          /\ \A r \in due : \/ to[r] = m.rcpts[r].queue
                            \/ outcome[r] = "tempfail" /\ to[r] \in NextQueue[r]
          /\ spread' = (spread \/ \E r \in due : to[r] # m.rcpts[r].queue)
          /\ delivered' = Counted(delivered, {r \in due : outcome[r] = "completed"})
          /\ Notify(FailureNotices(Result(outcome, to)))
          /\ Goto(s, IF HasPending(Result(outcome, to)) THEN "save" ELSE "remove",
                  AfterDsn(Result(outcome, to)))
  BY DEF Attempt
<1>2. /\ worker[s].pc = "deliver" /\ TypeOK
      /\ held' = held /\ QueueOf(s) \in Queues
      /\ UNCHANGED <<misread, now, accepted, store, claims, admin, overruns, faults, edits>>
  BY SlotKinds DEF Attempt, Base
<1>3. m \in Message /\ now \in 0..MaxNow /\ spread \in BOOLEAN
  BY <1>2, CopyTypes DEF Working, TypeOK
<1> DEFINE x == Result(outcome, to)
           v == AfterDsn(x)
           done == {r \in due : outcome[r] = "completed"}
           rs == FailureNotices(x)
           pc == IF HasPending(v) THEN "save" ELSE "remove"
<1>4. AfterAll(m, x, QueueOf(s), due, outcome, to)
  <2>1. due \subseteq Rcpts /\ \A r \in due : Pending(m.rcpts[r]) /\ m.rcpts[r].queue = QueueOf(s)
    BY DEF PendingIn
  <2> DEFINE f == [r \in Rcpts |->
                 IF r \in due THEN SetStatus(m.rcpts[r], outcome[r], to[r]) ELSE m.rcpts[r]]
  <2>2. x = [m EXCEPT !.rcpts = f]
    OBVIOUS
  <2>3. ASSUME NEW r \in due
        PROVE  /\ outcome[r] \in Outcomes
               /\ to[r] = m.rcpts[r].queue \/ outcome[r] = "tempfail"
               /\ After(m.rcpts[r], f[r], outcome[r], to[r])
    <3>1. m.rcpts[r] \in Recipient
      BY <1>3, <2>1, MessageParts
    <3>2. f[r] = SetStatus(m.rcpts[r], outcome[r], to[r])
      BY <2>1
    <3>3. to[r] \in Queues /\ outcome[r] \in Outcomes
      BY DEF Outcomes
    <3>4. After(m.rcpts[r], SetStatus(m.rcpts[r], outcome[r], to[r]), outcome[r], to[r])
      BY <1>3, <3>1, <3>3, SetStatusIs
    <3> QED
      BY <1>1, <3>2, <3>3, <3>4
  <2>4. \A r \in Rcpts \ due : f[r] = m.rcpts[r]
    OBVIOUS
  <2>5. ASSUME NEW r \in Rcpts PROVE f[r] \in Recipient
    <3>1. m.rcpts[r] \in Recipient
      BY <1>3, MessageParts
    <3> QED
      BY <2>3, <2>4, <3>1 DEF After
  <2>6. f \in [Rcpts -> Recipient]
    BY <2>5
  <2> HIDE DEF f, x, due, m
  <2>7. x \in Message /\ x.rcpts = f /\ x.meta = m.meta
    BY <1>3, <2>2, <2>6, MessageParts, Zenon
  <2> QED
    BY <2>1, <2>3, <2>4, <2>7 DEF AfterAll
<1>11. /\ Tried(m, v, QueueOf(s), done, rs)
       /\ HasPending(v) <=> HasPending(x)
       /\ \A r \in Rcpts : v.rcpts[r].queue = x.rcpts[r].queue
  <2>1. done = {r \in due : outcome[r] = "completed"}
    OBVIOUS
  <2> HIDE DEF due, x, m, done
  <2> QED
    BY <1>2, <1>3, <1>4, <2>1, TriedIs
<1>12. ~spread' => \A r \in Rcpts : x.rcpts[r].queue = m.rcpts[r].queue
  <2>1. SUFFICES ASSUME ~spread', NEW r \in Rcpts PROVE x.rcpts[r].queue = m.rcpts[r].queue
    OBVIOUS
  <2>2. r \in due => to[r] = m.rcpts[r].queue
    BY <1>1, <2>1
  <2> HIDE DEF due, x, m
  <2> QED
    BY <1>4, <2>2 DEF AfterAll, After
<1>5. v \in Message
  BY <1>11 DEF Tried
<1>6. Goto(s, pc, v) /\ Notify(rs) /\ delivered' = Counted(delivered, done)
  BY <1>1, <1>11
<1>7. ~spread' => \A r \in Rcpts : v.rcpts[r].queue = m.rcpts[r].queue
  BY <1>11, <1>12
<1>8. spread' \in BOOLEAN /\ (spread => spread')
  BY <1>1, <1>3
<1> HIDE DEF x, v, done, rs, due, m
<1>9. pc \in {"idle", "gone", "deliver", "save", "remove"}
  OBVIOUS
<1>10. Turns(s, pc, v, worker[s].multi)
  BY <1>2, <1>5, <1>6, <1>9, GotoIs
<1> QED
  BY <1>2, <1>11, <1>6, <1>7, <1>8, <1>10, Zenon DEF Tries, m

(* save_changes writes the recipients that are the worker's to write.      *)
Saves(s, q) ==
    /\ worker[s].pc = "save" /\ (worker[s].multi => msg # NoMsg)
    /\ msg' \in Message
    /\ \A r \in Rcpts : msg'.rcpts[r] =
          IF Copy(s, r).queue = q \/ ~worker[s].multi THEN Copy(s, r) ELSE msg.rcpts[r]
    /\ ~worker[s].multi => msg'.meta = worker[s].view.meta \ Done(worker[s].view)
    /\ quota' \in [Rcpts -> Int]
    /\ \A r \in Rcpts : quota'[r] =
          quota[r] - IF r \in worker[s].view.meta \cap Done(worker[s].view) THEN 1 ELSE 0
    /\ events' \subseteq Event /\ events' # {}
    /\ \A e \in events' : e \in events \/ \E r \in Rcpts : Copy(s, r).queue = e.queue
    /\ Turns(s, "idle", NoMsg, FALSE)
    /\ UNCHANGED <<now, accepted, blobLink, claims, admin, history, faults, edits>>

LEMMA SaveChangesIs ==
    ASSUME Base, NEW s \in Slots, SaveChanges(s)
    PROVE  Saves(s, QueueOf(s))
<1> DEFINE v == worker[s].view
           saved == AfterRelease(v)
<1>1. /\ worker[s].pc = "save" /\ (worker[s].multi => msg # NoMsg)
      /\ TypeOK /\ HasPending(v) /\ Finish(s)
      /\ UNCHANGED <<now, accepted, blobLink, claims, admin, history, faults, edits>>
  BY DEF SaveChanges, Base, CopiesReal
<1>2. v \in Message /\ (msg # NoMsg => msg \in Message)
  BY <1>1, CopyTypes DEF Working
<1>3. saved \in Message /\ saved.rcpts = v.rcpts /\ saved.meta = v.meta \ Done(v)
  BY <1>2, AfterReleaseIs
<1>4. /\ msg' = IF worker[s].multi THEN Merged(saved, QueueOf(s)) ELSE saved
      /\ events' = Rescheduled(QueueOf(s), worker[s].due, saved)
      /\ Released(v.meta \cap Done(v))
  BY DEF SaveChanges
<1> HIDE DEF v, saved
<1>5. /\ msg' \in Message
      /\ \A r \in Rcpts : msg'.rcpts[r] =
            IF v.rcpts[r].queue = QueueOf(s) \/ ~worker[s].multi THEN v.rcpts[r] ELSE msg.rcpts[r]
      /\ ~worker[s].multi => msg'.meta = v.meta \ Done(v)
  <2>1. CASE worker[s].multi
    <3>1. msg \in Message /\ msg' = Merged(saved, QueueOf(s)) /\ QueueOf(s) \in Queues
      BY <1>1, <1>2, <1>4, <2>1, SlotKinds
    <3> QED
      BY <1>3, <2>1, <3>1, MergedIs
  <2>2. CASE ~worker[s].multi
    BY <1>3, <1>4, <2>2
  <2> QED
    BY <2>1, <2>2
<1>6. /\ quota' \in [Rcpts -> Int]
      /\ \A r \in Rcpts : quota'[r] = quota[r] - IF r \in v.meta \cap Done(v) THEN 1 ELSE 0
  <2>1. quota \in [Rcpts -> Int]
    BY <1>1 DEF TypeOK
  <2> QED
    BY <1>4, <2>1 DEF Released
<1>7. HasPending(saved)
  BY <1>1, <1>3 DEF HasPending
<1>8. /\ NextEvents(saved) \subseteq Event /\ NextEvents(saved) # {}
      /\ \A e \in NextEvents(saved) : \E r \in Rcpts : v.rcpts[r].queue = e.queue
  BY <1>3, <1>7, NextEventsAre
<1>9. /\ events' \subseteq Event /\ events' # {}
      /\ \A e \in events' : e \in events \/ \E r \in Rcpts : v.rcpts[r].queue = e.queue
  <2>1. events \subseteq Event
    BY <1>1 DEF TypeOK
  <2> QED
    BY <1>4, <1>8, <2>1 DEF Rescheduled
<1>10. Turns(s, "idle", NoMsg, FALSE)
  BY <1>1, FinishIs
<1>11. \A r \in Rcpts : Copy(s, r) = v.rcpts[r]
  BY DEF Copy, v
<1>12. /\ \A e \in events' : e \in events \/ \E r \in Rcpts : Copy(s, r).queue = e.queue
       /\ \A r \in Rcpts : msg'.rcpts[r] =
             IF Copy(s, r).queue = QueueOf(s) \/ ~worker[s].multi THEN Copy(s, r)
             ELSE msg.rcpts[r]
  BY <1>5, <1>9, <1>11
<1> QED
  BY <1>1, <1>5, <1>6, <1>9, <1>10, <1>12, Zenon DEF Saves, v

(* remove takes the message and what is left of its quotas.                *)
Removes(s) ==
    /\ worker[s].pc = "remove"
    /\ msg' = NoMsg /\ events' \subseteq events /\ blobLink' = FALSE
    /\ quota' \in [Rcpts -> Int]
    /\ \A r \in Rcpts : quota'[r] = quota[r] - IF r \in worker[s].view.meta THEN 1 ELSE 0
    /\ Turns(s, "idle", NoMsg, FALSE)
    /\ UNCHANGED <<now, accepted, claims, admin, history, faults, edits>>

LEMMA RemoveIs ==
    ASSUME Base, NEW s \in Slots, Remove(s)
    PROVE  Removes(s)
<1>1. TypeOK /\ quota \in [Rcpts -> Int]
  BY DEF Base, TypeOK
<1>2. Turns(s, "idle", NoMsg, FALSE)
  BY <1>1, FinishIs DEF Remove
<1>3. Released(worker[s].view.meta) /\ events' \subseteq events
  BY DEF Remove
<1>4. /\ quota' \in [Rcpts -> Int]
      /\ \A r \in Rcpts : quota'[r] = quota[r] - IF r \in worker[s].view.meta THEN 1 ELSE 0
  BY <1>1, <1>3 DEF Released
<1> QED
  BY <1>2, <1>3, <1>4 DEF Remove, Removes

(* A worker leaves without writing the message: it dies, its write fails   *)
(* or is refused, or it only clears the event of a message it took for     *)
(* gone.                                                                   *)
LetsGo(s) ==
    /\ worker[s].pc # "idle" /\ Turns(s, "idle", NoMsg, FALSE)
    /\ events' \subseteq events
    /\ misread' \in BOOLEAN /\ (misread => misread')
    /\ msg # NoMsg /\ events' # events => misread'
    /\ faults' \in {faults, faults + 1} /\ (faults' # faults => Calm)
    /\ Working(s) /\ msg # NoMsg => faults' = faults + 1
    /\ UNCHANGED <<now, accepted, msg, quota, blobLink, claims, admin, delivered,
                   reported, unreported, spread, overruns, edits>>

LEMMA LeavingIs ==
    ASSUME Base, NEW s \in Slots, SaveRefused(s) \/ ClearEvent(s) \/ Fault(s)
    PROVE  LetsGo(s)
<1>1. TypeOK /\ misread \in BOOLEAN /\ faults \in Nat
  BY Numbers DEF Base, TypeOK
<1>2. CASE SaveRefused(s)
  <2>1. Turns(s, "idle", NoMsg, FALSE)
    BY <1>1, <1>2, FinishIs DEF SaveRefused
  <2> QED
    BY <1>1, <1>2, <2>1 DEF SaveRefused, LetsGo, store, history
<1>3. CASE ClearEvent(s)
  <2>1. Turns(s, "idle", NoMsg, FALSE)
    BY <1>1, <1>3, FinishIs DEF ClearEvent
  <2> QED
    BY <1>1, <1>3, <2>1 DEF ClearEvent, LetsGo, Working
<1>4. CASE Fault(s)
  <2>1. Turns(s, "idle", NoMsg, FALSE)
    BY <1>1, <1>4, LeaveIs DEF Fault
  <2> QED
    BY <1>1, <1>4, <2>1 DEF Fault, LetsGo, store, history
<1> QED
  BY <1>2, <1>3, <1>4

-----------------------------------------------------------------------------
(* First stage: types, events, and which copies the workers hold *)

StoreOK ==
    /\ msg \in Message \cup {NoMsg} /\ events \subseteq Event /\ claims \subseteq Event
    /\ quota \in [Rcpts -> Int] /\ blobLink \in BOOLEAN
    /\ NotStranded

HistoryOK ==
    /\ delivered \in [Rcpts -> Nat] /\ reported \in [Rcpts -> Nat] /\ unreported \subseteq Rcpts
    /\ spread \in BOOLEAN /\ misread \in BOOLEAN

CountsOK ==
    /\ now \in 0..MaxNow /\ accepted \in BOOLEAN
    /\ faults \in 0..MaxTrouble /\ edits \in 0..MaxEdits /\ overruns \in 0..MaxTrouble

RealWorker(w) ==
    /\ w.pc \in {"deliver", "save", "remove"} <=> w.view # NoMsg
    /\ w.pc \in {"deliver", "save"} => HasPending(w.view)
    /\ w.pc = "remove" => ~HasPending(w.view)

WorkersOK ==
    /\ worker \in [Slots -> WorkerRec] /\ held \subseteq Queues
    /\ \A s \in Slots : RealWorker(worker[s])

AdminOK ==
    /\ admin \in [op : {"none", "touch", "retry", "reschedule", "cancel", "destroy"},
                  view : Message \cup {NoMsg}]
    /\ admin.op = "none" <=> admin.view = NoMsg
    /\ edits = 0 => admin = NoRequest

LEMMA BaseParts ==
    Base <=> StoreOK /\ HistoryOK /\ CountsOK /\ WorkersOK /\ AdminOK /\ OneWorker
<1>1. Base => StoreOK
  BY DEF Base, TypeOK, StoreOK
<1>2. Base => HistoryOK
  BY DEF Base, TypeOK, HistoryOK
<1>3. Base => CountsOK
  BY DEF Base, TypeOK, CountsOK
<1>4. Base => WorkersOK
  BY DEF Base, TypeOK, CopiesReal, Working, WorkersOK, WorkerRec, RealWorker
<1>5. Base => AdminOK
  BY DEF Base, TypeOK, CopiesReal, AdminOK
<1>6. ASSUME StoreOK, HistoryOK, CountsOK, WorkersOK, AdminOK, OneWorker
      PROVE  Base
  <2>1. TypeOK
    BY <1>6 DEF TypeOK, StoreOK, HistoryOK, CountsOK, WorkersOK, WorkerRec, AdminOK
  <2>2. CopiesReal
    BY <1>6 DEF WorkersOK, RealWorker, AdminOK, CopiesReal, Working
  <2> QED
    BY <1>6, <2>1, <2>2 DEF Base, StoreOK
<1>7. Base => OneWorker
  BY DEF Base
<1> QED
  BY <1>1, <1>2, <1>3, <1>4, <1>5, <1>6, <1>7

LEMMA BasePartsNext ==
    ASSUME StoreOK', HistoryOK', CountsOK', WorkersOK', AdminOK', OneWorker'
    PROVE  Base'
<1>1. TypeOK'
  BY DEF TypeOK, StoreOK, HistoryOK, CountsOK, WorkersOK, WorkerRec, AdminOK
<1>2. CopiesReal'
  BY DEF WorkersOK, RealWorker, AdminOK, CopiesReal, Working
<1> QED
  BY <1>1, <1>2 DEF Base, StoreOK

LEMMA TurnsReal ==
    ASSUME WorkersOK, NEW s \in Slots, NEW pc, NEW v, NEW multi, Turns(s, pc, v, multi),
           pc \in {"deliver", "save", "remove"} <=> v # NoMsg,
           pc \in {"deliver", "save"} => HasPending(v),
           pc = "remove" => ~HasPending(v)
    PROVE  WorkersOK'
<1>1. RealWorker(worker'[s])
  BY DEF Turns, RealWorker
<1>2. \A p \in Slots \ {s} : RealWorker(worker'[p])
  BY DEF Turns, WorkersOK
<1> QED
  BY <1>1, <1>2 DEF Turns, WorkersOK

LEMMA AdminStays ==
    ASSUME AdminOK, UNCHANGED <<admin, edits>>
    PROVE  AdminOK'
BY DEF AdminOK

LEMMA FaultsBound ==
    ASSUME CountsOK, HistoryOK, UNCHANGED <<now, accepted, edits>>,
           faults' \in {faults, faults + 1}, faults' # faults => Calm,
           overruns' \in {overruns, overruns + 1}, overruns' # overruns => Calm
    PROVE  CountsOK'
BY Numbers DEF CountsOK, HistoryOK, Calm, Trouble

(* A step of the worker in slot s, for queue q.                            *)
Works(s, q) ==
    \/ FindsNone(s, q) \/ Reads(s, q) \/ Postpones(s) \/ Tries(s, q)
    \/ Saves(s, q) \/ Removes(s) \/ LetsGo(s)

(* While no worker outlasted its lock, only first workers take steps.      *)
LEMMA FirstWorks ==
    ASSUME Base, NEW s \in Slots, NEW q, Works(s, q), overruns' = 0
    PROVE  overruns = 0 /\ s \in Queues
<1>1. overruns \in Nat /\ OneWorker
  BY Numbers DEF Base, TypeOK
<1>2. CASE FindsNone(s, q) \/ Reads(s, q)
  <2>1. Starting(s, q)
    BY <1>2 DEF FindsNone, Reads
  <2> QED
    BY <1>1, <2>1 DEF Starting
<1>3. CASE Postpones(s) \/ Tries(s, q) \/ Saves(s, q) \/ Removes(s) \/ LetsGo(s)
  <2>1. worker[s].pc # "idle" /\ overruns' = overruns
    BY <1>3 DEF Postpones, Tries, Saves, Removes, LetsGo, history
  <2> QED
    BY <1>1, <2>1, SlotKinds DEF OneWorker
<1> QED
  BY <1>2, <1>3 DEF Works

LEMMA OneWorkerStep ==
    ASSUME Base, NEW s \in Slots, NEW q, Works(s, q)
    PROVE  OneWorker'
<1>1. SUFFICES ASSUME overruns' = 0, NEW p \in Queues PROVE worker'[Late(p)].pc = "idle"
  BY DEF OneWorker
<1>2. overruns = 0 /\ s \in Queues
  BY <1>1, FirstWorks
<1>3. worker[Late(p)].pc = "idle"
  BY <1>2 DEF Base, OneWorker
<1>4. Late(p) \in Slots \ {s}
  BY <1>2, SlotKinds
<1>5. PICK pc, v, multi : Turns(s, pc, v, multi)
  BY DEF Works, FindsNone, Reads, Postpones, Tries, Saves, Removes, LetsGo
<1> QED
  BY <1>3, <1>4, <1>5 DEF Turns

LEMMA WorkBase ==
    ASSUME Base, NEW s \in Slots, NEW q,
           FindsNone(s, q) \/ Reads(s, q) \/ Postpones(s) \/ Tries(s, q) \/ Saves(s, q) \/ Removes(s)
              \/ LetsGo(s)
    PROVE  Base'
<1>1. StoreOK /\ HistoryOK /\ CountsOK /\ WorkersOK /\ AdminOK /\ TypeOK
  BY BaseParts DEF Base
<1>9. OneWorker'
  BY OneWorkerStep DEF Works
<1>2. CASE FindsNone(s, q)
  <2>1. WorkersOK'
    BY <1>1, <1>2, TurnsReal DEF FindsNone
  <2>2. CountsOK'
    BY <1>1, <1>2, FaultsBound DEF FindsNone, Starting
  <2>3. StoreOK' /\ HistoryOK' /\ AdminOK'
    BY <1>1, <1>2 DEF FindsNone, StoreOK, NotStranded, HistoryOK, AdminOK
  <2> QED
    BY <2>1, <2>2, <2>3, <1>9, BasePartsNext
<1>3. CASE Reads(s, q)
  <2>1. PICK v, rs, pc : /\ Read(msg, v, rs) /\ Notify(rs)
                         /\ pc \in NextStep(v) /\ Turns(s, pc, v, IsMultiQueue(msg, q))
    BY <1>3 DEF Reads
  <2>2. v \in Message /\ v # NoMsg /\ rs \in SUBSET Rcpts
    BY <2>1, MessageParts DEF Read
  <2>3. WorkersOK'
    <3>1. /\ pc \in {"deliver", "save", "remove"} <=> v # NoMsg
          /\ pc \in {"deliver", "save"} => HasPending(v)
          /\ pc = "remove" => ~HasPending(v)
      BY <2>1, <2>2 DEF NextStep
    <3> QED
      BY <1>1, <2>1, <3>1, TurnsReal
  <2>4. HistoryOK'
    <3>1. reported' \in [Rcpts -> Nat] /\ unreported' \subseteq Rcpts
      BY <1>1, <2>1, <2>2, NotifyIs
    <3> QED
      BY <1>1, <1>3, <3>1 DEF Reads, HistoryOK
  <2>5. StoreOK' /\ AdminOK'
    BY <1>1, <1>3 DEF Reads, StoreOK, NotStranded, AdminOK
  <2>6. CountsOK'
    BY <1>1, <1>3, FaultsBound DEF Reads, Starting
  <2> QED
    BY <2>3, <2>4, <2>5, <2>6, <1>9, BasePartsNext
<1>4. CASE Postpones(s)
  <2>1. PICK v : /\ Waits(worker[s].view, v) /\ HasPending(v)
                 /\ Turns(s, "save", v, worker[s].multi)
    BY <1>4 DEF Postpones
  <2>2. v # NoMsg
    BY <2>1, MessageParts DEF Waits
  <2>3. WorkersOK'
    BY <1>1, <2>1, <2>2, TurnsReal
  <2>4. StoreOK' /\ HistoryOK' /\ CountsOK' /\ AdminOK'
    BY <1>1, <1>4 DEF Postpones, StoreOK, NotStranded, HistoryOK, CountsOK, AdminOK, store, history
  <2> QED
    BY <2>3, <2>4, <1>9, BasePartsNext
<1>5. CASE Tries(s, q)
  <2>1. PICK v, done, rs, pc :
            /\ Tried(worker[s].view, v, q, done, rs) /\ Notify(rs)
            /\ delivered' = Counted(delivered, done)
            /\ pc = (IF HasPending(v) THEN "save" ELSE "remove")
            /\ Turns(s, pc, v, worker[s].multi)
    BY <1>5 DEF Tries
  <2>2. v # NoMsg /\ rs \in SUBSET Rcpts
    BY <2>1, MessageParts DEF Tried
  <2>3. WorkersOK'
    <3>1. /\ pc \in {"deliver", "save", "remove"} <=> v # NoMsg
          /\ pc \in {"deliver", "save"} => HasPending(v)
          /\ pc = "remove" => ~HasPending(v)
      BY <2>1, <2>2
    <3> QED
      BY <1>1, <2>1, <3>1, TurnsReal
  <2>4. HistoryOK'
    <3>1. reported' \in [Rcpts -> Nat] /\ unreported' \subseteq Rcpts
      BY <1>1, <2>1, <2>2, NotifyIs
    <3>2. delivered' \in [Rcpts -> Nat]
      BY <1>1, <2>1, CountedIs DEF HistoryOK
    <3> QED
      BY <1>1, <1>5, <3>1, <3>2 DEF Tries, HistoryOK
  <2>5. StoreOK' /\ CountsOK' /\ AdminOK'
    BY <1>1, <1>5 DEF Tries, StoreOK, NotStranded, CountsOK, AdminOK, store
  <2> QED
    BY <2>3, <2>4, <2>5, <1>9, BasePartsNext
<1>6. CASE Saves(s, q)
  <2>1. WorkersOK'
    BY <1>1, <1>6, TurnsReal DEF Saves
  <2>2. StoreOK'
    BY <1>1, <1>6 DEF Saves, StoreOK, NotStranded
  <2>3. HistoryOK' /\ CountsOK' /\ AdminOK'
    BY <1>1, <1>6 DEF Saves, HistoryOK, CountsOK, AdminOK, history
  <2> QED
    BY <2>1, <2>2, <2>3, <1>9, BasePartsNext
<1>7. CASE Removes(s)
  <2>1. WorkersOK'
    BY <1>1, <1>7, TurnsReal DEF Removes
  <2>2. StoreOK'
    BY <1>1, <1>7 DEF Removes, StoreOK, NotStranded
  <2>3. HistoryOK' /\ CountsOK' /\ AdminOK'
    BY <1>1, <1>7 DEF Removes, HistoryOK, CountsOK, AdminOK, history
  <2> QED
    BY <2>1, <2>2, <2>3, <1>9, BasePartsNext
<1>8. CASE LetsGo(s)
  <2>1. WorkersOK'
    BY <1>1, <1>8, TurnsReal DEF LetsGo
  <2>2. CountsOK'
    BY <1>1, <1>8, FaultsBound DEF LetsGo
  <2>3. StoreOK'
    BY <1>1, <1>8 DEF LetsGo, StoreOK, NotStranded
  <2>4. HistoryOK' /\ AdminOK'
    BY <1>1, <1>8 DEF LetsGo, HistoryOK, AdminOK
  <2> QED
    BY <2>1, <2>2, <2>3, <2>4, <1>9, BasePartsNext
<1> QED
  BY <1>2, <1>3, <1>4, <1>5, <1>6, <1>7, <1>8

(* Nothing changes but the clock, the locks and the events dispatched.     *)
Passes ==
    /\ claims' \subseteq claims \cup events /\ now' \in 0..MaxNow
    /\ held' \subseteq Queues
    /\ UNCHANGED <<accepted, store, worker, admin, history, faults, edits>>

Administers ==
    \/ \E op \in {"touch", "retry", "reschedule", "cancel", "destroy"} : AdminRead(op)
    \/ \E rs \in SUBSET Rcpts : AdminUpdate(rs)
    \/ AdminDestroy

LEMMA StepKinds ==
    ASSUME Base, [Next]_vars
    PROVE  \/ \E home \in HomeQueues : Enqueue(home)
           \/ Passes
           \/ \E s \in Slots : Works(s, QueueOf(s))
           \/ Administers
<1>1. now \in 0..MaxNow /\ MaxNow \in Nat /\ held \subseteq Queues
  BY Numbers DEF Base, TypeOK
<1>2. CASE UNCHANGED vars
  BY <1>1, <1>2 DEF vars, Passes, store, history
<1>3. ASSUME NEW e \in events, Dispatch(e) PROVE Passes
  BY <1>1, <1>3 DEF Dispatch, Passes
<1>4. CASE Tick
  BY <1>1, <1>4 DEF Tick, Passes
<1>5. ASSUME NEW q \in Queues, Pick(q) \/ LockExpires(q)
      PROVE  Passes \/ \E s \in Slots : Works(s, QueueOf(s))
  <2>1. CASE Pick(q)
    <3>1. PICK e \in claims : Begin(e) \/ Locked(e)
      BY <2>1 DEF Pick
    <3>2. CASE Begin(e)
      <4>1. e.queue \in Queues /\ Works(Slot(e.queue), e.queue)
        BY <3>2, BeginIs DEF Works
      <4>2. Slot(e.queue) \in Slots /\ QueueOf(Slot(e.queue)) = e.queue
        BY <4>1, SlotIs
      <4> QED
        BY <4>1, <4>2
    <3>3. CASE Locked(e)
      BY <1>1, <3>3 DEF Locked, Passes
    <3> QED
      BY <3>1, <3>2, <3>3
  <2>2. CASE LockExpires(q)
    BY <1>1, <2>2 DEF LockExpires, Passes
  <2> QED
    BY <1>5, <2>1, <2>2
<1>6. ASSUME NEW s \in Slots, Work(s) \/ Fault(s)
      PROVE  Works(s, QueueOf(s))
  <2>2. CASE Throttled(s)
    BY <2>2, ThrottledIs DEF Works
  <2>3. CASE Attempt(s)
    BY <2>3, AttemptIs DEF Works
  <2>4. CASE SaveChanges(s)
    BY <2>4, SaveChangesIs DEF Works
  <2>5. CASE Remove(s)
    BY <2>5, RemoveIs DEF Works
  <2>6. CASE SaveRefused(s) \/ ClearEvent(s) \/ Fault(s)
    BY <2>6, LeavingIs DEF Works
  <2> QED
    BY <1>6, <2>2, <2>3, <2>4, <2>5, <2>6 DEF Work
<1> QED
  BY <1>2, <1>3, <1>4, <1>5, <1>6 DEF Next, Administers

LEMMA AdminBase ==
    ASSUME Base, Administers
    PROVE  Base'
<1>1. StoreOK /\ HistoryOK /\ CountsOK /\ WorkersOK /\ AdminOK /\ TypeOK
  BY BaseParts DEF Base
<1>6. OneWorker'
  BY DEF Administers, AdminRead, AdminUpdate, AdminDestroy, Base, OneWorker, history
<1>2. NoRequest.op = "none" /\ NoRequest.view = NoMsg
      /\ NoRequest \in [op : {"none", "touch", "retry", "reschedule", "cancel", "destroy"},
                        view : Message \cup {NoMsg}]
  BY DEF NoRequest
<1>3. ASSUME NEW op \in {"touch", "retry", "reschedule", "cancel", "destroy"}, AdminRead(op)
      PROVE  Base'
  <2>1. StoreOK' /\ HistoryOK'
    BY <1>1, <1>3 DEF AdminRead, StoreOK, NotStranded, HistoryOK, store, history
  <2>2. CountsOK' /\ edits' # 0
    BY <1>1, <1>3, Numbers DEF AdminRead, CountsOK, history
  <2>3. WorkersOK'
    BY <1>1, <1>3 DEF AdminRead, WorkersOK
  <2>4. AdminOK'
    BY <1>1, <1>3, <2>2 DEF AdminRead, AdminOK, StoreOK
  <2> QED
    BY <2>1, <2>2, <2>3, <2>4, <1>6, BasePartsNext
<1>4. ASSUME NEW rs \in SUBSET Rcpts, AdminUpdate(rs) PROVE Base'
  <2> DEFINE m == Edited(admin.view, admin.op, rs)
             saved == AfterRelease(m)
             changed == rs # {} \/ admin.op = "touch"
  <2>1. /\ rs \in EditTargets(admin.view, admin.op) /\ admin' = NoRequest
        /\ UNCHANGED <<now, accepted, claims, worker, held, history, faults, edits>>
    BY <1>4 DEF AdminUpdate
  <2>2. /\ admin.op \in {"touch", "retry", "reschedule", "cancel"}
        /\ admin.op = "touch" => rs = {}
    BY <1>1, <2>1 DEF EditTargets, AdminOK
  <2>3. admin.view \in Message /\ now \in 0..MaxNow
    BY <2>2, CopyTypes
  <2>4. m \in Message
    BY <2>2, <2>3, EditedIs
  <2>5. saved \in Message /\ saved.rcpts = m.rcpts
    BY <2>4, AfterReleaseIs
  <2>6. \/ UNCHANGED store
        \/ /\ HasPending(m) /\ msg # NoMsg
           /\ Released(m.meta \cap Done(m))
           /\ events' = Replanned(saved)
           /\ msg' = [msg EXCEPT !.rcpts = [r \in Rcpts |->
                         IF r \in rs THEN saved.rcpts[r] ELSE msg.rcpts[r]]]
           /\ UNCHANGED blobLink
        \/ /\ Released(m.meta)
           /\ events' = events \ NextEvents(admin.view)
           /\ msg' = NoMsg
           /\ blobLink' = FALSE
    BY <1>4 DEF AdminUpdate
  <2> HIDE DEF m, saved
  <2>7. quota \in [Rcpts -> Int] /\ \A x : Released(x) => quota' \in [Rcpts -> Int]
    BY <1>1 DEF StoreOK, Released
  <2>8. StoreOK'
    <3>1. CASE UNCHANGED store
      BY <1>1, <2>1, <3>1 DEF store, StoreOK, NotStranded, history
    <3>2. CASE /\ HasPending(m) /\ msg # NoMsg
               /\ Released(m.meta \cap Done(m))
               /\ events' = Replanned(saved)
               /\ msg' = [msg EXCEPT !.rcpts = [r \in Rcpts |->
                             IF r \in rs THEN saved.rcpts[r] ELSE msg.rcpts[r]]]
               /\ UNCHANGED blobLink
      <4> DEFINE f == [r \in Rcpts |-> IF r \in rs THEN saved.rcpts[r] ELSE msg.rcpts[r]]
      <4>1. msg \in Message
        BY <3>2, CopyTypes
      <4>2. f \in [Rcpts -> Recipient]
        BY <2>5, <4>1, MessageParts
      <4>3. msg' = [msg EXCEPT !.rcpts = f]
        BY <3>2
      <4> HIDE DEF f
      <4>4. msg' \in Message
        BY <4>1, <4>2, <4>3, MessageParts
      <4>5. HasPending(saved)
        BY <2>5, <3>2 DEF HasPending
      <4>6. NextEvents(saved) \subseteq Event /\ NextEvents(saved) # {}
        BY <2>5, <4>5, NextEventsAre
      <4>7. events' \subseteq Event /\ events' # {}
        BY <1>1, <3>2, <4>6 DEF Replanned, StoreOK
      <4> QED
        BY <1>1, <2>1, <2>7, <3>2, <4>4, <4>7 DEF StoreOK, NotStranded
    <3>3. CASE /\ Released(m.meta)
               /\ events' = events \ NextEvents(admin.view)
               /\ msg' = NoMsg
               /\ blobLink' = FALSE
      BY <1>1, <2>1, <2>7, <3>3 DEF StoreOK, NotStranded
    <3> QED
      BY <2>6, <3>1, <3>2, <3>3
  <2>9. HistoryOK' /\ CountsOK' /\ WorkersOK'
    BY <1>1, <2>1 DEF HistoryOK, CountsOK, WorkersOK, history
  <2>10. AdminOK'
    BY <1>2, <2>1 DEF AdminOK
  <2> QED
    BY <2>8, <2>9, <2>10, <1>6, BasePartsNext
<1>5. ASSUME AdminDestroy PROVE Base'
  <2>1. StoreOK'
    <3>1. quota' \in [Rcpts -> Int]
      BY <1>1, <1>5 DEF AdminDestroy, StoreOK, Released
    <3> QED
      BY <1>1, <1>5, <3>1 DEF AdminDestroy, StoreOK, NotStranded
  <2>2. HistoryOK' /\ CountsOK' /\ WorkersOK'
    BY <1>1, <1>5 DEF AdminDestroy, HistoryOK, CountsOK, WorkersOK, history
  <2>3. AdminOK'
    BY <1>2, <1>5 DEF AdminDestroy, AdminOK
  <2> QED
    BY <2>1, <2>2, <2>3, <1>6, BasePartsNext
<1> QED
  BY <1>3, <1>4, <1>5 DEF Administers

LEMMA EnqueueBase ==
    ASSUME Base, NEW home \in HomeQueues, Enqueue(home)
    PROVE  Base'
<1>1. StoreOK /\ HistoryOK /\ CountsOK /\ WorkersOK /\ AdminOK
  BY BaseParts
<1>2. home \in [Rcpts -> Queues] /\ now \in 0..MaxNow
  BY <1>1, SpoolAssumptions DEF CountsOK
<1>3. /\ NewMessage(home) \in Message
      /\ \A r \in Rcpts : NewMessage(home).rcpts[r].status = "scheduled"
  BY <1>2, NewMessageIs
<1>4. HasPending(NewMessage(home))
  BY <1>3, SpoolAssumptions DEF HasPending, Pending
<1>5. NextEvents(NewMessage(home)) \subseteq Event /\ NextEvents(NewMessage(home)) # {}
  BY <1>3, <1>4, NextEventsAre
<1>6. quota' \in [Rcpts -> Int]
  BY <1>1 DEF Enqueue, StoreOK
<1>7. StoreOK'
  BY <1>1, <1>3, <1>5, <1>6 DEF Enqueue, StoreOK, NotStranded
<1>8. HistoryOK' /\ CountsOK' /\ WorkersOK' /\ AdminOK'
  BY <1>1 DEF Enqueue, HistoryOK, CountsOK, WorkersOK, AdminOK
<1>9. OneWorker'
  BY DEF Enqueue, Base, OneWorker
<1> QED
  BY <1>7, <1>8, <1>9, BasePartsNext

(* The first stage, for every behaviour.                                   *)
LEMMA BaseHolds == Spec => []Base
<1>1. Init => Base
  <2>1. SUFFICES ASSUME Init PROVE Base
    OBVIOUS
  <2>2. StoreOK /\ HistoryOK /\ CountsOK
    <3>4. msg = NoMsg /\ events = {} /\ claims = {} /\ blobLink \in BOOLEAN /\ accepted \in BOOLEAN
      BY <2>1 DEF Init
    <3>5. quota \in [Rcpts -> Int]
      BY <2>1 DEF Init
    <3>6. now = 0 /\ faults = 0 /\ edits = 0 /\ overruns = 0
      BY <2>1 DEF Init
    <3>1. StoreOK
      BY <3>4, <3>5 DEF StoreOK, NotStranded
    <3>2. HistoryOK
      BY <2>1 DEF Init, HistoryOK
    <3>3. CountsOK
      BY <3>4, <3>6, Numbers DEF CountsOK
    <3> QED
      BY <3>1, <3>2, <3>3
  <2>3. WorkersOK
    <3>1. Idle \in WorkerRec /\ RealWorker(Idle)
      BY Numbers DEF Idle, WorkerRec, RealWorker
    <3> QED
      BY <2>1, <3>1 DEF Init, WorkersOK
  <2>4. AdminOK
    BY <2>1 DEF Init, AdminOK, NoRequest
  <2>5. OneWorker
    BY <2>1, SlotKinds DEF Init, OneWorker, Idle
  <2> QED
    BY <2>2, <2>3, <2>4, <2>5, BaseParts
<1>2. Base /\ [Next]_vars => Base'
  <2>1. SUFFICES ASSUME Base, [Next]_vars PROVE Base'
    OBVIOUS
  <2>2. CASE Passes
    <3>1. StoreOK /\ HistoryOK /\ CountsOK /\ WorkersOK /\ AdminOK
      BY <2>1, BaseParts
    <3>2. StoreOK' /\ HistoryOK' /\ CountsOK' /\ WorkersOK' /\ AdminOK'
      BY <2>2, <3>1 DEF Passes, StoreOK, NotStranded, HistoryOK, CountsOK, WorkersOK, AdminOK,
                        store, history
    <3>3. OneWorker'
      BY <2>1, <2>2 DEF Passes, Base, OneWorker, history
    <3> QED
      BY <3>2, <3>3, BasePartsNext
  <2> QED
    BY <2>1, <2>2, StepKinds, WorkBase, AdminBase, EnqueueBase DEF Works
<1> QED
  BY <1>1, <1>2, PTL DEF Spec

-----------------------------------------------------------------------------
(* Second stage: what a copy says of a recipient did happen *)

(* While no administrator asked for anything, only queue, the dispatch of  *)
(* events and the workers take steps.                                      *)

LEMMA Unedited ==
    ASSUME Base, [Next]_vars, edits' = 0
    PROVE  /\ edits = 0
           /\ (\E home \in HomeQueues : Enqueue(home)) \/ Passes \/ (\E s \in Slots : Works(s, QueueOf(s)))
<1>1. edits \in Nat
  BY BaseParts, Numbers DEF CountsOK
<1>2. edits = 0 => admin.op = "none"
  BY BaseParts DEF AdminOK, NoRequest
<1>3. ASSUME Administers PROVE FALSE
  <2>1. ASSUME NEW op, AdminRead(op) PROVE FALSE
    BY <1>1, <2>1 DEF AdminRead
  <2>2. ASSUME NEW rs, AdminUpdate(rs) PROVE FALSE
    <3>1. edits = 0 /\ rs \in EditTargets(admin.view, admin.op)
      BY <2>2 DEF AdminUpdate
    <3> QED
      BY <1>2, <3>1 DEF EditTargets
  <2>3. ASSUME AdminDestroy PROVE FALSE
    <3>1. edits = 0 /\ admin.op = "destroy"
      BY <2>3 DEF AdminDestroy
    <3> QED
      BY <1>2, <3>1
  <2> QED
    BY <1>3, <2>1, <2>2, <2>3 DEF Administers
<1>4. (\E home \in HomeQueues : Enqueue(home)) \/ Passes \/ (\E s \in Slots : Works(s, QueueOf(s)))
  BY <1>3, StepKinds
<1>5. ASSUME NEW home, Enqueue(home) PROVE edits = 0
  BY <1>5 DEF Enqueue
<1>6. Passes => edits = 0
  BY DEF Passes
<1>7. ASSUME NEW s \in Slots, NEW q, Works(s, q) PROVE edits = 0
  BY <1>7 DEF Works, FindsNone, Reads, Postpones, Tries, Saves, Removes, LetsGo
<1> QED
  BY <1>4, <1>5, <1>6, <1>7

(* And while no worker outlasted its lock, each queue has one worker.      *)
LEMMA Unrushed ==
    ASSUME Base, [Next]_vars, edits' = 0, overruns' = 0
    PROVE  /\ edits = 0 /\ overruns = 0
           /\ (\E home \in HomeQueues : Enqueue(home)) \/ Passes \/ (\E q \in Queues : Works(q, q))
<1>1. /\ edits = 0
      /\ (\E home \in HomeQueues : Enqueue(home)) \/ Passes \/ (\E s \in Slots : Works(s, QueueOf(s)))
  BY Unedited
<1>2. ASSUME NEW home, Enqueue(home) PROVE overruns = 0
  BY <1>2 DEF Enqueue
<1>3. Passes => overruns = 0
  BY DEF Passes, history
<1>4. ASSUME NEW s \in Slots, Works(s, QueueOf(s)) PROVE overruns = 0 /\ Works(s, s) /\ s \in Queues
  <2>1. overruns = 0 /\ s \in Queues
    BY <1>4, FirstWorks
  <2>2. QueueOf(s) = s
    BY <2>1, SlotKinds
  <2> QED
    BY <1>4, <2>1, <2>2
<1> QED
  BY <1>1, <1>2, <1>3, <1>4

(* Settled, said of given counts: d deliveries, n notices, u lost notices. *)
SettledFor(rc, r, d, n, u) ==
    /\ rc.dsnSent <=> Final(rc)
    /\ rc.status = "completed" => d[r] > 0
    /\ rc.status = "permfail" => n[r] > 0 \/ r \in u

SettledBy(m, d, n, u) == \A r \in Rcpts : SettledFor(m.rcpts[r], r, d, n, u)

Grows(d, n, u, e, o, w) ==
    \A r \in Rcpts : d[r] <= e[r] /\ n[r] <= o[r] /\ (r \in u => r \in w)

LEMMA SettledStays ==
    ASSUME NEW d \in [Rcpts -> Nat], NEW n \in [Rcpts -> Nat], NEW u,
           NEW e \in [Rcpts -> Nat], NEW o \in [Rcpts -> Nat], NEW w,
           Grows(d, n, u, e, o, w), NEW m, SettledBy(m, d, n, u)
    PROVE  SettledBy(m, e, o, w)
<1>1. ASSUME NEW r \in Rcpts PROVE SettledFor(m.rcpts[r], r, e, o, w)
  <2>1. d[r] <= e[r] /\ n[r] <= o[r] /\ (r \in u => r \in w)
    BY DEF Grows
  <2>2. d[r] \in Nat /\ n[r] \in Nat /\ e[r] \in Nat /\ o[r] \in Nat
    OBVIOUS
  <2>3. (d[r] > 0 => e[r] > 0) /\ (n[r] > 0 => o[r] > 0)
    BY <2>1, <2>2
  <2>4. SettledFor(m.rcpts[r], r, d, n, u)
    BY DEF SettledBy
  <2> QED
    BY <2>1, <2>3, <2>4, Zenon DEF SettledFor
<1> QED
  BY <1>1 DEF SettledBy

LEMMA ReadSettled ==
    ASSUME NEW d \in [Rcpts -> Nat], NEW n \in [Rcpts -> Nat], NEW u,
           NEW o \in [Rcpts -> Nat], NEW w, Grows(d, n, u, d, o, w),
           NEW m \in Message, NEW v, NEW rs, SettledBy(m, d, n, u), Read(m, v, rs),
           \A r \in rs : o[r] > 0 \/ r \in w
    PROVE  SettledBy(v, d, o, w)
<1>1. ASSUME NEW r \in Rcpts PROVE SettledFor(v.rcpts[r], r, d, o, w)
  <2> DEFINE rc == m.rcpts[r]
             x == v.rcpts[r]
  <2>1. rc.status \in Statuses /\ x.status \in Statuses
    BY MessageParts DEF Read, Recipient
  <2>2. /\ x.dsnSent <=> rc.dsnSent \/ Final(x)
        /\ r \in rs <=> x.status = "permfail" /\ ~rc.dsnSent
        /\ Final(rc) => x.status = rc.status
        /\ x.status = "completed" => rc.status = "completed"
    BY DEF Read, Noticed, KeepsOutcomes
  <2>3. SettledBy(m, d, o, w)
    BY SettledStays
  <2>4. SettledFor(rc, r, d, o, w)
    BY <2>3 DEF SettledBy
  <2>5. r \in rs => o[r] > 0 \/ r \in w
    OBVIOUS
  <2> HIDE DEF rc, x
  <2>6. Final(rc) => Final(x)
    BY <2>2 DEF Final, Pending
  <2> QED
    BY <2>2, <2>4, <2>5, <2>6, Zenon DEF SettledFor, x
<1> QED
  BY <1>1 DEF SettledBy

LEMMA TriedSettled ==
    ASSUME NEW d \in [Rcpts -> Nat], NEW n \in [Rcpts -> Nat], NEW u,
           NEW e \in [Rcpts -> Nat], NEW o \in [Rcpts -> Nat], NEW w,
           Grows(d, n, u, e, o, w),
           NEW m \in Message, NEW v, NEW q, NEW done, NEW rs,
           SettledBy(m, d, n, u), Tried(m, v, q, done, rs),
           \A r \in rs : o[r] > 0 \/ r \in w, \A r \in done : e[r] > 0
    PROVE  SettledBy(v, e, o, w)
<1>1. ASSUME NEW r \in Rcpts PROVE SettledFor(v.rcpts[r], r, e, o, w)
  <2> DEFINE rc == m.rcpts[r]
             x == v.rcpts[r]
  <2>2. /\ x.dsnSent <=> rc.dsnSent \/ Final(x)
        /\ r \in rs <=> x.status = "permfail" /\ ~rc.dsnSent
        /\ Final(rc) => x.status = rc.status
        /\ r \in done <=> Pending(rc) /\ x.status = "completed"
    BY DEF Tried, Noticed, KeepsOutcomes
  <2>3. SettledBy(m, e, o, w)
    BY SettledStays
  <2>4. SettledFor(rc, r, e, o, w)
    BY <2>3 DEF SettledBy
  <2>5. (r \in rs => o[r] > 0 \/ r \in w) /\ (r \in done => e[r] > 0)
    OBVIOUS
  <2> HIDE DEF rc, x
  <2>6. (Final(rc) => Final(x)) /\ (Final(rc) <=> ~Pending(rc))
    BY <2>2 DEF Final, Pending
  <2> QED
    BY <2>2, <2>4, <2>5, <2>6, Zenon DEF SettledFor, x
<1> QED
  BY <1>1 DEF SettledBy

LEMMA HistoryGrows ==
    ASSUME Base, [Next]_vars
    PROVE  Grows(delivered, reported, unreported, delivered', reported', unreported')
<1>1. HistoryOK /\ TypeOK
  BY BaseParts DEF Base
<1>2. UNCHANGED <<delivered, reported, unreported>> =>
          Grows(delivered, reported, unreported, delivered', reported', unreported')
  BY <1>1 DEF HistoryOK, Grows
<1>3. ASSUME NEW home, Enqueue(home) PROVE UNCHANGED <<delivered, reported, unreported>>
  BY <1>3 DEF Enqueue
<1>4. Passes => UNCHANGED <<delivered, reported, unreported>>
  BY DEF Passes, history
<1>5. Administers => UNCHANGED <<delivered, reported, unreported>>
  BY DEF Administers, AdminRead, AdminUpdate, AdminDestroy, history
<1>6. ASSUME NEW s \in Slots, NEW q, Works(s, q)
      PROVE  Grows(delivered, reported, unreported, delivered', reported', unreported')
  <2>1. CASE FindsNone(s, q) \/ Postpones(s) \/ Saves(s, q) \/ Removes(s) \/ LetsGo(s)
    BY <1>2, <2>1 DEF FindsNone, Postpones, Saves, Removes, LetsGo, history
  <2>2. CASE Reads(s, q)
    <3>1. PICK v, rs : Read(msg, v, rs) /\ Notify(rs)
      BY <2>2 DEF Reads
    <3>2. rs \in SUBSET Rcpts
      BY <3>1 DEF Read
    <3>3. \A r \in Rcpts : reported[r] <= reported'[r] /\ (r \in unreported => r \in unreported')
      BY <1>1, <3>1, <3>2, NotifyIs
    <3>4. \A r \in Rcpts : delivered[r] <= delivered'[r]
      BY <1>1, <2>2 DEF Reads, HistoryOK
    <3> QED
      BY <3>3, <3>4 DEF Grows
  <2>3. CASE Tries(s, q)
    <3>1. PICK v, done, rs : /\ Tried(worker[s].view, v, q, done, rs) /\ Notify(rs)
                             /\ delivered' = Counted(delivered, done)
      BY <2>3 DEF Tries
    <3>2. rs \in SUBSET Rcpts
      BY <3>1 DEF Tried
    <3>3. \A r \in Rcpts : reported[r] <= reported'[r] /\ (r \in unreported => r \in unreported')
      BY <1>1, <3>1, <3>2, NotifyIs
    <3>4. \A r \in Rcpts : delivered[r] <= delivered'[r]
      BY <1>1, <3>1, CountedIs DEF HistoryOK
    <3> QED
      BY <3>3, <3>4 DEF Grows
  <2> QED
    BY <1>6, <2>1, <2>2, <2>3 DEF Works
<1> QED
  BY <1>2, <1>3, <1>4, <1>5, <1>6, StepKinds

(* The second stage, said of given counts.                                 *)
Known ==
    /\ msg # NoMsg => SettledBy(msg, delivered, reported, unreported)
    /\ \A s \in Slots : Working(s) =>
          SettledBy(worker[s].view, delivered, reported, unreported)
    /\ accepted /\ msg = NoMsg =>
          \A r \in Rcpts : delivered[r] > 0 \/ reported[r] > 0 \/ r \in unreported

LEMMA KnownIs ==
    /\ (edits = 0 => Known) <=> OutcomesKnown /\ Accounted
    /\ (edits = 0 => Known)' <=> OutcomesKnown' /\ Accounted'
<1>1. (edits = 0 => Known) <=> OutcomesKnown /\ Accounted
  BY DEF Known, OutcomesKnown, Accounted, Settled, SettledBy, SettledFor
<1>2. (edits = 0 => Known)' <=> OutcomesKnown' /\ Accounted'
  BY DEF Known, OutcomesKnown, Accounted, Settled, SettledBy, SettledFor
<1> QED
  BY <1>1, <1>2

LEMMA KnownStep ==
    ASSUME Base, Base', Known, edits' = 0, [Next]_vars
    PROVE  Known'
<1> DEFINE S(m) == SettledBy(m, delivered', reported', unreported')
<1>1. HistoryOK /\ TypeOK /\ HistoryOK' /\ TypeOK'
  BY BaseParts DEF Base, TypeOK, HistoryOK
<1>2. Grows(delivered, reported, unreported, delivered', reported', unreported')
  BY HistoryGrows
<1>3. ASSUME NEW m, SettledBy(m, delivered, reported, unreported) PROVE S(m)
  BY <1>1, <1>2, <1>3, SettledStays DEF HistoryOK
<1>4. ASSUME accepted, msg = NoMsg
      PROVE  \A r \in Rcpts : delivered'[r] > 0 \/ reported'[r] > 0 \/ r \in unreported'
  <2>1. ASSUME NEW r \in Rcpts
        PROVE  delivered'[r] > 0 \/ reported'[r] > 0 \/ r \in unreported'
    <3>1. delivered[r] > 0 \/ reported[r] > 0 \/ r \in unreported
      BY <1>4 DEF Known
    <3>2. /\ delivered[r] <= delivered'[r] /\ reported[r] <= reported'[r]
          /\ r \in unreported => r \in unreported'
      BY <1>2 DEF Grows
    <3>3. /\ delivered[r] \in Nat /\ reported[r] \in Nat
          /\ delivered'[r] \in Nat /\ reported'[r] \in Nat
      BY <1>1 DEF HistoryOK
    <3> QED
      BY <3>1, <3>2, <3>3
  <2> QED
    BY <2>1
<1>5. msg # NoMsg => S(msg)
  BY <1>3 DEF Known
<1>6. \A s \in Slots : Working(s) => S(worker[s].view)
  BY <1>3 DEF Known
<1> HIDE DEF S
<1>7. ASSUME UNCHANGED <<accepted, msg>>, \A s \in Slots : Working(s)' => S(worker'[s].view)
      PROVE  Known'
  <2>1. msg' # NoMsg => S(msg')
    BY <1>5, <1>7
  <2>2. accepted' /\ msg' = NoMsg =>
          \A r \in Rcpts : delivered'[r] > 0 \/ reported'[r] > 0 \/ r \in unreported'
    BY <1>4, <1>7
  <2> QED
    BY <1>7, <2>1, <2>2 DEF Known, S
<1>8. ASSUME NEW s \in Slots, NEW pc, NEW v, NEW multi, Turns(s, pc, v, multi),
             pc \in {"deliver", "save", "remove"} => S(v)
      PROVE  \A p \in Slots : Working(p)' => S(worker'[p].view)
  <2>1. worker'[s].pc = pc /\ worker'[s].view = v
    BY <1>8 DEF Turns
  <2>2. \A p \in Slots \ {s} : worker'[p] = worker[p]
    BY <1>8 DEF Turns
  <2> QED
    BY <1>6, <1>8, <2>1, <2>2 DEF Working
<1>9. ASSUME NEW home \in HomeQueues, Enqueue(home) PROVE Known'
  <2>1. home \in [Rcpts -> Queues] /\ now \in 0..MaxNow
    BY <1>1, SpoolAssumptions DEF TypeOK
  <2>2. /\ NewMessage(home) \in Message
        /\ \A r \in Rcpts : /\ NewMessage(home).rcpts[r].status = "scheduled"
                            /\ NewMessage(home).rcpts[r].dsnSent = FALSE
    BY <2>1, NewMessageIs
  <2>3. S(NewMessage(home))
    BY <2>2 DEF S, SettledBy, SettledFor, Final, Pending
  <2>4. msg' = NewMessage(home) /\ msg' # NoMsg /\ worker' = worker
    BY <1>9, <2>2, MessageParts DEF Enqueue
  <2> QED
    BY <1>6, <2>3, <2>4 DEF Known, S, Working
<1>10. CASE Passes
  BY <1>6, <1>7, <1>10 DEF Passes, store, Working
<1>11. ASSUME NEW s \in Slots, NEW q, FindsNone(s, q) \/ LetsGo(s) PROVE Known'
  <2>1. PICK pc \in {"idle", "gone"} : Turns(s, pc, NoMsg, FALSE)
    BY <1>11 DEF FindsNone, LetsGo
  <2>2. UNCHANGED <<accepted, msg>>
    BY <1>11 DEF FindsNone, LetsGo
  <2>3. \A p \in Slots : Working(p)' => S(worker'[p].view)
    BY <1>8, <2>1
  <2> QED
    BY <1>7, <2>2, <2>3
<1>12. ASSUME NEW s \in Slots, NEW q, Reads(s, q) PROVE Known'
  <2>1. PICK v, rs, pc : /\ Read(msg, v, rs) /\ Notify(rs)
                         /\ Turns(s, pc, v, IsMultiQueue(msg, q))
    BY <1>12 DEF Reads
  <2>2. rs \in SUBSET Rcpts /\ msg # NoMsg /\ delivered' = delivered /\ UNCHANGED <<accepted, msg>>
    BY <1>12, <2>1 DEF Read, Reads
  <2>3. \A r \in rs : reported'[r] > 0 \/ r \in unreported'
    BY <1>1, <2>1, <2>2, NotifyIs
  <2>4. msg \in Message /\ SettledBy(msg, delivered, reported, unreported)
    BY <2>2, CopyTypes DEF Known
  <2>5. S(v)
    <3>1. SettledBy(v, delivered, reported', unreported')
      BY <1>1, <1>2, <2>1, <2>2, <2>3, <2>4, ReadSettled DEF HistoryOK
    <3> QED
      BY <2>2, <3>1 DEF S
  <2>6. \A p \in Slots : Working(p)' => S(worker'[p].view)
    BY <1>8, <2>1, <2>5
  <2> QED
    BY <1>7, <2>2, <2>6
<1>13. ASSUME NEW s \in Slots, Postpones(s) PROVE Known'
  <2>1. PICK v : Waits(worker[s].view, v) /\ Turns(s, "save", v, worker[s].multi)
    BY <1>13 DEF Postpones
  <2>2. UNCHANGED <<accepted, msg>> /\ Working(s)
    BY <1>13 DEF Postpones, store, Working
  <2>3. S(worker[s].view)
    BY <1>6, <2>2
  <2>4. S(v)
    <3>1. ASSUME NEW r \in Rcpts
          PROVE  SettledFor(v.rcpts[r], r, delivered', reported', unreported')
      <4>1. SettledFor(worker[s].view.rcpts[r], r, delivered', reported', unreported')
        BY <2>3 DEF S, SettledBy
      <4>2. /\ v.rcpts[r].dsnSent = worker[s].view.rcpts[r].dsnSent
            /\ Pending(worker[s].view.rcpts[r]) <=> Pending(v.rcpts[r])
            /\ Final(worker[s].view.rcpts[r]) =>
                  v.rcpts[r].status = worker[s].view.rcpts[r].status
        BY <2>1 DEF Waits
      <4> QED
        BY <4>1, <4>2 DEF SettledFor, Final, Pending
    <3> QED
      BY <3>1 DEF S, SettledBy
  <2>5. \A p \in Slots : Working(p)' => S(worker'[p].view)
    BY <1>8, <2>1, <2>4
  <2> QED
    BY <1>7, <2>2, <2>5
<1>14. ASSUME NEW s \in Slots, NEW q, Tries(s, q) PROVE Known'
  <2>1. PICK v, done, rs, pc :
            /\ Tried(worker[s].view, v, q, done, rs) /\ Notify(rs)
            /\ delivered' = Counted(delivered, done)
            /\ Turns(s, pc, v, worker[s].multi)
    BY <1>14 DEF Tries
  <2>2. UNCHANGED <<accepted, msg>> /\ Working(s)
    BY <1>14 DEF Tries, store, Working
  <2>3. rs \in SUBSET Rcpts /\ done \subseteq Rcpts
    BY <2>1 DEF Tried
  <2>4. \A r \in rs : reported'[r] > 0 \/ r \in unreported'
    BY <1>1, <2>1, <2>3, NotifyIs
  <2>5. \A r \in done : delivered'[r] > 0
    BY <1>1, <2>1, <2>3, CountedIs DEF HistoryOK
  <2>6. /\ worker[s].view \in Message
        /\ SettledBy(worker[s].view, delivered, reported, unreported)
    BY <2>2, CopyTypes DEF Known
  <2>7. S(v)
    BY <1>1, <1>2, <2>1, <2>4, <2>5, <2>6, TriedSettled DEF HistoryOK, S
  <2>8. \A p \in Slots : Working(p)' => S(worker'[p].view)
    BY <1>8, <2>1, <2>7
  <2> QED
    BY <1>7, <2>2, <2>8
<1>15. ASSUME NEW s \in Slots, NEW q, Saves(s, q) PROVE Known'
  <2>1. Working(s) /\ Turns(s, "idle", NoMsg, FALSE) /\ msg' \in Message
        /\ (worker[s].multi => msg # NoMsg)
    BY <1>15 DEF Saves, Working
  <2>2. S(msg')
    <3>1. ASSUME NEW r \in Rcpts
          PROVE  SettledFor(msg'.rcpts[r], r, delivered', reported', unreported')
      <4>1. SettledFor(Copy(s, r), r, delivered', reported', unreported')
        BY <1>6, <2>1 DEF S, SettledBy, Copy
      <4>2. CASE Copy(s, r).queue = q \/ ~worker[s].multi
        <5>1. msg'.rcpts[r] = Copy(s, r)
          BY <1>15, <4>2 DEF Saves
        <5> QED
          BY <4>1, <5>1
      <4>3. CASE ~(Copy(s, r).queue = q \/ ~worker[s].multi)
        <5>1. msg # NoMsg
          BY <2>1, <4>3
        <5>2. msg'.rcpts[r] = msg.rcpts[r]
          BY <1>15, <4>3 DEF Saves
        <5>3. SettledFor(msg.rcpts[r], r, delivered', reported', unreported')
          BY <1>5, <5>1 DEF S, SettledBy
        <5> QED
          BY <5>2, <5>3
      <4> QED
        BY <4>2, <4>3
    <3> QED
      BY <3>1 DEF S, SettledBy
  <2>3. \A p \in Slots : Working(p)' => S(worker'[p].view)
    BY <1>8, <2>1
  <2> QED
    BY <2>1, <2>2, <2>3, MessageParts DEF Known, S
<1>16. ASSUME NEW s \in Slots, Removes(s) PROVE Known'
  <2>1. /\ Working(s) /\ Turns(s, "idle", NoMsg, FALSE) /\ msg' = NoMsg
        /\ ~HasPending(worker[s].view)
    BY <1>16 DEF Removes, Working, Base, CopiesReal
  <2>2. ASSUME NEW r \in Rcpts
        PROVE  delivered'[r] > 0 \/ reported'[r] > 0 \/ r \in unreported'
    <3>1. SettledFor(Copy(s, r), r, delivered', reported', unreported')
      BY <1>6, <2>1 DEF S, SettledBy, Copy
    <3>2. worker[s].view \in Message
      BY <2>1, CopyTypes
    <3>3. Copy(s, r).status \in Statuses /\ ~Pending(Copy(s, r))
      BY <2>1, <3>2, MessageParts DEF HasPending, Copy, Recipient
    <3> QED
      BY <3>1, <3>3 DEF SettledFor, Statuses, Pending
  <2>3. \A p \in Slots : Working(p)' => S(worker'[p].view)
    BY <1>8, <2>1
  <2> QED
    BY <2>1, <2>2, <2>3 DEF Known, S
<1> QED
  BY <1>9, <1>10, <1>11, <1>12, <1>13, <1>14, <1>15, <1>16, Unedited DEF Works

LEMMA KnownHolds == Spec => [](OutcomesKnown /\ Accounted)
<1>1. Init => OutcomesKnown /\ Accounted
  <2>1. SUFFICES ASSUME Init PROVE OutcomesKnown /\ Accounted
    OBVIOUS
  <2>2. msg = NoMsg /\ ~accepted /\ \A s \in Slots : ~Working(s)
    BY <2>1 DEF Init, Working, Idle
  <2> QED
    BY <2>2 DEF OutcomesKnown, Accounted
<1>2. Base /\ Base' /\ (OutcomesKnown /\ Accounted) /\ [Next]_vars => (OutcomesKnown /\ Accounted)'
  <2>1. SUFFICES ASSUME Base, Base', OutcomesKnown, Accounted, [Next]_vars
                 PROVE  (edits = 0 => Known)'
    BY KnownIs
  <2>2. edits = 0 => Known
    BY <2>1, KnownIs
  <2>3. ASSUME edits' = 0 PROVE Known'
    <3>1. edits = 0
      BY <2>1, <2>3, Unedited
    <3> QED
      BY <2>1, <2>2, <2>3, <3>1, KnownStep
  <2> QED
    BY <2>3
<1> QED
  BY <1>1, <1>2, BaseHolds, PTL DEF Spec

-----------------------------------------------------------------------------
(* Third stage: a message that is not spread has one worker at a time *)

Unstarted ==
    ~accepted => /\ events = {} /\ claims = {} /\ msg = NoMsg
                 /\ ~spread /\ edits = 0
                 /\ \A s \in Slots : worker[s].pc = "idle"
                 /\ \A r \in Rcpts : delivered[r] = 0 /\ reported[r] = 0

LEMMA UnstartedStep ==
    ASSUME Base, Unstarted, [Next]_vars
    PROVE  Unstarted'
<1>1. CASE \E home \in HomeQueues : Enqueue(home)
  BY <1>1 DEF Enqueue, Unstarted
<1>2. CASE Passes
  BY <1>2 DEF Passes, Unstarted, store, history
<1>3. ASSUME NEW s \in Slots, NEW q, Works(s, q) PROVE Unstarted'
  <2>1. SUFFICES ASSUME ~accepted' PROVE FALSE
    BY DEF Unstarted
  <2>2. ~accepted
    BY <1>3, <2>1 DEF Works, FindsNone, Reads, Postpones, Tries, Saves, Removes, LetsGo
  <2>3. claims = {} /\ worker[s].pc = "idle"
    BY <2>2 DEF Unstarted
  <2> QED
    BY <1>3, <2>3 DEF Works, Starting, FindsNone, Reads, Postpones, Tries, Saves, Removes, LetsGo
<1>4. CASE Administers
  <2>1. SUFFICES ASSUME ~accepted' PROVE FALSE
    BY DEF Unstarted
  <2>2. ~accepted
    BY <1>4, <2>1 DEF Administers, AdminRead, AdminUpdate, AdminDestroy
  <2>3. msg = NoMsg /\ admin.op = "none"
    BY <2>2, BaseParts DEF Unstarted, AdminOK, NoRequest
  <2>4. ASSUME NEW rs, AdminUpdate(rs) PROVE FALSE
    <3>1. rs \in EditTargets(admin.view, admin.op)
      BY <2>4 DEF AdminUpdate
    <3> QED
      BY <2>3, <3>1 DEF EditTargets
  <2> QED
    BY <1>4, <2>3, <2>4 DEF Administers, AdminRead, AdminDestroy
<1> QED
  BY <1>1, <1>2, <1>3, <1>4, StepKinds

(* Recipients whose schedules chose one queue are together in it.          *)
LEMMA OneHome ==
    ASSUME NEW home \in HomeQueues, ~(Cardinality({home[r] : r \in Rcpts}) > 1)
    PROVE  \E c \in Queues : \A r \in Rcpts : home[r] = c
<1> DEFINE S == {home[r] : r \in Rcpts}
<1>1. home \in [Rcpts -> Queues] /\ IsFiniteSet(Rcpts) /\ Rcpts # {}
  BY SpoolAssumptions
<1>2. PICK s \in Rcpts : TRUE
  BY <1>1
<1>3. IsFiniteSet(S)
  <2>1. S \subseteq Queues /\ IsFiniteSet(Queues)
    BY <1>1, SpoolAssumptions
  <2> QED
    BY <2>1, FS_Subset
<1>4. ASSUME NEW r \in Rcpts, home[r] # home[s] PROVE FALSE
  <2>1. {home[r], home[s]} \subseteq S
    OBVIOUS
  <2>2. Cardinality({home[r], home[s]}) = 2
    <3>1. IsFiniteSet({home[s]}) /\ Cardinality({home[s]}) = 1
      BY FS_Singleton
    <3>2. {home[r], home[s]} = {home[s]} \cup {home[r]} /\ home[r] \notin {home[s]}
      BY <1>4
    <3>3. Cardinality({home[s]} \cup {home[r]}) = Cardinality({home[s]}) + 1
      BY <3>1, <3>2, FS_AddElement
    <3> QED
      BY <3>1, <3>2, <3>3
  <2>3. Cardinality({home[r], home[s]}) <= Cardinality(S) /\ Cardinality(S) \in Nat
    BY <1>3, <2>1, FS_Subset, FS_CardinalityType
  <2> QED
    BY <2>2, <2>3
<1> QED
  BY <1>1, <1>4

LEMMA AloneStart ==
    ASSUME Base, Unstarted, NEW home \in HomeQueues, Enqueue(home), ~spread'
    PROVE  \E c \in Queues : Alone(c)'
<1>1. ~accepted /\ now = 0 /\ UNCHANGED <<claims, worker>>
  BY DEF Enqueue
<1>2. claims = {} /\ \A q \in Queues : worker[q].pc = "idle"
  BY <1>1, SlotKinds DEF Unstarted
<1>3. PICK c \in Queues : \A r \in Rcpts : home[r] = c
  BY OneHome DEF Enqueue
<1>4. home \in [Rcpts -> Queues] /\ now \in 0..MaxNow
  BY SpoolAssumptions DEF Base, TypeOK
<1>5. NewMessage(home) \in Message /\ InQueue(NewMessage(home), c)
  BY <1>3, <1>4, NewMessageIs DEF InQueue
<1>6. \A e \in NextEvents(NewMessage(home)) : e.queue = c
  BY <1>5, NextEventsAre DEF InQueue
<1>7. msg' = NewMessage(home) /\ events' = NextEvents(NewMessage(home))
  BY DEF Enqueue
<1>8. Alone(c)'
  BY <1>1, <1>2, <1>5, <1>6, <1>7 DEF Alone, Working
<1> QED
  BY <1>8

LEMMA AloneStep ==
    ASSUME Base, NEW c \in Queues, Alone(c), ~spread',
           Passes \/ \E q \in Queues : Works(q, q)
    PROVE  Alone(c)'
<1>1. CASE Passes
  BY <1>1 DEF Passes, Alone, Working, store
<1>2. ASSUME NEW q \in Queues, Works(q, q) PROVE Alone(c)'
  <2>1. q = c
    BY <1>2 DEF Works, Starting, FindsNone, Reads, Postpones, Tries, Saves, Removes, LetsGo, Alone
  <2>2. \A p \in Queues \ {c} : worker[p].pc = "idle" /\ ~Working(p)
    BY DEF Alone, Working
  <2>3. ASSUME NEW pc, NEW v, NEW multi, Turns(c, pc, v, multi),
               pc \in {"deliver", "save", "remove"} =>
                  msg' # NoMsg /\ ~multi /\ InQueue(v, c) /\ v.meta = msg'.meta
        PROVE  \A p \in Queues :
                  /\ worker'[p].pc # "idle" => p = c
                  /\ Working(p)' => /\ msg' # NoMsg /\ ~worker'[p].multi
                                    /\ InQueue(worker'[p].view, c)
                                    /\ worker'[p].view.meta = msg'.meta
    <3>1. worker'[c].pc = pc /\ worker'[c].view = v /\ worker'[c].multi = multi
      BY <2>3 DEF Turns, Slots
    <3>2. \A p \in Queues \ {c} : worker'[p].pc = "idle" /\ ~Working(p)'
      BY <2>2, <2>3 DEF Turns, Slots, Working
    <3> QED
      BY <2>3, <3>1, <3>2 DEF Working
  <2>4. Working(c) => /\ msg # NoMsg /\ ~worker[c].multi
                      /\ InQueue(worker[c].view, c) /\ worker[c].view.meta = msg.meta
    BY DEF Alone
  <2>5. \A e \in events \cup claims : e.queue = c
    BY DEF Alone
  <2>6. msg # NoMsg => InQueue(msg, c)
    BY DEF Alone
  <2>7. ASSUME events' \subseteq events, claims' \subseteq claims, msg' = msg,
               \A p \in Queues :
                  /\ worker'[p].pc # "idle" => p = c
                  /\ Working(p)' => /\ msg' # NoMsg /\ ~worker'[p].multi
                                    /\ InQueue(worker'[p].view, c)
                                    /\ worker'[p].view.meta = msg'.meta
        PROVE  Alone(c)'
    BY <2>5, <2>6, <2>7 DEF Alone
  <2>8. CASE FindsNone(c, c) \/ LetsGo(c)
    <3>1. PICK pc \in {"idle", "gone"} : Turns(c, pc, NoMsg, FALSE)
      BY <2>8 DEF FindsNone, LetsGo
    <3>2. events' \subseteq events /\ claims' \subseteq claims /\ msg' = msg
      BY <2>8 DEF FindsNone, LetsGo
    <3> QED
      BY <2>3, <2>7, <3>1, <3>2
  <2>9. CASE Reads(c, c)
    <3>1. PICK v, rs, pc : Read(msg, v, rs) /\ Turns(c, pc, v, IsMultiQueue(msg, c))
      BY <2>9 DEF Reads
    <3>2. events' \subseteq events /\ claims' \subseteq claims /\ msg' = msg /\ msg # NoMsg
      BY <2>9 DEF Reads
    <3>3. InQueue(v, c) /\ v.meta = msg'.meta
      BY <2>6, <3>1, <3>2 DEF Read, InQueue
    <3>4. ~IsMultiQueue(msg, c)
      BY <2>6, <3>2 DEF IsMultiQueue, InQueue
    <3> QED
      BY <2>3, <2>7, <3>1, <3>2, <3>3, <3>4
  <2>10. CASE Postpones(c)
    <3>1. PICK v : Waits(worker[c].view, v) /\ Turns(c, "save", v, worker[c].multi)
      BY <2>10 DEF Postpones
    <3>2. events' \subseteq events /\ claims' \subseteq claims /\ msg' = msg /\ Working(c)
      BY <2>10 DEF Postpones, store, Working
    <3>3. InQueue(v, c) /\ v.meta = msg'.meta
      BY <2>4, <3>1, <3>2 DEF Waits, InQueue
    <3> QED
      BY <2>3, <2>4, <2>7, <3>1, <3>2, <3>3
  <2>11. CASE Tries(c, c)
    <3>1. PICK v, done, rs, pc :
              /\ Tried(worker[c].view, v, c, done, rs)
              /\ Turns(c, pc, v, worker[c].multi)
              /\ ~spread' => \A r \in Rcpts : v.rcpts[r].queue = worker[c].view.rcpts[r].queue
      BY <2>11 DEF Tries
    <3>2. events' \subseteq events /\ claims' \subseteq claims /\ msg' = msg /\ Working(c)
      BY <2>11 DEF Tries, store, Working
    <3>3. InQueue(v, c) /\ v.meta = msg'.meta
      BY <2>4, <3>1, <3>2 DEF Tried, InQueue
    <3> QED
      BY <2>3, <2>4, <2>7, <3>1, <3>2, <3>3
  <2>12. CASE Saves(c, c)
    <3>1. Turns(c, "idle", NoMsg, FALSE) /\ claims' = claims /\ Working(c)
      BY <2>12 DEF Saves, Working
    <3>2. InQueue(msg', c)
      BY <2>4, <2>12, <3>1 DEF Saves, InQueue, Copy
    <3>3. \A e \in events' : e.queue = c
      BY <2>4, <2>5, <2>12, <3>1 DEF Saves, InQueue, Copy
    <3>4. \A p \in Queues : /\ worker'[p].pc # "idle" => p = c
                            /\ ~Working(p)'
      <4>1. worker'[c].pc = "idle"
        BY <3>1 DEF Turns, Slots
      <4> QED
        BY <2>2, <3>1, <4>1 DEF Working, Turns, Slots
    <3> QED
      BY <2>5, <3>1, <3>2, <3>3, <3>4 DEF Alone
  <2>13. CASE Removes(c)
    <3>1. Turns(c, "idle", NoMsg, FALSE) /\ claims' = claims /\ events' \subseteq events /\ msg' = NoMsg
      BY <2>13 DEF Removes
    <3>2. \A p \in Queues : /\ worker'[p].pc # "idle" => p = c
                            /\ ~Working(p)'
      <4>1. worker'[c].pc = "idle"
        BY <3>1 DEF Turns, Slots
      <4> QED
        BY <2>2, <3>1, <4>1 DEF Working, Turns, Slots
    <3> QED
      BY <2>5, <3>1, <3>2 DEF Alone
  <2> QED
    BY <1>2, <2>1, <2>8, <2>9, <2>10, <2>11, <2>12, <2>13 DEF Works
<1> QED
  BY <1>1, <1>2

LEMMA SpreadStays ==
    ASSUME Base, Unstarted, [Next]_vars, edits' = 0, ~spread'
    PROVE  ~spread
<1>1. ASSUME NEW home, Enqueue(home) PROVE ~spread
  BY <1>1 DEF Enqueue, Unstarted
<1>2. Passes => ~spread
  BY DEF Passes, history
<1>3. ASSUME NEW s \in Slots, NEW q, Works(s, q) PROVE ~spread
  BY <1>3 DEF Works, FindsNone, Reads, Postpones, Tries, Saves, Removes, LetsGo, history
<1> QED
  BY <1>1, <1>2, <1>3, Unedited

LEMMA NotSharedStep ==
    ASSUME Base, NotShared, [Next]_vars
    PROVE  NotShared'
<1>1. Unstarted /\ (accepted /\ edits = 0 /\ ~spread /\ overruns = 0 => \E c \in Queues : Alone(c))
  BY DEF NotShared, Unstarted
<1>2. Unstarted'
  BY <1>1, UnstartedStep
<1>3. ASSUME accepted', edits' = 0, ~spread', overruns' = 0 PROVE \E c \in Queues : Alone(c)'
  <2>1. edits = 0 /\ ~spread /\ overruns = 0
    BY <1>1, <1>3, Unrushed, SpreadStays
  <2>2. CASE \E home \in HomeQueues : Enqueue(home)
    BY <1>1, <1>3, <2>2, AloneStart
  <2>3. CASE Passes \/ \E q \in Queues : Works(q, q)
    <3>1. accepted
      BY <1>3, <2>3 DEF Passes, Works, FindsNone, Reads, Postpones, Tries, Saves, Removes, LetsGo
    <3>2. PICK c \in Queues : Alone(c)
      BY <1>1, <2>1, <3>1
    <3>3. Alone(c)'
      BY <1>3, <2>3, <3>2, AloneStep
    <3> QED
      BY <3>3
  <2> QED
    BY <1>3, <2>2, <2>3, Unrushed
<1> QED
  BY <1>2, <1>3 DEF NotShared, Unstarted

LEMMA QuotaStep ==
    ASSUME Base, NotShared, QuotaConserved, [Next]_vars
    PROVE  QuotaConserved'
<1>1. SUFFICES ASSUME edits' = 0, ~spread', overruns' = 0, NEW r \in Rcpts
               PROVE  quota'[r] = IF r \in msg'.meta THEN 1 ELSE 0
  BY DEF QuotaConserved
<1>2. Unstarted
  BY DEF NotShared, Unstarted
<1>3. edits = 0 /\ ~spread /\ overruns = 0
  BY <1>1, <1>2, Unrushed, SpreadStays
<1>4. quota[r] = IF r \in msg.meta THEN 1 ELSE 0
  BY <1>3 DEF QuotaConserved
<1>5. ASSUME NEW home \in HomeQueues, Enqueue(home)
      PROVE  quota'[r] = IF r \in msg'.meta THEN 1 ELSE 0
  <2>1. msg = NoMsg
    BY <1>2, <1>5 DEF Enqueue, Unstarted
  <2>2. r \notin msg.meta
    BY <2>1 DEF NoMsg
  <2>3. msg' = NewMessage(home) /\ msg'.meta = Reserved
    BY <1>5 DEF Enqueue, NewMessage
  <2>4. quota'[r] = quota[r] + IF r \in Reserved THEN 1 ELSE 0
    BY <1>5 DEF Enqueue
  <2> QED
    BY <1>4, <2>2, <2>3, <2>4
<1>6. CASE UNCHANGED <<msg, quota>>
  BY <1>4, <1>6
<1>7. ASSUME NEW q \in Queues, Saves(q, q) \/ Removes(q)
      PROVE  quota'[r] = IF r \in msg'.meta THEN 1 ELSE 0
  <2>1. Working(q)
    BY <1>7 DEF Saves, Removes, Working
  <2>2. accepted
    BY <1>2, <2>1, SlotKinds DEF Unstarted, Working
  <2>3. PICK c \in Queues : Alone(c)
    BY <1>3, <2>2 DEF NotShared
  <2>4. ~worker[q].multi /\ worker[q].view.meta = msg.meta
    BY <2>1, <2>3 DEF Alone
  <2>5. CASE Saves(q, q)
    <3>1. msg'.meta = msg.meta \ Done(worker[q].view)
      BY <2>4, <2>5 DEF Saves
    <3>2. quota'[r] = quota[r] - IF r \in msg.meta \cap Done(worker[q].view) THEN 1 ELSE 0
      BY <2>4, <2>5 DEF Saves
    <3> QED
      BY <1>4, <3>1, <3>2
  <2>6. CASE Removes(q)
    <3>1. r \notin msg'.meta
      BY <2>6 DEF Removes, NoMsg
    <3>2. quota'[r] = quota[r] - IF r \in msg.meta THEN 1 ELSE 0
      BY <2>4, <2>6 DEF Removes
    <3> QED
      BY <1>4, <3>1, <3>2
  <2> QED
    BY <1>7, <2>5, <2>6
<1>8. Passes => UNCHANGED <<msg, quota>>
  BY DEF Passes, store
<1>9. ASSUME NEW q \in Queues, Works(q, q)
      PROVE  Saves(q, q) \/ Removes(q) \/ UNCHANGED <<msg, quota>>
  BY <1>9 DEF Works, FindsNone, Reads, Postpones, Tries, LetsGo, store
<1> QED
  BY <1>1, <1>5, <1>6, <1>7, <1>8, <1>9, Unrushed

LEMMA ReportStep ==
    ASSUME Base, Base', NotShared, ReportedOnce, [Next]_vars
    PROVE  ReportedOnce'
<1>1. SUFFICES ASSUME edits' = 0, ~spread', overruns' = 0, NEW r \in Rcpts
               PROVE  /\ reported'[r] <= 1 + faults'
                      /\ \A q \in Queues : Unsent(worker'[q].view, r) => reported'[r] <= faults'
                      /\ (\A q \in Queues : ~Working(q)') /\ Unsent(msg', r) =>
                            reported'[r] <= faults'
  BY DEF ReportedOnce, Unsent
<1>2. Unstarted
  BY DEF NotShared, Unstarted
<1>3. edits = 0 /\ ~spread /\ overruns = 0
  BY <1>1, <1>2, Unrushed, SpreadStays
<1>4. /\ reported[r] <= 1 + faults
      /\ \A q \in Queues : Unsent(worker[q].view, r) => reported[r] <= faults
      /\ (\A q \in Queues : ~Working(q)) /\ Unsent(msg, r) => reported[r] <= faults
  BY <1>3 DEF ReportedOnce
<1>5. reported[r] \in Nat /\ reported'[r] \in Nat /\ faults \in Nat /\ faults' \in Nat
  BY Numbers DEF Base, TypeOK
<1>6. TypeOK /\ \A q \in Queues : ~Working(q) => ~Unsent(worker[q].view, r)
  BY CopyTypes, SlotKinds DEF Base, Unsent
<1>7. \A q \in Queues : ~Working(q)' => ~Unsent(worker'[q].view, r)
  BY SlotKinds DEF Base, CopiesReal, Working, Unsent
<1>8. ASSUME NEW home \in HomeQueues, Enqueue(home)
      PROVE  /\ reported'[r] <= 1 + faults'
             /\ \A q \in Queues : Unsent(worker'[q].view, r) => reported'[r] <= faults'
             /\ (\A q \in Queues : ~Working(q)') /\ Unsent(msg', r) => reported'[r] <= faults'
  <2>1. reported[r] = 0 /\ reported' = reported
    BY <1>2, <1>8 DEF Enqueue, Unstarted
  <2> QED
    BY <1>5, <2>1
<1>9. CASE Passes
  <2>1. UNCHANGED <<worker, msg, reported, faults>>
    BY <1>9 DEF Passes, store, history
  <2> QED
    BY <1>4, <2>1 DEF Working, Unsent
<1>10. ASSUME NEW c \in Queues, Works(c, c)
       PROVE  /\ reported'[r] <= 1 + faults'
              /\ \A q \in Queues : Unsent(worker'[q].view, r) => reported'[r] <= faults'
              /\ (\A q \in Queues : ~Working(q)') /\ Unsent(msg', r) => reported'[r] <= faults'
  <2>1. accepted
    BY <1>2, <1>10, SlotKinds
       DEF Unstarted, Works, Starting, FindsNone, Reads, Postpones, Tries, Saves, Removes, LetsGo
  <2>2. Alone(c)
    <3>1. PICK b \in Queues : Alone(b)
      BY <1>3, <2>1 DEF NotShared
    <3>2. b = c
      BY <1>10, <3>1
         DEF Works, Starting, FindsNone, Reads, Postpones, Tries, Saves, Removes, LetsGo, Alone
    <3> QED
      BY <3>1, <3>2
  <2>3. \A p \in Queues \ {c} : ~Working(p)
    BY <2>2 DEF Alone, Working
  <2>4. ASSUME NEW pc, NEW v, NEW multi, Turns(c, pc, v, multi)
        PROVE  /\ worker'[c].pc = pc /\ worker'[c].view = v
               /\ \A p \in Queues \ {c} : ~Working(p)' /\ ~Unsent(worker'[p].view, r)
    <3>1. worker'[c].pc = pc /\ worker'[c].view = v
      BY <2>4 DEF Turns, Slots
    <3>2. \A p \in Queues \ {c} : worker'[p] = worker[p]
      BY <2>4 DEF Turns, Slots
    <3>3. \A p \in Queues \ {c} : ~Working(p)'
      BY <2>3, <3>2 DEF Working
    <3> QED
      BY <1>7, <3>1, <3>3
  <2>5. CASE FindsNone(c, c)
    <3>1. Turns(c, "gone", NoMsg, FALSE)
      BY <2>5 DEF FindsNone
    <3>2. reported' = reported /\ msg' = msg /\ faults' \in {faults, faults + 1} /\ ~Working(c)
      BY <2>5 DEF FindsNone, Starting, Working
    <3>3. \A q \in Queues : ~Unsent(worker'[q].view, r)
      BY <2>4, <3>1 DEF Unsent
    <3>4. Unsent(msg', r) => reported[r] <= faults
      BY <1>4, <2>3, <3>2
    <3> QED
      BY <1>4, <1>5, <3>2, <3>3, <3>4
  <2>6. CASE LetsGo(c)
    <3>1. Turns(c, "idle", NoMsg, FALSE)
      BY <2>6 DEF LetsGo
    <3>2. reported' = reported /\ msg' = msg /\ faults' \in {faults, faults + 1}
      BY <2>6 DEF LetsGo
    <3>3. \A q \in Queues : ~Unsent(worker'[q].view, r)
      BY <2>4, <3>1 DEF Unsent
    <3>4. Unsent(msg', r) => reported[r] <= faults \/ faults' = faults + 1
      <4>1. CASE Working(c)
        BY <2>6, <3>2, <4>1 DEF LetsGo, Unsent
      <4>2. CASE ~Working(c)
        BY <1>4, <2>3, <3>2, <4>2
      <4> QED
        BY <4>1, <4>2
    <3> QED
      BY <1>4, <1>5, <3>2, <3>3, <3>4
  <2>7. CASE Reads(c, c)
    <3>1. PICK v, rs, pc : /\ Read(msg, v, rs) /\ Notify(rs) /\ pc \in NextStep(v)
                           /\ Turns(c, pc, v, IsMultiQueue(msg, c))
      BY <2>7 DEF Reads
    <3>2. ~Working(c) /\ msg # NoMsg /\ faults' = faults /\ rs \in SUBSET Rcpts
      BY <2>7, <3>1 DEF Reads, Starting, Read, Working
    <3>3. ~msg.rcpts[r].dsnSent => reported[r] <= faults
      BY <1>4, <2>3, <3>2 DEF Unsent
    <3>4. /\ r \notin rs => reported'[r] = reported[r]
          /\ reported'[r] <= reported[r] + 1
      BY <1>6, <3>1, <3>2, NotifyIs
    <3>5. /\ v.rcpts[r].dsnSent <=> msg.rcpts[r].dsnSent \/ Final(v.rcpts[r])
          /\ r \in rs <=> v.rcpts[r].status = "permfail" /\ ~msg.rcpts[r].dsnSent
      BY <3>1 DEF Read, Noticed
    <3>6. Unsent(v, r) => reported'[r] <= faults'
      BY <1>5, <3>2, <3>3, <3>4, <3>5 DEF Unsent, Final, Pending
    <3>7. reported'[r] <= 1 + faults'
      BY <1>4, <1>5, <3>2, <3>3, <3>4, <3>5
    <3>8. Working(c)'
      BY <2>4, <3>1 DEF Working, NextStep
    <3> QED
      BY <2>4, <3>1, <3>6, <3>7, <3>8
  <2>8. CASE Postpones(c)
    <3>1. PICK v : Waits(worker[c].view, v) /\ Turns(c, "save", v, worker[c].multi)
      BY <2>8 DEF Postpones
    <3>2. reported' = reported /\ faults' = faults /\ Working(c)
      BY <2>8 DEF Postpones, history, Working
    <3>3. worker[c].view \in Message
      BY <3>2, CopyTypes, SlotKinds
    <3>4. Unsent(v, r) => reported'[r] <= faults'
      BY <1>4, <3>1, <3>2, <3>3, MessageParts DEF Unsent, Waits
    <3>5. Working(c)'
      BY <2>4, <3>1 DEF Working
    <3> QED
      BY <1>4, <2>4, <3>1, <3>2, <3>4, <3>5
  <2>9. CASE Tries(c, c)
    <3>1. PICK v, done, rs, pc :
              /\ Tried(worker[c].view, v, c, done, rs) /\ Notify(rs)
              /\ pc = (IF HasPending(v) THEN "save" ELSE "remove")
              /\ Turns(c, pc, v, worker[c].multi)
      BY <2>9 DEF Tries
    <3> DEFINE m == worker[c].view
    <3>2. Working(c) /\ faults' = faults /\ rs \in SUBSET Rcpts
      BY <2>9, <3>1 DEF Tries, Tried, Working
    <3>3. m # NoMsg
      BY <3>2, CopyTypes, MessageParts, SlotKinds
    <3>4. ~m.rcpts[r].dsnSent => reported[r] <= faults
      BY <1>4, <3>3 DEF Unsent
    <3>5. /\ r \notin rs => reported'[r] = reported[r]
          /\ reported'[r] <= reported[r] + 1
      BY <1>6, <3>1, <3>2, NotifyIs
    <3>6. /\ v.rcpts[r].dsnSent <=> m.rcpts[r].dsnSent \/ Final(v.rcpts[r])
          /\ r \in rs <=> v.rcpts[r].status = "permfail" /\ ~m.rcpts[r].dsnSent
      BY <3>1 DEF Tried, Noticed
    <3> HIDE DEF m
    <3>7. Unsent(v, r) => reported'[r] <= faults'
      BY <1>5, <3>2, <3>4, <3>5, <3>6 DEF Unsent, Final, Pending
    <3>8. reported'[r] <= 1 + faults'
      BY <1>4, <1>5, <3>2, <3>4, <3>5, <3>6
    <3>9. Working(c)'
      BY <2>4, <3>1 DEF Working
    <3> QED
      BY <2>4, <3>1, <3>7, <3>8, <3>9
  <2>10. CASE Saves(c, c)
    <3>1. Turns(c, "idle", NoMsg, FALSE) /\ reported' = reported /\ faults' = faults /\ Working(c)
      BY <2>10 DEF Saves, history, Working
    <3>2. ~worker[c].multi
      BY <2>2, <3>1 DEF Alone
    <3>3. msg'.rcpts[r] = worker[c].view.rcpts[r]
      BY <2>10, <3>2 DEF Saves, Copy
    <3>4. worker[c].view # NoMsg
      BY <3>1, CopyTypes, MessageParts, SlotKinds
    <3>5. Unsent(msg', r) => reported'[r] <= faults'
      BY <1>4, <3>1, <3>3, <3>4 DEF Unsent
    <3>6. \A q \in Queues : ~Unsent(worker'[q].view, r)
      BY <2>4, <3>1 DEF Unsent
    <3> QED
      BY <1>4, <3>1, <3>5, <3>6
  <2>11. CASE Removes(c)
    <3>1. /\ Turns(c, "idle", NoMsg, FALSE) /\ reported' = reported /\ faults' = faults
          /\ msg' = NoMsg
      BY <2>11 DEF Removes, history
    <3>2. \A q \in Queues : ~Unsent(worker'[q].view, r)
      BY <2>4, <3>1 DEF Unsent
    <3> QED
      BY <1>4, <3>1, <3>2 DEF Unsent
  <2> QED
    BY <1>10, <2>5, <2>6, <2>7, <2>8, <2>9, <2>10, <2>11 DEF Works
<1> QED
  BY <1>1, <1>8, <1>9, <1>10, Unrushed

(* The third stage, for every behaviour.                                   *)
LEMMA SolitaryHolds == Spec => [](NotShared /\ QuotaConserved /\ ReportedOnce)
<1>1. Init => NotShared /\ QuotaConserved /\ ReportedOnce
  <2>1. SUFFICES ASSUME Init PROVE NotShared /\ QuotaConserved /\ ReportedOnce
    OBVIOUS
  <2>2. /\ events = {} /\ claims = {} /\ msg = NoMsg /\ ~accepted /\ ~spread
        /\ edits = 0 /\ faults = 0
        /\ \A s \in Slots : worker[s].pc = "idle" /\ worker[s].view = NoMsg
        /\ \A r \in Rcpts : delivered[r] = 0 /\ reported[r] = 0 /\ quota[r] = 0
    BY <2>1 DEF Init, Idle
  <2>3. NotShared
    BY <2>2 DEF NotShared
  <2>4. QuotaConserved
    BY <2>2 DEF QuotaConserved, NoMsg
  <2>5. ReportedOnce
    BY <2>2, SlotKinds DEF ReportedOnce, Unsent
  <2> QED
    BY <2>3, <2>4, <2>5
<1>2. /\ Base /\ Base' /\ (NotShared /\ QuotaConserved /\ ReportedOnce) /\ [Next]_vars
      => (NotShared /\ QuotaConserved /\ ReportedOnce)'
  BY NotSharedStep, QuotaStep, ReportStep
<1> QED
  BY <1>1, <1>2, BaseHolds, PTL DEF Spec

-----------------------------------------------------------------------------
(* Fourth stage: workers of several queues *)

(* AgreesWithStore and AgreesWithCopy, said of one recipient: x is it in   *)
(* the copy of q, y in the copy of p, s in the stored message.             *)
Mine(q, x, multi) == x.queue = q \/ ~multi

WithStore(q, x, multi, s) ==
    /\ x.queue = q => s.queue = q
    /\ Mine(q, x, multi) /\ Pending(x) => Pending(s)
    /\ ~multi /\ s.queue # q => Final(s) /\ Final(x) /\ x.queue = s.queue

WithCopy(q, x, mq, p, y, mp) ==
    /\ x.queue = q => y.queue # p
    /\ x.queue = q /\ ~mp => Final(x) /\ Final(y) /\ y.queue = q
    /\ ~mq /\ ~mp => Final(x)

StoreAgrees(r) ==
    \A q \in Queues : Working(q) /\ msg # NoMsg =>
        WithStore(q, Copy(q, r), worker[q].multi, msg.rcpts[r])

WritesFresh(r) ==
    \A q \in Queues : Working(q) /\ Mine(q, Copy(q, r), worker[q].multi) /\ Pending(Copy(q, r))
        => delivered[r] <= faults

CopiesMatch(r) ==
    \A q, p \in Queues : q # p /\ Working(q) /\ Working(p) =>
        WithCopy(q, Copy(q, r), worker[q].multi, p, Copy(p, r), worker[p].multi)

StoreFresh(r) ==
    msg # NoMsg /\ Pending(msg.rcpts[r]) => delivered[r] <= faults \/ KnowsMore(r)

Shared(r) ==
    /\ StoreAgrees(r) /\ WritesFresh(r) /\ CopiesMatch(r) /\ StoreFresh(r)
    /\ delivered[r] <= 1 + faults

LEMMA SharedIs ==
    (edits = 0 /\ overruns = 0 => \A r \in Rcpts : Shared(r)) <=> CopiesAgree /\ DeliveredOnce
<1>1. ASSUME NEW r \in Rcpts
      PROVE  Shared(r) <=>
                /\ \A q \in Queues : Working(q) =>
                      /\ msg # NoMsg => AgreesWithStore(q, r)
                      /\ Writes(q, r) /\ Pending(Copy(q, r)) => delivered[r] <= faults
                      /\ \A p \in Queues \ {q} : Working(p) => AgreesWithCopy(q, p, r)
                /\ msg # NoMsg /\ Pending(msg.rcpts[r]) => delivered[r] <= faults \/ KnowsMore(r)
                /\ delivered[r] <= 1 + faults
  BY DEF Shared, StoreAgrees, WritesFresh, CopiesMatch, StoreFresh, WithStore, WithCopy, Mine,
         AgreesWithStore, AgreesWithCopy, Writes, Own
<1> QED
  BY <1>1 DEF CopiesAgree, DeliveredOnce

LEMMA SharedIsNext ==
    (edits = 0 /\ overruns = 0 => \A r \in Rcpts : Shared(r))' <=> CopiesAgree' /\ DeliveredOnce'
<1>1. ASSUME NEW r \in Rcpts
      PROVE  Shared(r)' <=>
                (/\ \A q \in Queues : Working(q) =>
                      /\ msg # NoMsg => AgreesWithStore(q, r)
                      /\ Writes(q, r) /\ Pending(Copy(q, r)) => delivered[r] <= faults
                      /\ \A p \in Queues \ {q} : Working(p) => AgreesWithCopy(q, p, r)
                 /\ msg # NoMsg /\ Pending(msg.rcpts[r]) => delivered[r] <= faults \/ KnowsMore(r)
                 /\ delivered[r] <= 1 + faults)'
  BY DEF Shared, StoreAgrees, WritesFresh, CopiesMatch, StoreFresh, WithStore, WithCopy, Mine,
         AgreesWithStore, AgreesWithCopy, Writes, Own
<1> QED
  BY <1>1 DEF CopiesAgree, DeliveredOnce

(* A copy just read agrees with the others.                                *)
LEMMA ReadAgrees ==
    ASSUME NEW q, NEW x, NEW mq, NEW s, x.queue = s.queue, Pending(x) => Pending(s),
           ~mq /\ s.queue # q => Final(s)
    PROVE  /\ WithStore(q, x, mq, s)
           /\ \A p, y, mp : p # q /\ WithStore(p, y, mp, s) =>
                 WithCopy(q, x, mq, p, y, mp) /\ WithCopy(p, y, mp, q, x, mq)
BY DEF WithStore, WithCopy, Mine, Final

(* x after an attempt of the worker of q, or a wait.                       *)
Progress(q, x, z) ==
    /\ Pending(z) => Pending(x)
    /\ Pending(x) /\ Final(z) => x.queue = q /\ z.queue = q
    /\ z.queue # x.queue => x.queue = q
    /\ Final(x) => z.queue = x.queue

LEMMA ProgressAgrees ==
    ASSUME NEW q, NEW x, NEW z, NEW mq, Progress(q, x, z)
    PROVE  /\ \A s : WithStore(q, x, mq, s) => WithStore(q, z, mq, s)
           /\ Mine(q, z, mq) => Mine(q, x, mq)
           /\ \A p, y, mp : p # q /\ WithCopy(q, x, mq, p, y, mp) /\ WithCopy(p, y, mp, q, x, mq)
                 => WithCopy(q, z, mq, p, y, mp) /\ WithCopy(p, y, mp, q, z, mq)
BY DEF Progress, WithStore, WithCopy, Mine, Final

(* What is left to show when one worker changes its copy.                  *)
LEMMA TurnAgrees ==
    ASSUME NEW q \in Queues, NEW pc, NEW v, NEW multi, Turns(q, pc, v, multi), NEW r \in Rcpts,
           CopiesMatch(r),
           pc \in {"deliver", "save", "remove"} =>
              \A p \in Queues \ {q} : Working(p) =>
                 /\ WithCopy(q, v.rcpts[r], multi, p, Copy(p, r), worker[p].multi)
                 /\ WithCopy(p, Copy(p, r), worker[p].multi, q, v.rcpts[r], multi)
    PROVE  CopiesMatch(r)'
<1>1. worker'[q].pc = pc /\ worker'[q].view = v /\ worker'[q].multi = multi
  BY DEF Turns, Slots
<1>2. \A p \in Queues \ {q} : worker'[p] = worker[p]
  BY DEF Turns, Slots
<1>3. ASSUME NEW a \in Queues, NEW b \in Queues, a # b, Working(a)', Working(b)'
      PROVE  WithCopy(a, Copy(a, r)', worker'[a].multi, b, Copy(b, r)', worker'[b].multi)
  <2>1. CASE a # q /\ b # q
    BY <1>2, <1>3, <2>1 DEF CopiesMatch, Working, Copy
  <2>2. CASE a = q
    BY <1>1, <1>2, <1>3, <2>2 DEF Working, Copy
  <2>3. CASE b = q
    BY <1>1, <1>2, <1>3, <2>3 DEF Working, Copy
  <2> QED
    BY <2>1, <2>2, <2>3
<1> QED
  BY <1>3 DEF CopiesMatch

LEMMA TurnStore ==
    ASSUME NEW q \in Queues, NEW pc, NEW v, NEW multi, Turns(q, pc, v, multi), NEW r \in Rcpts,
           StoreAgrees(r), msg' = msg,
           pc \in {"deliver", "save", "remove"} /\ msg # NoMsg =>
              WithStore(q, v.rcpts[r], multi, msg.rcpts[r])
    PROVE  StoreAgrees(r)'
<1>1. worker'[q].pc = pc /\ worker'[q].view = v /\ worker'[q].multi = multi
  BY DEF Turns, Slots
<1>2. \A p \in Queues \ {q} : worker'[p] = worker[p]
  BY DEF Turns, Slots
<1>3. ASSUME NEW a \in Queues, Working(a)', msg' # NoMsg
      PROVE  WithStore(a, Copy(a, r)', worker'[a].multi, msg'.rcpts[r])
  <2>1. CASE a # q
    BY <1>2, <1>3, <2>1 DEF StoreAgrees, Working, Copy
  <2>2. CASE a = q
    BY <1>1, <1>3, <2>2 DEF Working, Copy
  <2> QED
    BY <2>1, <2>2
<1> QED
  BY <1>3 DEF StoreAgrees

LEMMA TurnFresh ==
    ASSUME NEW q \in Queues, NEW pc, NEW v, NEW multi, Turns(q, pc, v, multi), NEW r \in Rcpts,
           \A p \in Queues \ {q} :
              Working(p) /\ Mine(p, Copy(p, r), worker[p].multi) /\ Pending(Copy(p, r))
                 => delivered'[r] <= faults',
           pc \in {"deliver", "save", "remove"} /\ Mine(q, v.rcpts[r], multi)
              /\ Pending(v.rcpts[r]) => delivered'[r] <= faults'
    PROVE  WritesFresh(r)'
<1>1. worker'[q].pc = pc /\ worker'[q].view = v /\ worker'[q].multi = multi
  BY DEF Turns, Slots
<1>2. \A p \in Queues \ {q} : worker'[p] = worker[p]
  BY DEF Turns, Slots
<1>3. ASSUME NEW a \in Queues, Working(a)', Mine(a, Copy(a, r)', worker'[a].multi),
             Pending(Copy(a, r)')
      PROVE  delivered'[r] <= faults'
  <2>1. CASE a # q
    BY <1>2, <1>3, <2>1 DEF Working, Copy
  <2>2. CASE a = q
    BY <1>1, <1>3, <2>2 DEF Working, Copy
  <2> QED
    BY <2>1, <2>2
<1> QED
  BY <1>3 DEF WritesFresh

(* A worker of another queue keeps what it knows.                          *)
LEMMA StillKnows ==
    ASSUME NEW q \in Queues, NEW pc, NEW v, NEW multi, Turns(q, pc, v, multi), NEW r \in Rcpts,
           msg'.rcpts[r].queue = msg.rcpts[r].queue, msg.rcpts[r].queue \in Queues,
           KnowsMore(r), msg.rcpts[r].queue # q
    PROVE  KnowsMore(r)'
<1> DEFINE c == msg.rcpts[r].queue
<1>1. worker'[c] = worker[c] /\ msg'.rcpts[r].queue = c
  BY DEF Turns, Slots
<1> QED
  BY <1>1 DEF KnowsMore, Working, Own, Copy

LEMMA SharedStart ==
    ASSUME Base, Unstarted, NEW home \in HomeQueues, Enqueue(home), NEW r \in Rcpts
    PROVE  Shared(r)'
<1>1. ~accepted /\ UNCHANGED <<worker, delivered, faults>>
  BY DEF Enqueue
<1>2. delivered[r] = 0 /\ \A q \in Queues : ~Working(q)
  BY <1>1, SlotKinds DEF Unstarted, Working
<1>3. delivered'[r] = 0 /\ faults' \in Nat /\ \A q \in Queues : ~Working(q)'
  BY <1>1, <1>2, Numbers DEF Working, Base, TypeOK
<1>4. delivered'[r] <= faults' /\ delivered'[r] <= 1 + faults'
  <2>1. \A n \in Nat : 0 <= n /\ 0 <= 1 + n
    OBVIOUS
  <2> QED
    BY <1>3, <2>1, Zenon
<1>5. StoreAgrees(r)' /\ WritesFresh(r)' /\ CopiesMatch(r)'
  BY <1>3 DEF StoreAgrees, WritesFresh, CopiesMatch
<1>6. StoreFresh(r)'
  BY <1>4 DEF StoreFresh
<1> QED
  BY <1>4, <1>5, <1>6 DEF Shared

LEMMA SharedLeave ==
    ASSUME Base, NEW q \in Queues, FindsNone(q, q) \/ LetsGo(q), NEW r \in Rcpts, Shared(r)
    PROVE  Shared(r)'
<1>1. PICK pc \in {"idle", "gone"} : Turns(q, pc, NoMsg, FALSE)
  BY DEF FindsNone, LetsGo
<1>2. /\ msg' = msg /\ delivered' = delivered /\ faults' \in {faults, faults + 1}
      /\ Working(q) /\ msg # NoMsg => faults' = faults + 1
  BY DEF FindsNone, Starting, LetsGo, Working
<1>3. delivered[r] \in Nat /\ faults \in Nat /\ delivered[r] <= 1 + faults
  BY Numbers DEF Base, TypeOK, Shared
<1>4. CopiesMatch(r)'
  BY <1>1, TurnAgrees DEF Shared
<1>5. StoreAgrees(r)'
  BY <1>1, <1>2, TurnStore DEF Shared
<1>6. delivered[r] <= faults => delivered'[r] <= faults'
  BY <1>2, <1>3
<1>7. WritesFresh(r)'
  BY <1>1, <1>6, TurnFresh DEF Shared, WritesFresh
<1>8. StoreFresh(r)'
  <2>1. SUFFICES ASSUME msg # NoMsg, Pending(msg.rcpts[r])
                 PROVE  delivered'[r] <= faults' \/ KnowsMore(r)'
    BY <1>2 DEF StoreFresh
  <2>2. delivered[r] <= faults \/ KnowsMore(r)
    BY <2>1 DEF Shared, StoreFresh
  <2>3. CASE KnowsMore(r) /\ msg.rcpts[r].queue = q
    <3>1. Working(q)
      BY <2>3 DEF KnowsMore
    <3> QED
      BY <1>2, <1>3, <2>1, <3>1
  <2>4. CASE KnowsMore(r) /\ msg.rcpts[r].queue # q
    <3>1. msg.rcpts[r].queue \in Queues
      BY <2>1, CopyTypes, MessageParts DEF Recipient
    <3> QED
      BY <1>1, <1>2, <2>4, <3>1, StillKnows
  <2> QED
    BY <1>6, <2>2, <2>3, <2>4
<1>9. delivered'[r] <= 1 + faults'
  BY <1>2, <1>3
<1> QED
  BY <1>4, <1>5, <1>7, <1>8, <1>9 DEF Shared

LEMMA SharedRead ==
    ASSUME Base, NEW q \in Queues, Reads(q, q), NEW r \in Rcpts, Shared(r)
    PROVE  Shared(r)'
<1>1. PICK v, rs, pc : Read(msg, v, rs) /\ Turns(q, pc, v, IsMultiQueue(msg, q))
  BY DEF Reads
<1>2. msg # NoMsg /\ msg' = msg /\ delivered' = delivered /\ faults' = faults /\ ~Working(q)
  BY DEF Reads, Starting, Working
<1> DEFINE s == msg.rcpts[r]
           x == v.rcpts[r]
           mq == IsMultiQueue(msg, q)
<1>3. x.queue = s.queue /\ (Pending(x) => Pending(s)) /\ s.queue \in Queues
  BY <1>1, <1>2, CopyTypes, MessageParts DEF Read, KeepsOutcomes, Recipient
<1>4. ~mq /\ s.queue # q => Final(s)
  BY DEF IsMultiQueue, Final
<1>5. StoreAgrees(r) /\ WritesFresh(r) /\ CopiesMatch(r) /\ StoreFresh(r) /\ delivered[r] <= 1 + faults
  BY DEF Shared
<1>6. Turns(q, pc, v, mq)
  BY <1>1
<1> HIDE DEF mq
<1>7. /\ WithStore(q, x, mq, s)
      /\ \A p, y, mp : p # q /\ WithStore(p, y, mp, s) =>
            WithCopy(q, x, mq, p, y, mp) /\ WithCopy(p, y, mp, q, x, mq)
  <2> HIDE DEF x, s
  <2> QED
    BY <1>3, <1>4, ReadAgrees
<1>8. \A p \in Queues \ {q} : Working(p) =>
          /\ WithCopy(q, x, mq, p, Copy(p, r), worker[p].multi)
          /\ WithCopy(p, Copy(p, r), worker[p].multi, q, x, mq)
  BY <1>2, <1>5, <1>7 DEF StoreAgrees
<1>9. CopiesMatch(r)'
  BY <1>5, <1>6, <1>8, TurnAgrees
<1>10. StoreAgrees(r)'
  BY <1>2, <1>5, <1>6, <1>7, TurnStore
<1>11. KnowsMore(r) => s.queue # q
  BY <1>2 DEF KnowsMore
<1>12. WritesFresh(r)'
  <2>1. Mine(q, x, mq) /\ Pending(x) => delivered[r] <= faults
    <3>1. Mine(q, x, mq) /\ Pending(x) => Pending(s) /\ s.queue = q
      BY <1>3, <1>4 DEF Mine, Final
    <3> QED
      BY <1>2, <1>5, <1>11, <3>1 DEF StoreFresh
  <2>2. \A p \in Queues \ {q} :
            Working(p) /\ Mine(p, Copy(p, r), worker[p].multi) /\ Pending(Copy(p, r))
               => delivered[r] <= faults
    BY <1>5 DEF WritesFresh
  <2> QED
    BY <1>2, <1>6, <2>1, <2>2, TurnFresh
<1>13. StoreFresh(r)'
  <2>1. KnowsMore(r) => KnowsMore(r)'
    BY <1>2, <1>3, <1>6, <1>11, StillKnows
  <2> QED
    BY <1>2, <1>5, <2>1 DEF StoreFresh
<1> QED
  BY <1>2, <1>5, <1>9, <1>10, <1>12, <1>13 DEF Shared

LEMMA SharedWork ==
    ASSUME Base, NEW q \in Queues, Working(q), NEW r \in Rcpts, Shared(r),
           NEW v, NEW pc \in {"deliver", "save", "remove"}, NEW done,
           Turns(q, pc, v, worker[q].multi), Progress(q, Copy(q, r), v.rcpts[r]),
           r \in done => Pending(Copy(q, r)) /\ Final(v.rcpts[r]),
           r \notin done => delivered'[r] = delivered[r],
           delivered'[r] \in Nat, delivered'[r] <= delivered[r] + 1,
           msg' = msg, faults' = faults
    PROVE  Shared(r)'
<1> DEFINE x == Copy(q, r)
           z == v.rcpts[r]
           mq == worker[q].multi
<1>1. StoreAgrees(r) /\ WritesFresh(r) /\ CopiesMatch(r) /\ StoreFresh(r) /\ delivered[r] <= 1 + faults
  BY DEF Shared
<1>2. /\ \A s : WithStore(q, x, mq, s) => WithStore(q, z, mq, s)
      /\ Mine(q, z, mq) => Mine(q, x, mq)
      /\ \A p, y, mp : p # q /\ WithCopy(q, x, mq, p, y, mp) /\ WithCopy(p, y, mp, q, x, mq)
            => WithCopy(q, z, mq, p, y, mp) /\ WithCopy(p, y, mp, q, z, mq)
  <2> HIDE DEF x, z, mq
  <2>1. Progress(q, x, z)
    BY DEF x, z
  <2> QED
    BY <2>1, ProgressAgrees
<1>3. \A p \in Queues \ {q} : Working(p) =>
          /\ WithCopy(q, z, mq, p, Copy(p, r), worker[p].multi)
          /\ WithCopy(p, Copy(p, r), worker[p].multi, q, z, mq)
  BY <1>1, <1>2 DEF CopiesMatch
<1>4. CopiesMatch(r)'
  BY <1>1, <1>3, TurnAgrees
<1>5. StoreAgrees(r)'
  <2>1. msg # NoMsg => WithStore(q, z, mq, msg.rcpts[r])
    BY <1>1, <1>2 DEF StoreAgrees
  <2> QED
    BY <1>1, <2>1, TurnStore
<1>6. r \in done => x.queue = q /\ z.queue = q /\ Pending(x) /\ Final(z)
  BY DEF Progress
<1>7. delivered[r] \in Nat /\ faults \in Nat
  BY Numbers DEF Base, TypeOK
<1>8. r \in done => delivered[r] <= faults
  BY <1>1, <1>6 DEF WritesFresh, Mine
<1>9. WritesFresh(r)'
  <2>1. ASSUME NEW p \in Queues \ {q}, Working(p), Mine(p, Copy(p, r), worker[p].multi),
               Pending(Copy(p, r))
        PROVE  delivered'[r] <= faults'
    <3>1. WithCopy(q, x, mq, p, Copy(p, r), worker[p].multi)
      BY <1>1, <2>1 DEF CopiesMatch
    <3>2. r \notin done
      BY <1>6, <2>1, <3>1 DEF WithCopy, Mine, Final
    <3> QED
      BY <1>1, <2>1, <3>2 DEF WritesFresh
  <2>2. ASSUME Mine(q, z, mq), Pending(z) PROVE delivered'[r] <= faults'
    <3>1. r \notin done /\ Mine(q, x, mq) /\ Pending(x)
      BY <1>2, <1>6, <2>2 DEF Final, Progress
    <3> QED
      BY <1>1, <3>1 DEF WritesFresh
  <2> QED
    BY <2>1, <2>2, TurnFresh
<1>10. StoreFresh(r)'
  <2>1. SUFFICES ASSUME msg # NoMsg, Pending(msg.rcpts[r])
                 PROVE  delivered'[r] <= faults' \/ KnowsMore(r)'
    BY DEF StoreFresh
  <2>2. worker'[q].pc = pc /\ worker'[q].view = v
    BY DEF Turns, Slots
  <2>3. msg.rcpts[r].queue \in Queues
    BY <2>1, CopyTypes, MessageParts DEF Recipient
  <2>4. CASE r \in done
    <3>1. msg.rcpts[r].queue = q
      BY <1>1, <1>6, <2>1, <2>4 DEF StoreAgrees, WithStore
    <3> QED
      BY <1>6, <2>2, <2>4, <3>1 DEF KnowsMore, Working, Own, Copy
  <2>5. CASE r \notin done /\ delivered[r] <= faults
    BY <2>5
  <2>6. CASE r \notin done /\ KnowsMore(r) /\ msg.rcpts[r].queue # q
    BY <2>3, <2>6, StillKnows
  <2>7. CASE r \notin done /\ KnowsMore(r) /\ msg.rcpts[r].queue = q
    <3>1. x.queue = q /\ Final(x)
      BY <2>7 DEF KnowsMore, Own
    <3>2. z.queue = q /\ Final(z)
      BY <3>1 DEF Progress, Final
    <3> QED
      BY <2>2, <2>7, <3>2 DEF KnowsMore, Working, Own, Copy
  <2> QED
    BY <1>1, <2>1, <2>4, <2>5, <2>6, <2>7 DEF StoreFresh
<1>11. delivered'[r] <= 1 + faults'
  BY <1>1, <1>7, <1>8
<1> QED
  BY <1>4, <1>5, <1>9, <1>10, <1>11 DEF Shared

(* Whatever a worker saves, the others agree with: who writes the whole    *)
(* message has something left to do, so nobody else does.                  *)
LEMMA SharedSave ==
    ASSUME Base, NEW q \in Queues, Saves(q, q), \A s \in Rcpts : Shared(s), NEW r \in Rcpts
    PROVE  Shared(r)'
<1> DEFINE x == Copy(q, r)
           mq == worker[q].multi
<1>1. /\ Turns(q, "idle", NoMsg, FALSE) /\ Working(q) /\ HasPending(worker[q].view)
      /\ delivered' = delivered /\ faults' = faults /\ (mq => msg # NoMsg)
  BY SlotKinds DEF Saves, history, Working, Base, CopiesReal
<1>2. StoreAgrees(r) /\ WritesFresh(r) /\ CopiesMatch(r) /\ StoreFresh(r) /\ delivered[r] <= 1 + faults
  BY DEF Shared
<1> PICK pc \in {"idle", "gone"} : Turns(q, pc, NoMsg, FALSE)
  BY <1>1
<1>3. CopiesMatch(r)'
  BY <1>2, TurnAgrees
<1>4. WritesFresh(r)'
  BY <1>1, <1>2, TurnFresh DEF WritesFresh
<1>5. msg'.rcpts[r] = IF Mine(q, x, mq) THEN x ELSE msg.rcpts[r]
  BY DEF Saves, Mine
<1>6. ASSUME NEW p \in Queues \ {q}, Working(p), ~mq PROVE worker[p].multi
  <2>1. PICK s \in Rcpts : Pending(Copy(q, s))
    BY <1>1 DEF HasPending, Copy
  <2>2. WithCopy(q, Copy(q, s), mq, p, Copy(p, s), worker[p].multi)
    BY <1>1, <1>6 DEF Shared, CopiesMatch
  <2> QED
    BY <1>6, <2>1, <2>2 DEF WithCopy, Final
<1>7. StoreAgrees(r)'
  <2>1. ASSUME NEW p \in Queues, Working(p)', msg' # NoMsg
        PROVE  WithStore(p, Copy(p, r)', worker'[p].multi, msg'.rcpts[r])
    <3>1. p # q /\ worker'[p] = worker[p]
      BY <1>1, <2>1 DEF Turns, Slots, Working
    <3>2. Working(p) /\ Copy(p, r)' = Copy(p, r)
      BY <2>1, <3>1 DEF Working, Copy
    <3> DEFINE y == Copy(p, r)
               mp == worker[p].multi
    <3>3. WithCopy(q, x, mq, p, y, mp) /\ WithCopy(p, y, mp, q, x, mq)
      BY <1>1, <1>2, <3>1, <3>2 DEF CopiesMatch
    <3>4. ~mq => mp
      BY <1>6, <3>1, <3>2
    <3>5. CASE Mine(q, x, mq)
      <4>1. WithStore(p, y, mp, x)
        <5> HIDE DEF x, y, mq, mp
        <5> QED
          BY <3>1, <3>3, <3>4, <3>5 DEF WithCopy, WithStore, Mine, Final
      <4> QED
        BY <1>5, <3>1, <3>2, <3>5, <4>1
    <3>6. CASE ~Mine(q, x, mq)
      <4>1. msg # NoMsg
        BY <1>1, <3>6 DEF Mine
      <4>2. WithStore(p, y, mp, msg.rcpts[r])
        BY <1>2, <3>2, <4>1 DEF StoreAgrees
      <4> QED
        BY <1>5, <3>1, <3>2, <3>6, <4>2
    <3> QED
      BY <3>5, <3>6
  <2> QED
    BY <2>1 DEF StoreAgrees
<1>8. StoreFresh(r)'
  <2>1. SUFFICES ASSUME Pending(msg'.rcpts[r])
                 PROVE  delivered'[r] <= faults' \/ KnowsMore(r)'
    BY DEF StoreFresh
  <2>2. CASE Mine(q, x, mq)
    <3>1. Pending(x)
      BY <1>5, <2>1, <2>2
    <3> QED
      BY <1>1, <1>2, <2>2, <3>1 DEF WritesFresh
  <2>3. CASE ~Mine(q, x, mq)
    <3>1. msg # NoMsg /\ msg'.rcpts[r] = msg.rcpts[r]
      BY <1>1, <1>5, <2>3 DEF Mine
    <3>2. msg.rcpts[r].queue \in Queues
      BY <3>1, CopyTypes, MessageParts DEF Recipient
    <3>3. KnowsMore(r) => msg.rcpts[r].queue # q
      BY <2>3 DEF KnowsMore, Own, Mine
    <3>4. KnowsMore(r) => KnowsMore(r)'
      BY <1>1, <3>1, <3>2, <3>3, StillKnows
    <3> QED
      BY <1>1, <1>2, <2>1, <3>1, <3>4 DEF StoreFresh
  <2> QED
    BY <2>2, <2>3
<1> QED
  BY <1>1, <1>2, <1>3, <1>4, <1>7, <1>8 DEF Shared

LEMMA SharedRemove ==
    ASSUME Base, NEW q \in Queues, Removes(q), NEW r \in Rcpts, Shared(r)
    PROVE  Shared(r)'
<1>1. /\ Turns(q, "idle", NoMsg, FALSE) /\ msg' = NoMsg
      /\ delivered' = delivered /\ faults' = faults
  BY DEF Removes, history
<1>2. WritesFresh(r) /\ CopiesMatch(r) /\ delivered[r] <= 1 + faults
  BY DEF Shared
<1> PICK pc \in {"idle", "gone"} : Turns(q, pc, NoMsg, FALSE)
  BY <1>1
<1>3. CopiesMatch(r)'
  BY <1>2, TurnAgrees
<1>4. WritesFresh(r)'
  BY <1>1, <1>2, TurnFresh DEF WritesFresh
<1>5. StoreAgrees(r)' /\ StoreFresh(r)'
  BY <1>1 DEF StoreAgrees, StoreFresh
<1> QED
  BY <1>1, <1>2, <1>3, <1>4, <1>5 DEF Shared

LEMMA SharedStep ==
    ASSUME Base, Unstarted, \A s \in Rcpts : Shared(s), edits' = 0, overruns' = 0, [Next]_vars,
           NEW r \in Rcpts
    PROVE  Shared(r)'
<1>1. Shared(r) /\ TypeOK
  BY DEF Base
<1>2. CASE \E home \in HomeQueues : Enqueue(home)
  BY <1>2, SharedStart
<1>3. CASE Passes
  <2>1. UNCHANGED <<msg, worker, delivered, faults>>
    BY <1>3 DEF Passes, store, history
  <2> QED
    BY <1>1, <2>1 DEF Shared, StoreAgrees, WritesFresh, CopiesMatch, StoreFresh, KnowsMore,
                      Working, Own, Copy
<1>4. ASSUME NEW q \in Queues, Works(q, q) PROVE Shared(r)'
  <2>1. CASE FindsNone(q, q) \/ LetsGo(q)
    BY <1>1, <2>1, SharedLeave
  <2>2. CASE Reads(q, q)
    BY <1>1, <2>2, SharedRead
  <2>3. CASE Postpones(q)
    <3>1. PICK v : Waits(worker[q].view, v) /\ Turns(q, "save", v, worker[q].multi)
      BY <2>3 DEF Postpones
    <3>2. Working(q) /\ UNCHANGED <<msg, delivered, faults>>
      BY <2>3 DEF Postpones, Working, store, history
    <3>3. Progress(q, Copy(q, r), v.rcpts[r])
      BY <3>1 DEF Waits, Progress, Copy, Final
    <3>4. delivered'[r] = delivered[r] /\ delivered[r] \in Nat
      BY <1>1, <3>2 DEF TypeOK
    <3>5. delivered'[r] \in Nat /\ delivered'[r] <= delivered[r] + 1
      BY <3>4
    <3> DEFINE done == {}
    <3>6. r \notin done
      OBVIOUS
    <3> HIDE DEF done
    <3> QED
      BY <1>1, <3>1, <3>2, <3>3, <3>4, <3>5, <3>6, SharedWork
  <2>4. CASE Tries(q, q)
    <3>1. PICK v, done, rs, pc :
              /\ Tried(worker[q].view, v, q, done, rs)
              /\ delivered' = Counted(delivered, done)
              /\ pc = (IF HasPending(v) THEN "save" ELSE "remove")
              /\ Turns(q, pc, v, worker[q].multi)
      BY <2>4 DEF Tries
    <3>2. Working(q) /\ UNCHANGED <<msg, faults>>
      BY <2>4 DEF Tries, Working, store
    <3>3. Progress(q, Copy(q, r), v.rcpts[r])
      BY <3>1 DEF Tried, KeepsOutcomes, Progress, Copy, Final
    <3>4. r \in done => Pending(Copy(q, r)) /\ Final(v.rcpts[r])
      BY <3>1 DEF Tried, Copy, Final, Pending
    <3>5. /\ delivered'[r] \in Nat /\ delivered'[r] <= delivered[r] + 1
          /\ r \notin done => delivered'[r] = delivered[r]
      BY <1>1, <3>1, CountedIs DEF TypeOK
    <3>6. pc \in {"deliver", "save", "remove"}
      BY <3>1
    <3> QED
      BY <1>1, <3>1, <3>2, <3>3, <3>4, <3>5, <3>6, SharedWork
  <2>5. CASE Saves(q, q)
    BY <2>5, SharedSave
  <2>6. CASE Removes(q)
    BY <1>1, <2>6, SharedRemove
  <2> QED
    BY <1>4, <2>1, <2>2, <2>3, <2>4, <2>5, <2>6 DEF Works
<1> QED
  BY <1>2, <1>3, <1>4, Unrushed

(* The fourth stage, for every behaviour.                                  *)
LEMMA SharedHolds == Spec => [](CopiesAgree /\ DeliveredOnce)
<1>1. Init => CopiesAgree /\ DeliveredOnce
  <2>1. SUFFICES ASSUME Init, NEW r \in Rcpts PROVE Shared(r)
    BY SharedIs
  <2>2. /\ msg = NoMsg /\ delivered[r] = 0 /\ faults = 0
        /\ \A q \in Queues : ~Working(q)
    BY <2>1, SlotKinds DEF Init, Idle, Working
  <2> QED
    BY <2>2 DEF Shared, StoreAgrees, WritesFresh, CopiesMatch, StoreFresh
<1>2. /\ Base /\ NotShared /\ (CopiesAgree /\ DeliveredOnce) /\ [Next]_vars
      => (CopiesAgree /\ DeliveredOnce)'
  <2>1. SUFFICES ASSUME Base, NotShared, CopiesAgree, DeliveredOnce, [Next]_vars
                 PROVE  (edits = 0 /\ overruns = 0 => \A r \in Rcpts : Shared(r))'
    BY SharedIsNext
  <2>2. edits = 0 /\ overruns = 0 => \A r \in Rcpts : Shared(r)
    BY <2>1, SharedIs
  <2>3. ASSUME edits' = 0, overruns' = 0, NEW r \in Rcpts PROVE Shared(r)'
    <3>1. edits = 0 /\ overruns = 0 /\ Unstarted
      BY <2>1, <2>3, Unrushed DEF NotShared, Unstarted
    <3> QED
      BY <2>1, <2>2, <2>3, <3>1, SharedStep
  <2> QED
    BY <2>3
<1>3. Spec => []NotShared
  BY SolitaryHolds, PTL
<1> QED
  BY <1>1, <1>2, <1>3, BaseHolds, PTL DEF Spec

-----------------------------------------------------------------------------
(* Fifth stage: every recipient has its event, while the schedule keeps    *)
(* recipients in their queues and the administrator edits no more than     *)
(* once, and then only if no delivery outlasted its lock.                  *)

FixedQueues == \A r \in Rcpts : NextQueue[r] = {}

(* y is what became of recipient x: still pending only if x was, and due   *)
(* no earlier.                                                             *)
Older(x, y) == Pending(y) => Pending(x) /\ x.due <= y.due /\ x.notify <= y.notify

Ages(m, v) ==
    \A r \in Rcpts : v.rcpts[r].queue = m.rcpts[r].queue /\ Older(m.rcpts[r], v.rcpts[r])

LEMMA OlderTrans ==
    ASSUME NEW x \in Recipient, NEW y \in Recipient, NEW z \in Recipient, Older(x, y), Older(y, z)
    PROVE  Older(x, z)
BY Numbers DEF Older, Recipient

LEMMA OlderSelf ==
    ASSUME NEW x \in Recipient
    PROVE  Older(x, x)
BY Numbers DEF Older, Recipient

LEMMA AgesTrans ==
    ASSUME NEW m \in Message, NEW x \in Message, NEW v \in Message, Ages(m, x), Ages(x, v)
    PROVE  Ages(m, v)
BY MessageParts, OlderTrans DEF Ages

LEMMA DsnAges ==
    ASSUME NEW m \in Message
    PROVE  Ages(m, AfterDsn(m))
<1> SUFFICES ASSUME NEW r \in Rcpts
             PROVE  /\ AfterDsn(m).rcpts[r].queue = m.rcpts[r].queue
                    /\ Older(m.rcpts[r], AfterDsn(m).rcpts[r])
  BY DEF Ages
<1>1. m.rcpts[r] \in Recipient
  BY MessageParts
<1> DEFINE x == m.rcpts[r]
           y == AfterDsn(m).rcpts[r]
<1>2. y = IF Final(x) THEN [x EXCEPT !.dsnSent = TRUE]
          ELSE IF x.notify <= now THEN [x EXCEPT !.notify = Never] ELSE x
  BY AfterDsnIs
<1> HIDE DEF x, y
<1>3. x \in Recipient /\ x.notify <= Never /\ Never \in Nat
  BY <1>1, Numbers DEF x, Recipient
<1>4. y.queue = x.queue /\ Older(x, y)
  BY <1>2, <1>3, Numbers DEF Older, Pending, Final, Recipient
<1> QED
  BY <1>4 DEF x, y

LEMMA ReadAges ==
    ASSUME NEW m \in Message
    PROVE  AfterDsn(MarkExpired(m)) \in Message /\ Ages(m, AfterDsn(MarkExpired(m)))
<1> DEFINE x == MarkExpired(m)
<1>1. /\ x \in Message
      /\ \A r \in Rcpts : x.rcpts[r] =
            IF Pending(m.rcpts[r]) /\ Expired(m.rcpts[r])
            THEN [m.rcpts[r] EXCEPT !.status = "permfail"] ELSE m.rcpts[r]
  BY MarkExpiredIs
<1> HIDE DEF x
<1>2. ASSUME NEW r \in Rcpts PROVE x.rcpts[r].queue = m.rcpts[r].queue /\ Older(m.rcpts[r], x.rcpts[r])
  <2>1. m.rcpts[r] \in Recipient
    BY MessageParts
  <2>2. \A y \in Recipient : /\ [y EXCEPT !.status = "permfail"].queue = y.queue
                              /\ ~Pending([y EXCEPT !.status = "permfail"])
    BY DEF Pending, Recipient
  <2>3. CASE Pending(m.rcpts[r]) /\ Expired(m.rcpts[r])
    BY <1>1, <2>1, <2>2, <2>3, Zenon DEF Older
  <2>4. CASE ~(Pending(m.rcpts[r]) /\ Expired(m.rcpts[r]))
    BY <1>1, <2>1, <2>4, OlderSelf, Zenon
  <2> QED
    BY <2>3, <2>4
<1>3. Ages(m, x)
  BY <1>2 DEF Ages
<1>4. AfterDsn(x) \in Message /\ Ages(x, AfterDsn(x))
  BY <1>1, AfterDsnIs, DsnAges
<1>5. AfterDsn(x) \in Message /\ Ages(m, AfterDsn(x))
  BY <1>1, <1>3, <1>4, AgesTrans
<1> QED
  BY <1>5 DEF x

LEMMA LaterIs ==
    ASSUME now \in 0..MaxNow, NEW d \in Nat
    PROVE  now <= Later(d)
BY Numbers DEF Later

(* A recipient that was due waits for a later time, in the same queue. *)
LEMMA StatusAges ==
    ASSUME NEW rc \in Recipient, now \in 0..MaxNow, rc.due <= now, Pending(rc), NEW outcome \in Outcomes
    PROVE  /\ SetStatus(rc, outcome, rc.queue).queue = rc.queue
           /\ Older(rc, SetStatus(rc, outcome, rc.queue))
<1>1. /\ Later(1) \in 0..MaxNow /\ now <= Later(1)
      /\ Later(RetryAfter) \in 0..MaxNow /\ now <= Later(RetryAfter)
  BY LaterType, LaterIs, Numbers
<1> DEFINE f == SetStatus(rc, outcome, rc.queue)
<1>2. CASE outcome = "tempfail"
  <2>1. f = [rc EXCEPT !.status = "tempfail", !.due = Later(RetryAfter),
                       !.inner = rc.inner + 1, !.queue = rc.queue]
    BY <1>2 DEF SetStatus
  <2> QED
    BY <1>1, <2>1, Numbers DEF Recipient, Older, Pending
<1>3. CASE outcome = "limited"
  <2>1. f = [rc EXCEPT !.status = "tempfail", !.due = Later(1)]
    BY <1>3 DEF SetStatus
  <2> QED
    BY <1>1, <2>1, Numbers DEF Recipient, Older, Pending
<1>4. CASE outcome \in {"completed", "permfail"}
  <2>1. f = [rc EXCEPT !.status = outcome]
    BY <1>4 DEF SetStatus
  <2> QED
    BY <1>4, <2>1 DEF Recipient, Older, Pending
<1> QED
  BY <1>2, <1>3, <1>4 DEF Outcomes

-----------------------------------------------------------------------------
(* The steps, as this stage sees them. *)

(* What the planning depends on besides the workers. *)
Untouched == UNCHANGED <<msg, events, admin, edits, misread>>

(* A worker reads the message, or goes on with its copy. *)
Starts(s, q) ==
    /\ ~Working(s) /\ msg # NoMsg /\ Untouched
    /\ \E v, pc : v \in Message /\ Ages(msg, v) /\ Turns(s, pc, v, IsMultiQueue(msg, q))

Goes(s) ==
    /\ Working(s) /\ Untouched
    /\ \E v, pc : v \in Message /\ Ages(worker[s].view, v) /\ Turns(s, pc, v, worker[s].multi)

(* A worker writes its copy back and plans what is left of it. *)
Plans(s, q) ==
    /\ Saves(s, q)
    /\ \A e \in events : e.queue # q => e \in events'
    /\ \E m \in Message : m.rcpts = worker[s].view.rcpts /\ NextEvents(m) \subseteq events'

(* A worker leaves, and the message may leave with it. *)
Leaves(s) ==
    /\ \E pc : pc \in {"idle", "gone"} /\ Turns(s, pc, NoMsg, FALSE)
    /\ msg' = msg \/ msg' = NoMsg
    /\ msg' # NoMsg /\ ~misread' => events' = events /\ ~misread
    /\ UNCHANGED <<admin, edits>>

Moves(s, q) == Starts(s, q) \/ Goes(s) \/ Plans(s, q) \/ Leaves(s)

LEMMA BeginPlans ==
    ASSUME Base, NEW e \in claims, Begin(e)
    PROVE  Leaves(Slot(e.queue)) \/ Starts(Slot(e.queue), e.queue)
<1> DEFINE q == e.queue
           s == Slot(q)
           v == AfterDsn(MarkExpired(msg))
<1>1. TypeOK /\ q \in Queues /\ e.due \in 0..MaxNow
  BY DEF Base, TypeOK, Event
<1>2. CASE FindsNone(s, q)
  BY <1>2 DEF FindsNone, Leaves
<1>3. s \in Slots /\ held' \subseteq Queues
  BY <1>1, SlotIs DEF TypeOK, Begin
<1>4. CASE /\ msg # NoMsg
           /\ \E pc \in {"deliver", "save", "remove"} :
                 worker' = [worker EXCEPT ![s] =
                     [pc |-> pc, due |-> e.due, view |-> v, multi |-> IsMultiQueue(msg, q)]]
  <2>1. PICK pc \in {"deliver", "save", "remove"} :
                 worker' = [worker EXCEPT ![s] =
                     [pc |-> pc, due |-> e.due, view |-> v, multi |-> IsMultiQueue(msg, q)]]
    BY <1>4
  <2>2. v \in Message /\ Ages(msg, v)
    BY <1>4, CopyTypes, ReadAges
  <2>3. IsMultiQueue(msg, q) \in BOOLEAN
    BY DEF IsMultiQueue
  <2> DEFINE w == [pc |-> pc, due |-> e.due, view |-> v, multi |-> IsMultiQueue(msg, q)]
  <2> HIDE DEF v
  <2>4. w \in WorkerRec /\ w.pc = pc /\ w.view = v /\ w.multi = IsMultiQueue(msg, q)
    BY <1>1, <2>2, <2>3 DEF WorkerRec
  <2>5. worker' = [worker EXCEPT ![s] = w]
    BY <2>1
  <2>6. ~Working(s) /\ Untouched
    BY DEF Begin, Slot, Untouched, Working, store
  <2> HIDE DEF w, s
  <2>7. Turns(s, pc, v, IsMultiQueue(msg, q))
    BY <1>1, <1>3, <2>4, <2>5, TurnsTo
  <2>8. Starts(s, q)
    BY <1>4, <2>2, <2>6, <2>7 DEF Starts
  <2> QED
    BY <2>8 DEF s
<1>5. FindsNone(s, q) \/ Reads(s, q)
  BY BeginIs
<1>6. CASE Reads(s, q) /\ ~FindsNone(s, q)
  <2>1. msg # NoMsg /\ worker'[s].pc # "gone"
    <3> HIDE DEF s
    <3>1. PICK y, rs, pc : pc \in NextStep(y) /\ Turns(s, pc, y, IsMultiQueue(msg, q))
      BY <1>6 DEF Reads
    <3> QED
      BY <1>6, <3>1 DEF Reads, NextStep, Turns
  <2> DEFINE w == [Idle EXCEPT !.pc = "gone", !.due = e.due]
  <2>2. w.pc = "gone"
    BY DEF Idle
  <2>3. worker' # [worker EXCEPT ![s] = w]
    <3> HIDE DEF w, s
    <3> QED
      BY <1>1, <1>3, <2>1, <2>2 DEF TypeOK
  <2> QED
    BY <1>4, <2>1, <2>3 DEF Begin, Slot
<1> QED
  BY <1>2, <1>5, <1>6

LEMMA WaitAges ==
    ASSUME now \in 0..MaxNow, NEW rc \in Recipient, rc.due <= now, Pending(rc)
    PROVE  /\ [rc EXCEPT !.status = "tempfail", !.due = Later(1)] \in Recipient
           /\ [rc EXCEPT !.status = "tempfail", !.due = Later(1)].queue = rc.queue
           /\ Older(rc, [rc EXCEPT !.status = "tempfail", !.due = Later(1)])
<1>1. Later(1) \in 0..MaxNow /\ now <= Later(1)
  BY LaterType, LaterIs
<1>2. [rc EXCEPT !.status = "tempfail", !.due = Later(1)] \in Recipient
  BY <1>1 DEF Recipient, Statuses
<1> DEFINE y == [rc EXCEPT !.status = "tempfail", !.due = Later(1)]
<1>3. y.queue = rc.queue /\ y.due = Later(1) /\ y.notify = rc.notify
  BY DEF Recipient
<1>4. rc.notify \in Nat /\ rc.due \in Nat
  BY Numbers DEF Recipient
<1> HIDE DEF y
<1>5. Older(rc, y)
  BY <1>1, <1>3, <1>4, Numbers DEF Older
<1> QED
  BY <1>2, <1>3, <1>5 DEF y

LEMMA ThrottledPlans ==
    ASSUME Base, NEW s \in Slots, Throttled(s)
    PROVE  Goes(s)
<1> DEFINE m == worker[s].view
           due == {r \in PendingIn(m, QueueOf(s)) : m.rcpts[r].due <= now}
           f == [r \in Rcpts |-> IF r \in due
                    THEN [m.rcpts[r] EXCEPT !.status = "tempfail", !.due = Later(1)]
                    ELSE m.rcpts[r]]
           v == [m EXCEPT !.rcpts = f]
<1>1. worker[s].pc = "deliver" /\ TypeOK /\ Working(s) /\ Untouched /\ held' = held
  BY DEF Throttled, Base, Working, Untouched, store, history
<1>2. m \in Message /\ now \in 0..MaxNow
  BY <1>1, CopyTypes
<1>3. Goto(s, "save", v)
  BY <1>2 DEF Throttled, Message
<1>5. ASSUME NEW r \in Rcpts
      PROVE  f[r] \in Recipient /\ f[r].queue = m.rcpts[r].queue /\ Older(m.rcpts[r], f[r])
  <2>1. m.rcpts[r] \in Recipient
    BY <1>2, MessageParts
  <2>2. CASE r \in due
    <3>1. f[r] = [m.rcpts[r] EXCEPT !.status = "tempfail", !.due = Later(1)]
      BY <2>2
    <3>2. Pending(m.rcpts[r]) /\ m.rcpts[r].due <= now
      BY <2>2 DEF PendingIn
    <3> QED
      BY <1>2, <2>1, <3>1, <3>2, WaitAges, Zenon
  <2>3. CASE r \notin due
    BY <2>1, <2>3, OlderSelf
  <2> QED
    BY <2>2, <2>3
<1>6. f \in [Rcpts -> Recipient]
  BY <1>5
<1> HIDE DEF f
<1>7. v \in Message /\ v.rcpts = f
  BY <1>2, <1>6, MessageParts, Zenon
<1> HIDE DEF v
<1>8. Ages(m, v)
  BY <1>5, <1>7 DEF Ages
<1>9. Turns(s, "save", v, worker[s].multi)
  BY <1>1, <1>3, <1>7, GotoIs
<1> QED
  BY <1>1, <1>7, <1>8, <1>9 DEF Goes

LEMMA AttemptPlans ==
    ASSUME FixedQueues, Base, NEW s \in Slots, Attempt(s)
    PROVE  Goes(s)
<1> DEFINE m == worker[s].view
           due == {r \in PendingIn(m, QueueOf(s)) : m.rcpts[r].due <= now}
           Result(outcome, to) == [m EXCEPT !.rcpts = [r \in Rcpts |->
                  IF r \in due THEN SetStatus(@[r], outcome[r], to[r]) ELSE @[r]]]
<1>1. PICK outcome \in [due -> {"completed", "permfail", "tempfail", "limited"}],
           to \in [due -> Queues] :
          /\ \A r \in due : \/ to[r] = m.rcpts[r].queue
                            \/ outcome[r] = "tempfail" /\ to[r] \in NextQueue[r]
          /\ Goto(s, IF HasPending(Result(outcome, to)) THEN "save" ELSE "remove",
                  AfterDsn(Result(outcome, to)))
  BY DEF Attempt
<1>2. worker[s].pc = "deliver" /\ TypeOK /\ Working(s) /\ Untouched /\ held' = held
  BY DEF Attempt, Base, Working, Untouched, store
<1>3. m \in Message /\ now \in 0..MaxNow
  BY <1>2, CopyTypes
<1> DEFINE f == [r \in Rcpts |->
                 IF r \in due THEN SetStatus(m.rcpts[r], outcome[r], to[r]) ELSE m.rcpts[r]]
           x == Result(outcome, to)
           pc == IF HasPending(x) THEN "save" ELSE "remove"
<1>4. x = [m EXCEPT !.rcpts = f]
  OBVIOUS
<1>5. ASSUME NEW r \in Rcpts
      PROVE  f[r] \in Recipient /\ f[r].queue = m.rcpts[r].queue /\ Older(m.rcpts[r], f[r])
  <2>1. m.rcpts[r] \in Recipient
    BY <1>3, MessageParts
  <2>2. CASE r \in due
    <3>1. Pending(m.rcpts[r]) /\ m.rcpts[r].due <= now /\ m.rcpts[r].queue \in Queues
      BY <2>1, <2>2 DEF PendingIn, Recipient
    <3>2. to[r] = m.rcpts[r].queue /\ outcome[r] \in Outcomes
      BY <1>1, <2>2 DEF FixedQueues, Outcomes
    <3>3. f[r] = SetStatus(m.rcpts[r], outcome[r], m.rcpts[r].queue)
      BY <2>2, <3>2
    <3>4. f[r] \in Recipient
      BY <1>3, <2>1, <3>1, <3>2, <3>3, SetStatusIs DEF After
    <3>5. /\ SetStatus(m.rcpts[r], outcome[r], m.rcpts[r].queue).queue = m.rcpts[r].queue
          /\ Older(m.rcpts[r], SetStatus(m.rcpts[r], outcome[r], m.rcpts[r].queue))
      BY <1>3, <2>1, <3>1, <3>2, StatusAges, Zenon
    <3> QED
      BY <3>3, <3>4, <3>5, Zenon
  <2>3. CASE r \notin due
    BY <2>1, <2>3, OlderSelf
  <2> QED
    BY <2>2, <2>3
<1>6. f \in [Rcpts -> Recipient]
  BY <1>5
<1>7. Goto(s, pc, AfterDsn(x))
  BY <1>1
<1>8. pc \in {"idle", "gone", "deliver", "save", "remove"}
  OBVIOUS
<1> HIDE DEF f, x, pc
<1>9. x \in Message /\ x.rcpts = f
  BY <1>3, <1>4, <1>6, MessageParts, Zenon
<1>10. Ages(m, x)
  BY <1>5, <1>9 DEF Ages
<1>11. AfterDsn(x) \in Message /\ Ages(m, AfterDsn(x))
  BY <1>3, <1>9, <1>10, AfterDsnIs, DsnAges, AgesTrans
<1>12. Turns(s, pc, AfterDsn(x), worker[s].multi)
  BY <1>2, <1>7, <1>8, <1>11, GotoIs
<1> QED
  BY <1>2, <1>11, <1>12 DEF Goes

LEMMA SavePlans ==
    ASSUME Base, NEW s \in Slots, SaveChanges(s)
    PROVE  Plans(s, QueueOf(s))
<1> DEFINE m == AfterRelease(worker[s].view)
           q == QueueOf(s)
<1>1. Saves(s, q)
  BY SaveChangesIs
<1>2. worker[s].view \in Message
  BY CopyTypes DEF SaveChanges, Working
<1>3. m \in Message /\ m.rcpts = worker[s].view.rcpts
  BY <1>2, AfterReleaseIs
<1>4. events' = (events \ {[queue |-> q, due |-> worker[s].due]}) \cup NextEvents(m)
  BY DEF SaveChanges, Rescheduled
<1> HIDE DEF m, q
<1>5. \A e \in events : e.queue # q => e \in events'
  BY <1>4
<1>6. Plans(s, q)
  BY <1>1, <1>3, <1>4, <1>5 DEF Plans
<1> QED
  BY <1>6 DEF q

LEMMA PlanKinds ==
    ASSUME FixedQueues, Base, [Next]_vars
    PROVE  \/ \E home \in HomeQueues : Enqueue(home)
           \/ Untouched /\ UNCHANGED <<worker, overruns>>
           \/ \E s \in Slots : Moves(s, QueueOf(s)) /\ Works(s, QueueOf(s))
           \/ Administers
<1>1. CASE UNCHANGED vars
  BY <1>1 DEF vars, Untouched
<1>2. ASSUME NEW e \in events, Dispatch(e) PROVE Untouched /\ UNCHANGED <<worker, overruns>>
  BY <1>2 DEF Dispatch, Untouched, store, history
<1>3. CASE Tick
  BY <1>3 DEF Tick, Untouched, store, history
<1>4. ASSUME NEW q \in Queues, Pick(q) \/ LockExpires(q)
      PROVE  \/ Untouched /\ UNCHANGED <<worker, overruns>>
             \/ \E s \in Slots : Moves(s, QueueOf(s)) /\ Works(s, QueueOf(s))
  <2>1. CASE Pick(q)
    <3>1. PICK e \in claims : Begin(e) \/ Locked(e)
      BY <2>1 DEF Pick
    <3>2. CASE Begin(e)
      <4>1. e.queue \in Queues /\ Works(Slot(e.queue), e.queue)
        BY <3>2, BeginIs DEF Works
      <4>2. Slot(e.queue) \in Slots /\ QueueOf(Slot(e.queue)) = e.queue
        BY <4>1, SlotIs
      <4>3. Moves(Slot(e.queue), e.queue)
        BY <3>2, BeginPlans DEF Moves
      <4> QED
        BY <4>1, <4>2, <4>3
    <3>3. CASE Locked(e)
      BY <3>3 DEF Locked, Untouched, store, history
    <3> QED
      BY <3>1, <3>2, <3>3
  <2>2. CASE LockExpires(q)
    BY <2>2 DEF LockExpires, Untouched, store, history
  <2> QED
    BY <1>4, <2>1, <2>2
<1>5. ASSUME NEW s \in Slots, Work(s) \/ Fault(s)
      PROVE  Moves(s, QueueOf(s)) /\ Works(s, QueueOf(s))
  <2>1. CASE Throttled(s)
    BY <2>1, ThrottledIs, ThrottledPlans DEF Works, Moves
  <2>2. CASE Attempt(s)
    BY <2>2, AttemptIs, AttemptPlans DEF Works, Moves
  <2>3. CASE SaveChanges(s)
    BY <2>3, SavePlans DEF Works, Moves, Plans
  <2>4. CASE Remove(s)
    <3>1. Removes(s)
      BY <2>4, RemoveIs
    <3>2. Leaves(s)
      BY <3>1 DEF Removes, Leaves
    <3> QED
      BY <3>1, <3>2 DEF Works, Moves
  <2>5. CASE SaveRefused(s) \/ ClearEvent(s) \/ Fault(s)
    <3>1. LetsGo(s)
      BY <2>5, LeavingIs
    <3>2. Leaves(s)
      BY <3>1 DEF LetsGo, Leaves
    <3> QED
      BY <3>1, <3>2 DEF Works, Moves
  <2> QED
    BY <1>5, <2>1, <2>2, <2>3, <2>4, <2>5 DEF Work
<1> QED
  BY <1>1, <1>2, <1>3, <1>4, <1>5 DEF Next, Administers

(* The administrator writes the edit m of what was read, or removes the    *)
(* message.                                                                *)
Replans(rs, m) ==
    /\ msg # NoMsg /\ m \in Message /\ NextEvents(m) \subseteq events'
    /\ \A r \in Rcpts :
          /\ m.rcpts[r].queue = admin.view.rcpts[r].queue
          /\ r \in rs => msg'.rcpts[r] = m.rcpts[r]
          /\ r \notin rs => m.rcpts[r] = admin.view.rcpts[r] /\ msg'.rcpts[r] = msg.rcpts[r]

Asks ==
    /\ admin.op = "none" /\ msg # NoMsg /\ admin'.view = msg /\ edits' = edits + 1
    /\ UNCHANGED <<msg, events, misread, worker, overruns>>

Answered ==
    /\ admin.op # "none" /\ admin' = NoRequest
    /\ UNCHANGED <<edits, misread, worker, overruns>>
    /\ UNCHANGED <<msg, events>> \/ msg' = NoMsg \/ \E rs \in SUBSET Rcpts : \E m : Replans(rs, m)

LEMMA EditedKeeps ==
    ASSUME NEW m \in Message, NEW rs \in SUBSET Rcpts,
           NEW op \in {"touch", "retry", "reschedule", "cancel"}, op = "touch" => rs = {}
    PROVE  \A r \in Rcpts :
               /\ Edited(m, op, rs).rcpts[r].queue = m.rcpts[r].queue
               /\ r \notin rs => Edited(m, op, rs).rcpts[r] = m.rcpts[r]
<1> TAKE r \in Rcpts
<1> DEFINE x == Edited(m, op, rs).rcpts[r]
           rc == m.rcpts[r]
<1>1. rc \in Recipient
  BY MessageParts
<1>2. x = IF r \notin rs THEN rc
          ELSE CASE op = "retry" -> [rc EXCEPT !.due = now]
                 [] op = "reschedule" -> [rc EXCEPT !.status = "scheduled"]
                 [] op = "cancel" -> [rc EXCEPT !.status = "permfail"]
  BY DEF Edited, Message
<1> HIDE DEF x, rc
<1>3. r \notin rs => x = rc
  BY <1>2
<1>4. CASE r \in rs /\ op = "retry"
  BY <1>1, <1>2, <1>4 DEF Recipient, x, rc
<1>5. CASE r \in rs /\ op = "reschedule"
  BY <1>1, <1>2, <1>5 DEF Recipient, x, rc
<1>6. CASE r \in rs /\ op = "cancel"
  BY <1>1, <1>2, <1>6 DEF Recipient, x, rc
<1> QED
  BY <1>3, <1>4, <1>5, <1>6 DEF x, rc

LEMMA AdminPlans ==
    ASSUME Base, Administers
    PROVE  Asks \/ Answered
<1>1. TypeOK /\ AdminOK
  BY BaseParts DEF Base
<1>2. ASSUME NEW op \in {"touch", "retry", "reschedule", "cancel", "destroy"}, AdminRead(op)
      PROVE  Asks
  BY <1>2 DEF AdminRead, Asks, NoRequest, store, history
<1>3. ASSUME NEW rs \in SUBSET Rcpts, AdminUpdate(rs) PROVE Answered
  <2> DEFINE m == Edited(admin.view, admin.op, rs)
             saved == AfterRelease(m)
  <2>1. /\ rs \in EditTargets(admin.view, admin.op) /\ admin' = NoRequest
        /\ UNCHANGED <<worker, edits, misread, overruns>>
    BY <1>3 DEF AdminUpdate, history
  <2>2. /\ admin.op \in {"touch", "retry", "reschedule", "cancel"}
        /\ admin.op = "touch" => rs = {}
    BY <1>1, <2>1 DEF EditTargets, AdminOK
  <2>3. admin.view \in Message /\ now \in 0..MaxNow
    BY <2>2, CopyTypes
  <2>4. m \in Message
    BY <2>2, <2>3, EditedIs
  <2>5. saved \in Message /\ saved.rcpts = m.rcpts
    BY <2>4, AfterReleaseIs
  <2>6. \A r \in Rcpts : /\ saved.rcpts[r].queue = admin.view.rcpts[r].queue
                         /\ r \notin rs => saved.rcpts[r] = admin.view.rcpts[r]
    BY <2>2, <2>3, <2>5, EditedKeeps
  <2>7. \/ UNCHANGED <<msg, events>>
        \/ /\ msg # NoMsg /\ events' = Replanned(saved)
           /\ msg' = [msg EXCEPT !.rcpts = [r \in Rcpts |->
                         IF r \in rs THEN saved.rcpts[r] ELSE msg.rcpts[r]]]
        \/ msg' = NoMsg
    BY <1>3 DEF AdminUpdate, store
  <2> HIDE DEF m, saved
  <2>8. CASE /\ msg # NoMsg /\ events' = Replanned(saved)
             /\ msg' = [msg EXCEPT !.rcpts = [r \in Rcpts |->
                           IF r \in rs THEN saved.rcpts[r] ELSE msg.rcpts[r]]]
    <3> DEFINE f == [r \in Rcpts |-> IF r \in rs THEN saved.rcpts[r] ELSE msg.rcpts[r]]
    <3>1. msg \in Message
      BY <2>8, CopyTypes
    <3>2. f \in [Rcpts -> Recipient]
      BY <2>5, <3>1, MessageParts
    <3>3. msg' = [msg EXCEPT !.rcpts = f]
      BY <2>8
    <3>4. \A r \in Rcpts : f[r] = IF r \in rs THEN saved.rcpts[r] ELSE msg.rcpts[r]
      OBVIOUS
    <3> HIDE DEF f
    <3>5. msg'.rcpts = f
      BY <3>1, <3>2, <3>3, MessageParts
    <3>6. Replans(rs, saved)
      BY <2>5, <2>6, <2>8, <3>4, <3>5 DEF Replans, Replanned
    <3> QED
      BY <2>1, <2>2, <3>6 DEF Answered
  <2> QED
    BY <2>1, <2>2, <2>7, <2>8 DEF Answered
<1>4. ASSUME AdminDestroy PROVE Answered
  BY <1>4 DEF AdminDestroy, Answered, history
<1> QED
  BY <1>2, <1>3, <1>4 DEF Administers

(* The kinds of steps.  The count of overruns only grows, and while it is  *)
(* zero only first workers move.                                           *)
LEMMA Kinds ==
    ASSUME FixedQueues, Base, [Next]_vars
    PROVE  \/ \E home \in HomeQueues : Enqueue(home)
           \/ Untouched /\ UNCHANGED worker
           \/ \E s \in Slots : Moves(s, QueueOf(s))
           \/ Asks \/ Answered
BY PlanKinds, AdminPlans

LEMMA FirstKinds ==
    ASSUME FixedQueues, Base, [Next]_vars, overruns' = 0
    PROVE  /\ overruns = 0
           /\ \/ \E home \in HomeQueues : Enqueue(home)
              \/ Untouched /\ UNCHANGED worker
              \/ \E q \in Queues : Moves(q, q)
              \/ Asks \/ Answered
<1>1. ASSUME NEW home, Enqueue(home) PROVE overruns = 0
  BY <1>1 DEF Enqueue
<1>2. ASSUME NEW s \in Slots, Moves(s, QueueOf(s)), Works(s, QueueOf(s))
      PROVE  overruns = 0 /\ s \in Queues /\ Moves(s, s)
  <2>1. overruns = 0 /\ s \in Queues
    BY <1>2, FirstWorks
  <2>2. QueueOf(s) = s
    BY <2>1, SlotKinds
  <2> QED
    BY <1>2, <2>1, <2>2
<1>3. ASSUME Asks \/ Answered PROVE overruns = 0
  BY <1>3 DEF Asks, Answered
<1> QED
  BY <1>1, <1>2, <1>3, PlanKinds, AdminPlans

-----------------------------------------------------------------------------
(* Every copy has a recipient in the same queue, the one it was accepted   *)
(* for.                                                                    *)

At(m, h) == \A r \in Rcpts : m.rcpts[r].queue = h[r]

HomedAt(h) ==
    /\ msg # NoMsg => At(msg, h)
    /\ \A s \in Slots : Working(s) => At(worker[s].view, h)
    /\ admin.op # "none" => At(admin.view, h)

Homed == \E h : HomedAt(h)

(* Before the message is accepted there is nothing. *)
LEMMA Unborn ==
    ASSUME Base, NotShared, ~accepted
    PROVE  /\ msg = NoMsg /\ edits = 0 /\ admin.op = "none"
           /\ \A s \in Slots : ~Working(s)
BY DEF Base, CopiesReal, NotShared, NoRequest, Working

LEMMA EnqueuePlans ==
    ASSUME Base, NEW home \in HomeQueues, Enqueue(home)
    PROVE  /\ ~accepted /\ UNCHANGED <<worker, admin, edits, misread>>
           /\ home \in [Rcpts -> Queues] /\ now \in 0..MaxNow
           /\ msg' = NewMessage(home) /\ msg' \in Message /\ events' = NextEvents(msg')
<1>1. home \in [Rcpts -> Queues] /\ now \in 0..MaxNow
  BY SpoolAssumptions DEF Base, TypeOK
<1>2. /\ ~accepted /\ UNCHANGED <<worker, admin, edits, misread>>
      /\ msg' = NewMessage(home) /\ events' = NextEvents(NewMessage(home))
  BY DEF Enqueue
<1> QED
  BY <1>1, <1>2, NewMessageIs

LEMMA TurnsApart ==
    ASSUME NEW s \in Slots, NEW pc, NEW v, NEW multi, Turns(s, pc, v, multi)
    PROVE  \A p \in Slots \ {s} : worker'[p] = worker[p] /\ (Working(p)' <=> Working(p))
BY DEF Turns, Working

LEMMA HomedStep ==
    ASSUME FixedQueues, Base, NotShared, Homed, [Next]_vars
    PROVE  Homed'
<1>1. PICK h : HomedAt(h)
  BY DEF Homed
<1>2. CASE \E home \in HomeQueues : Enqueue(home)
  <2>1. PICK home \in HomeQueues : Enqueue(home)
    BY <1>2
  <2>2. /\ UNCHANGED <<worker, admin>> /\ home \in [Rcpts -> Queues] /\ now \in 0..MaxNow
        /\ msg' = NewMessage(home) /\ ~accepted
    BY <2>1, EnqueuePlans
  <2>3. At(msg', home)
    BY <2>2, NewMessageIs DEF At
  <2>4. admin.op = "none" /\ \A s \in Slots : ~Working(s)
    BY <2>2, Unborn
  <2>5. HomedAt(home)'
    BY <2>2, <2>3, <2>4 DEF HomedAt, Working
  <2> QED
    BY <2>5 DEF Homed
<1>3. CASE Untouched /\ UNCHANGED worker
  BY <1>1, <1>3 DEF Homed, HomedAt, Untouched, Working
<1>4. ASSUME NEW s \in Slots, NEW q, Starts(s, q) \/ Goes(s) PROVE HomedAt(h)'
  <2>1. PICK v, pc, multi : v \in Message /\ Turns(s, pc, v, multi) /\ At(v, h)
    <3>1. CASE Starts(s, q)
      BY <1>1, <3>1 DEF Starts, HomedAt, At, Ages
    <3>2. CASE Goes(s)
      BY <1>1, <3>2 DEF Goes, HomedAt, At, Ages
    <3> QED
      BY <1>4, <3>1, <3>2
  <2>2. UNCHANGED <<msg, admin>>
    BY <1>4 DEF Starts, Goes, Untouched
  <2>3. /\ worker'[s].view = v
        /\ \A p \in Slots \ {s} : worker'[p] = worker[p] /\ (Working(p)' <=> Working(p))
    BY <2>1, TurnsApart DEF Turns
  <2>4. \A p \in Slots : Working(p)' => At(worker'[p].view, h)
    BY <1>1, <2>1, <2>3 DEF HomedAt
  <2> QED
    BY <1>1, <2>2, <2>4 DEF HomedAt
<1>5. ASSUME NEW s \in Slots, NEW q, Plans(s, q) \/ Leaves(s) PROVE HomedAt(h)'
  <2>1. PICK pc : pc \in {"idle", "gone"} /\ Turns(s, pc, NoMsg, FALSE)
    BY <1>5 DEF Plans, Saves, Leaves
  <2>2. \A p \in Slots : Working(p)' => Working(p) /\ worker'[p] = worker[p]
    BY <2>1, TurnsApart DEF Turns, Working
  <2>3. UNCHANGED admin
    BY <1>5 DEF Plans, Saves, Leaves
  <2>4. msg' # NoMsg => At(msg', h)
    <3>1. CASE Leaves(s)
      BY <1>1, <3>1 DEF Leaves, HomedAt
    <3>2. CASE Saves(s, q)
      <4> SUFFICES ASSUME NEW r \in Rcpts PROVE msg'.rcpts[r].queue = h[r]
        BY DEF At
      <4>1. /\ msg'.rcpts[r] = Copy(s, r) \/ msg'.rcpts[r] = msg.rcpts[r]
            /\ msg'.rcpts[r] # Copy(s, r) => msg # NoMsg
        BY <3>2 DEF Saves
      <4>2. Copy(s, r).queue = h[r]
        BY <1>1, <3>2 DEF Saves, HomedAt, At, Working, Copy
      <4>3. msg # NoMsg => msg.rcpts[r].queue = h[r]
        BY <1>1 DEF HomedAt, At
      <4> QED
        BY <4>1, <4>2, <4>3
    <3> QED
      BY <1>5, <3>1, <3>2 DEF Plans
  <2> QED
    BY <1>1, <2>2, <2>3, <2>4 DEF HomedAt
<1>6. CASE Asks
  <2>1. \A s \in Slots : Working(s)' <=> Working(s)
    BY <1>6 DEF Asks, Working
  <2> QED
    BY <1>1, <1>6, <2>1 DEF Asks, Homed, HomedAt
<1>7. CASE Answered
  <2>1. /\ \A s \in Slots : Working(s)' <=> Working(s)
        /\ UNCHANGED worker /\ admin'.op = "none" /\ admin.op # "none"
    BY <1>7 DEF Answered, Working, NoRequest
  <2>2. msg' # NoMsg => At(msg', h)
    <3>1. CASE UNCHANGED msg \/ msg' = NoMsg
      BY <1>1, <3>1 DEF HomedAt
    <3>2. ASSUME NEW rs \in SUBSET Rcpts, NEW m, Replans(rs, m) PROVE At(msg', h)
      BY <1>1, <2>1, <3>2 DEF Replans, HomedAt, At
    <3> QED
      BY <1>7, <3>1, <3>2 DEF Answered
  <2>3. HomedAt(h)'
    BY <1>1, <2>1, <2>2 DEF HomedAt
  <2> QED
    BY <2>3 DEF Homed
<1>8. ASSUME NEW s \in Slots, NEW q, Moves(s, q) PROVE Homed'
  BY <1>4, <1>5, <1>8 DEF Homed, Moves
<1> QED
  BY <1>2, <1>3, <1>6, <1>7, <1>8, Kinds

-----------------------------------------------------------------------------
(* Until an edit is written, what may still be written is never older than *)
(* what the store has or the administrator has read, and two workers that  *)
(* would write a recipient are both done with it.  That is again the       *)
(* lock's doing.                                                           *)

Undisturbed == edits = 0 \/ (edits = 1 /\ admin.op # "none")

WorkerOrdered(q, r) ==
    Writes(q, r) =>
        /\ msg # NoMsg => Older(msg.rcpts[r], Copy(q, r))
        /\ admin.op # "none" => Older(admin.view.rcpts[r], Copy(q, r))
        /\ ~Own(q, r) => Final(Copy(q, r)) /\ (msg # NoMsg => Final(msg.rcpts[r]))

Yields(q, p, r) == Writes(q, r) /\ Writes(p, r) => Final(Copy(q, r))

Ordered(r) ==
    /\ \A q \in Queues : Working(q) => WorkerOrdered(q, r)
    /\ \A q \in Queues : \A p \in Queues \ {q} : Working(q) /\ Working(p) => Yields(q, p, r)
    /\ admin.op # "none" /\ msg # NoMsg => Older(admin.view.rcpts[r], msg.rcpts[r])

LEMMA FinalStays ==
    ASSUME NEW x, NEW y, Older(x, y), Final(x)
    PROVE  Final(y)
BY DEF Older, Final

LEMMA FinalOlder ==
    ASSUME NEW x, NEW y, Final(y)
    PROVE  Older(x, y)
BY DEF Older, Final

LEMMA OrderedStarts ==
    ASSUME Base, NEW h, HomedAt(h), NEW r \in Rcpts, Ordered(r), NEW q \in Queues, Starts(q, q)
    PROVE  Ordered(r)'
<1>1. PICK v, pc : v \in Message /\ Ages(msg, v) /\ Turns(q, pc, v, IsMultiQueue(msg, q))
  BY DEF Starts
<1> DEFINE s == msg.rcpts[r]
           y == v.rcpts[r]
<1>2. /\ msg # NoMsg /\ msg \in Message /\ UNCHANGED <<msg, admin>>
      /\ admin.op # "none" => admin.view \in Message
  BY CopyTypes DEF Starts, Untouched
<1>3. /\ s \in Recipient /\ y \in Recipient /\ Older(s, y) /\ y.queue = s.queue /\ s.queue = h[r]
      /\ admin.op # "none" => admin.view.rcpts[r] \in Recipient /\ Older(admin.view.rcpts[r], s)
  BY <1>1, <1>2, MessageParts DEF Ages, HomedAt, At, Ordered
<1>4. /\ worker'[q].view = v /\ worker'[q].multi = IsMultiQueue(msg, q)
      /\ \A p \in Queues \ {q} : worker'[p] = worker[p] /\ (Working(p)' <=> Working(p))
  BY <1>1, TurnsApart, SlotKinds DEF Turns
<1>5. /\ Copy(q, r)' = y /\ (Own(q, r)' <=> s.queue = q)
      /\ Writes(q, r)' <=> s.queue = q \/ ~IsMultiQueue(msg, q)
  BY <1>3, <1>4 DEF Copy, Own, Writes
<1>6. ~IsMultiQueue(msg, q) /\ s.queue # q => Final(s)
  BY DEF IsMultiQueue, Final
<1>7. \A p \in Queues \ {q} : /\ Copy(p, r)' = Copy(p, r) /\ (Own(p, r)' <=> Own(p, r))
                              /\ Writes(p, r)' <=> Writes(p, r)
  BY <1>4 DEF Copy, Own, Writes
<1>8. \A p \in Queues : Working(p) => Copy(p, r).queue = h[r]
  BY SlotKinds DEF HomedAt, At, Copy
<1> HIDE DEF s, y
<1>9. Final(s) => Final(y)
  BY <1>3, FinalStays
<1>10. WorkerOrdered(q, r)'
  <2>1. admin.op # "none" => Older(admin.view.rcpts[r], y)
    BY <1>3, OlderTrans
  <2> QED
    BY <1>2, <1>3, <1>5, <1>6, <1>9, <2>1 DEF WorkerOrdered, s
<1>11. ASSUME NEW p \in Queues \ {q}, Working(p)
       PROVE  WorkerOrdered(p, r)' /\ Yields(q, p, r)' /\ Yields(p, q, r)'
  <2>1. WorkerOrdered(p, r)
    BY <1>11 DEF Ordered
  <2>2. WorkerOrdered(p, r)'
    BY <1>2, <1>7, <2>1 DEF WorkerOrdered
  <2>3. ASSUME Writes(p, r), Writes(q, r)' PROVE Final(y) /\ Final(Copy(p, r))
    <3>1. CASE Own(p, r)
      <4>1. s.queue # q
        BY <1>3, <1>8, <1>11, <3>1 DEF Own
      <4>2. Final(s)
        BY <1>5, <1>6, <2>3, <4>1
      <4>3. Older(s, Copy(p, r))
        BY <1>2, <2>1, <2>3 DEF WorkerOrdered, s
      <4> QED
        BY <1>9, <4>2, <4>3, FinalStays
    <3>2. CASE ~Own(p, r)
      BY <1>2, <1>9, <2>1, <2>3, <3>2 DEF WorkerOrdered, s
    <3> QED
      BY <3>1, <3>2
  <2> QED
    BY <1>5, <1>7, <2>2, <2>3 DEF Yields
<1>12. ASSUME NEW p \in Queues \ {q}, NEW o \in Queues \ {p, q}, Working(p), Working(o)
       PROVE  Yields(p, o, r)'
  <2>1. Yields(p, o, r)
    BY <1>12 DEF Ordered
  <2> QED
    BY <1>7, <2>1 DEF Yields
<1>13. \A p \in Queues : Working(p)' => WorkerOrdered(p, r)'
  BY <1>4, <1>10, <1>11
<1>14. \A p \in Queues : \A o \in Queues \ {p} : Working(p)' /\ Working(o)' => Yields(p, o, r)'
  BY <1>4, <1>11, <1>12
<1>15. admin'.op # "none" /\ msg' # NoMsg => Older(admin'.view.rcpts[r], msg'.rcpts[r])
  BY <1>2 DEF Ordered
<1> QED
  BY <1>13, <1>14, <1>15 DEF Ordered

LEMMA OrderedGoes ==
    ASSUME Base, NEW r \in Rcpts, Ordered(r), NEW q \in Queues, Goes(q)
    PROVE  Ordered(r)'
<1>1. PICK v, pc : v \in Message /\ Ages(worker[q].view, v) /\ Turns(q, pc, v, worker[q].multi)
  BY DEF Goes
<1> DEFINE x == Copy(q, r)
           y == v.rcpts[r]
<1>2. /\ Working(q) /\ worker[q].view \in Message /\ UNCHANGED <<msg, admin>>
      /\ msg # NoMsg => msg \in Message
      /\ admin.op # "none" => admin.view \in Message
  BY CopyTypes, SlotKinds DEF Goes, Untouched
<1>3. /\ x \in Recipient /\ y \in Recipient /\ Older(x, y) /\ y.queue = x.queue
      /\ msg # NoMsg => msg.rcpts[r] \in Recipient
      /\ admin.op # "none" => admin.view.rcpts[r] \in Recipient
  BY <1>1, <1>2, MessageParts DEF Ages, Copy
<1>4. /\ worker'[q].view = v /\ worker'[q].multi = worker[q].multi
      /\ \A p \in Queues \ {q} : worker'[p] = worker[p] /\ (Working(p)' <=> Working(p))
  BY <1>1, TurnsApart, SlotKinds DEF Turns
<1>5. \A p \in Queues : (Own(p, r)' <=> Own(p, r)) /\ (Writes(p, r)' <=> Writes(p, r))
  BY <1>3, <1>4 DEF Copy, Own, Writes
<1>6. Copy(q, r)' = y /\ \A p \in Queues \ {q} : Copy(p, r)' = Copy(p, r)
  BY <1>4 DEF Copy
<1>7. WorkerOrdered(q, r)
  BY <1>2 DEF Ordered
<1> HIDE DEF x, y
<1>8. Final(x) => Final(y)
  BY <1>3, FinalStays
<1>9. WorkerOrdered(q, r)'
  <2> SUFFICES ASSUME Writes(q, r)
               PROVE  /\ msg # NoMsg => Older(msg.rcpts[r], y)
                      /\ admin.op # "none" => Older(admin.view.rcpts[r], y)
                      /\ ~Own(q, r) => Final(y) /\ (msg # NoMsg => Final(msg.rcpts[r]))
    BY <1>2, <1>5, <1>6 DEF WorkerOrdered
  <2>1. msg # NoMsg => Older(msg.rcpts[r], y)
    BY <1>3, <1>7, OlderTrans DEF WorkerOrdered, x
  <2>2. admin.op # "none" => Older(admin.view.rcpts[r], y)
    BY <1>3, <1>7, OlderTrans DEF WorkerOrdered, x
  <2> QED
    BY <1>7, <1>8, <2>1, <2>2 DEF WorkerOrdered, x
<1>10. ASSUME NEW p \in Queues \ {q}, Working(p) PROVE WorkerOrdered(p, r)'
  <2>1. WorkerOrdered(p, r)
    BY <1>10 DEF Ordered
  <2> QED
    BY <1>2, <1>5, <1>6, <2>1 DEF WorkerOrdered
<1>11. ASSUME NEW p \in Queues, NEW o \in Queues \ {p}, Working(p), Working(o) PROVE Yields(p, o, r)'
  <2>1. Yields(p, o, r)
    BY <1>11 DEF Ordered
  <2> QED
    BY <1>5, <1>6, <1>8, <2>1 DEF Yields, x
<1>12. \A p \in Queues : Working(p)' => WorkerOrdered(p, r)'
  BY <1>4, <1>9, <1>10
<1>13. \A p \in Queues : \A o \in Queues \ {p} : Working(p)' /\ Working(o)' => Yields(p, o, r)'
  BY <1>2, <1>4, <1>11
<1>14. admin'.op # "none" /\ msg' # NoMsg => Older(admin'.view.rcpts[r], msg'.rcpts[r])
  BY <1>2 DEF Ordered
<1> QED
  BY <1>12, <1>13, <1>14 DEF Ordered

LEMMA OrderedLeaves ==
    ASSUME NEW r \in Rcpts, Ordered(r), NEW q \in Queues, Plans(q, q) \/ Leaves(q)
    PROVE  Ordered(r)'
<1>1. PICK pc : pc \in {"idle", "gone"} /\ Turns(q, pc, NoMsg, FALSE)
  BY DEF Plans, Saves, Leaves
<1>2. \A p \in Queues : Working(p)' => p # q /\ Working(p) /\ worker'[p] = worker[p]
  BY <1>1, TurnsApart, SlotKinds DEF Turns, Working
<1>3. \A p \in Queues : Working(p)' =>
          /\ Copy(p, r)' = Copy(p, r) /\ (Own(p, r)' <=> Own(p, r)) /\ (Writes(p, r)' <=> Writes(p, r))
  BY <1>2 DEF Copy, Own, Writes
<1>4. UNCHANGED admin
  BY DEF Plans, Saves, Leaves
<1>5. CASE Leaves(q)
  <2>1. msg' = msg \/ msg' = NoMsg
    BY <1>5 DEF Leaves
  <2> QED
    BY <1>2, <1>3, <1>4, <2>1 DEF Ordered, WorkerOrdered, Yields
<1>6. CASE Saves(q, q)
  <2>1. /\ Working(q) /\ (~Writes(q, r) => msg # NoMsg)
        /\ msg'.rcpts[r] = IF Writes(q, r) THEN Copy(q, r) ELSE msg.rcpts[r]
    BY <1>6 DEF Saves, Working, Writes, Own
  <2>2. WorkerOrdered(q, r)
    BY <2>1 DEF Ordered
  <2>3. ASSUME NEW p \in Queues, Working(p)' PROVE WorkerOrdered(p, r)'
    <3>1. WorkerOrdered(p, r) /\ Yields(p, q, r) /\ Yields(q, p, r)
      BY <1>2, <2>1, <2>3 DEF Ordered
    <3>2. CASE Writes(q, r)
      <4>1. Writes(p, r) => Final(Copy(p, r)) /\ Final(msg'.rcpts[r])
        BY <2>1, <3>1, <3>2 DEF Yields
      <4> QED
        BY <1>3, <1>4, <2>3, <3>1, <4>1, FinalOlder DEF WorkerOrdered
    <3>3. CASE ~Writes(q, r)
      BY <1>3, <1>4, <2>1, <2>3, <3>1, <3>3 DEF WorkerOrdered
    <3> QED
      BY <3>2, <3>3
  <2>4. admin'.op # "none" => Older(admin'.view.rcpts[r], msg'.rcpts[r])
    BY <1>4, <2>1, <2>2 DEF Ordered, WorkerOrdered
  <2>5. \A p \in Queues : \A o \in Queues \ {p} : Working(p)' /\ Working(o)' => Yields(p, o, r)'
    BY <1>2, <1>3 DEF Ordered, Yields
  <2> QED
    BY <2>3, <2>4, <2>5 DEF Ordered
<1> QED
  BY <1>5, <1>6 DEF Plans

LEMMA OrderedStep ==
    ASSUME FixedQueues, Base, NotShared, Homed, Undisturbed => \A r \in Rcpts : Ordered(r), [Next]_vars,
           overruns' = 0
    PROVE  Undisturbed' => \A r \in Rcpts : Ordered(r)'
<1>1. PICK h : HomedAt(h)
  BY DEF Homed
<1>2. edits \in Nat /\ (edits = 0 => admin.op = "none")
  BY Numbers DEF Base, TypeOK, CopiesReal, NoRequest
<1> SUFFICES ASSUME Undisturbed', NEW r \in Rcpts PROVE Ordered(r)'
  OBVIOUS
<1>3. CASE \E home \in HomeQueues : Enqueue(home)
  <2>1. UNCHANGED <<worker, admin>> /\ ~accepted
    BY <1>3, EnqueuePlans
  <2>2. admin'.op = "none" /\ \A q \in Queues : ~Working(q)'
    BY <2>1, Unborn, SlotKinds DEF Working
  <2> QED
    BY <2>2 DEF Ordered
<1>4. CASE UNCHANGED <<admin, edits>>
  <2>1. Ordered(r)
    BY <1>4 DEF Undisturbed
  <2>2. CASE Untouched /\ UNCHANGED worker
    BY <2>1, <2>2 DEF Untouched, Ordered, WorkerOrdered, Yields, Working, Copy, Own, Writes
  <2>3. ASSUME NEW q \in Queues, Moves(q, q) PROVE Ordered(r)'
    BY <1>1, <2>1, <2>3, OrderedStarts, OrderedGoes, OrderedLeaves DEF Moves
  <2>4. ~Asks /\ ~Answered
    BY <1>2, <1>4 DEF Asks, Answered, NoRequest
  <2> QED
    BY <1>3, <2>2, <2>3, <2>4, FirstKinds
<1>5. CASE Asks
  <2>1. edits = 0 /\ UNCHANGED <<msg, worker>> /\ admin.op = "none" /\ admin'.view = msg /\ msg # NoMsg
    BY <1>2, <1>5 DEF Asks, Undisturbed
  <2>2. Ordered(r)
    BY <2>1 DEF Undisturbed
  <2>3. msg.rcpts[r] \in Recipient
    BY <2>1, CopyTypes, MessageParts
  <2>4. Older(msg.rcpts[r], msg.rcpts[r])
    BY <2>3, OlderSelf
  <2>5. \A q \in Queues : /\ Working(q)' <=> Working(q)
                          /\ Copy(q, r)' = Copy(q, r) /\ (Own(q, r)' <=> Own(q, r))
                          /\ Writes(q, r)' <=> Writes(q, r)
    BY <2>1 DEF Working, Copy, Own, Writes
  <2>6. \A q \in Queues : Working(q)' => WorkerOrdered(q, r)'
    BY <2>1, <2>2, <2>5 DEF Ordered, WorkerOrdered
  <2>7. \A q \in Queues : \A p \in Queues \ {q} : Working(q)' /\ Working(p)' => Yields(q, p, r)'
    BY <2>2, <2>5 DEF Ordered, Yields
  <2> QED
    BY <2>1, <2>4, <2>6, <2>7 DEF Ordered
<1>6. ~Answered
  BY <1>2 DEF Answered, Undisturbed, NoRequest
<1>7. Untouched \/ (\E q \in Queues : Moves(q, q)) => UNCHANGED <<admin, edits>>
  BY DEF Moves, Untouched, Starts, Goes, Plans, Saves, Leaves
<1> QED
  BY <1>3, <1>4, <1>5, <1>6, <1>7, FirstKinds

-----------------------------------------------------------------------------
(* The events cover the recipients.                                        *)

Covered(rc, E) == \E e \in E : e.queue = rc.queue /\ e.due <= NextTime(rc)

Planned ==
    msg # NoMsg /\ ~misread =>
        \A r \in Rcpts : Pending(msg.rcpts[r]) => Covered(msg.rcpts[r], events)

Times(rc) ==
    LET e == Expiry[rc.queue] IN {rc.due, rc.notify} \cup IF e.kind = "ttl" THEN {e.n} ELSE {}

LEMMA NextTimeIs ==
    ASSUME NEW rc \in Recipient
    PROVE  /\ NextTime(rc) \in Times(rc) /\ NextTime(rc) \in Nat
           /\ \A t \in Times(rc) : t \in Nat /\ NextTime(rc) <= t
<1>1. rc.due \in Nat /\ rc.notify \in Nat /\ rc.queue \in Queues
  BY Numbers DEF Recipient
<1>2. Expiry[rc.queue].n \in Nat
  BY <1>1, SpoolAssumptions
<1>3. Times(rc) \subseteq Nat /\ Times(rc) # {}
  BY <1>1, <1>2 DEF Times
<1>4. NextTime(rc) = Min(Times(rc))
  BY DEF NextTime, Times
<1> QED
  BY <1>3, <1>4, MinOfNats

LEMMA NextTimeMonotone ==
    ASSUME NEW x \in Recipient, NEW y \in Recipient, x.queue = y.queue,
           x.due <= y.due, x.notify <= y.notify
    PROVE  NextTime(x) <= NextTime(y)
<1>1. \A t \in Times(y) : \E s \in Times(x) : s <= t
  <2> TAKE t \in Times(y)
  <2>1. t \in Nat
    BY NextTimeIs
  <2>2. CASE t = y.due
    BY <2>2 DEF Times
  <2>3. CASE t = y.notify
    BY <2>3 DEF Times
  <2>4. CASE t # y.due /\ t # y.notify
    BY <2>1, <2>4 DEF Times
  <2> QED
    BY <2>2, <2>3, <2>4
<1>2. PICK s \in Times(x) : s <= NextTime(y)
  BY <1>1, NextTimeIs
<1>3. s \in Nat /\ NextTime(x) <= s /\ NextTime(x) \in Nat /\ NextTime(y) \in Nat
  BY NextTimeIs
<1> QED
  BY <1>2, <1>3

(* next_events has an event for every pending recipient.                   *)
LEMMA EventsCover ==
    ASSUME NEW m \in Message, NEW r \in Rcpts, Pending(m.rcpts[r])
    PROVE  Covered(m.rcpts[r], NextEvents(m))
<1> DEFINE q == m.rcpts[r].queue
           T == {NextTime(m.rcpts[s]) : s \in PendingIn(m, q)}
           e == [queue |-> q, due |-> Min(T)]
<1>1. \A s \in Rcpts : m.rcpts[s] \in Recipient
  BY MessageParts
<1>2. q \in Queues /\ r \in PendingIn(m, q)
  BY <1>1 DEF PendingIn, Recipient
<1>3. e \in NextEvents(m)
  BY <1>2 DEF NextEvents
<1>4. \A s \in PendingIn(m, q) : NextTime(m.rcpts[s]) \in Nat
  BY <1>1, NextTimeIs DEF PendingIn
<1>5. T \subseteq Nat /\ NextTime(m.rcpts[r]) \in T
  BY <1>2, <1>4
<1> HIDE DEF T
<1>6. Min(T) <= NextTime(m.rcpts[r])
  BY <1>5, MinOfNats
<1>7. e.queue = q /\ e.due = Min(T)
  OBVIOUS
<1> QED
  BY <1>3, <1>6, <1>7, Zenon DEF Covered

LEMMA CoveredOlder ==
    ASSUME NEW x \in Recipient, NEW y \in Recipient, x.queue = y.queue, Older(x, y), Pending(y),
           NEW E, E \subseteq Event, Covered(x, E)
    PROVE  Covered(y, E)
<1>1. PICK e \in E : e.queue = x.queue /\ e.due <= NextTime(x)
  BY DEF Covered
<1>2. NextTime(x) <= NextTime(y)
  BY NextTimeMonotone DEF Older
<1>3. NextTime(x) \in Nat /\ NextTime(y) \in Nat /\ e.due \in Nat
  BY NextTimeIs, Numbers DEF Event
<1>4. e.due <= NextTime(y)
  BY <1>1, <1>2, <1>3
<1> QED
  BY <1>1, <1>4 DEF Covered

LEMMA PlannedSave ==
    ASSUME Base, NEW h, HomedAt(h), Planned, NEW s \in Slots, NEW q, Plans(s, q)
    PROVE  Planned'
<1> SUFFICES ASSUME ~misread', NEW r \in Rcpts, Pending(msg'.rcpts[r])
             PROVE  Covered(msg'.rcpts[r], events')
  BY DEF Planned, Covered
<1> DEFINE writes == Copy(s, r).queue = q \/ ~worker[s].multi
<1>1. /\ Working(s) /\ ~misread /\ (worker[s].multi => msg # NoMsg)
      /\ msg'.rcpts[r] = IF writes THEN Copy(s, r) ELSE msg.rcpts[r]
  BY DEF Plans, Saves, Working, history
<1>2. CASE writes
  <2>1. PICK m \in Message : m.rcpts = worker[s].view.rcpts /\ NextEvents(m) \subseteq events'
    BY DEF Plans
  <2>2. msg'.rcpts[r] = m.rcpts[r]
    BY <1>1, <1>2, <2>1 DEF Copy
  <2>3. Covered(m.rcpts[r], NextEvents(m))
    BY <2>2, EventsCover
  <2> QED
    BY <2>1, <2>2, <2>3 DEF Covered
<1>3. CASE ~writes
  <2>1. msg # NoMsg /\ msg'.rcpts[r] = msg.rcpts[r] /\ Copy(s, r).queue # q
    BY <1>1, <1>3
  <2>2. msg.rcpts[r].queue = Copy(s, r).queue
    BY <1>1, <2>1 DEF HomedAt, At, Copy
  <2>3. PICK e \in events : e.queue = msg.rcpts[r].queue /\ e.due <= NextTime(msg.rcpts[r])
    BY <1>1, <2>1 DEF Planned, Covered
  <2>4. e \in events'
    BY <2>1, <2>2, <2>3 DEF Plans
  <2> QED
    BY <2>1, <2>3, <2>4 DEF Covered
<1> QED
  BY <1>2, <1>3

LEMMA PlannedAnswer ==
    ASSUME Base, Base', NEW h, HomedAt(h), Planned, Answered, edits <= 1,
           Undisturbed => \A r \in Rcpts : Ordered(r)
    PROVE  Planned'
<1>1. CASE UNCHANGED <<msg, events>>
  BY <1>1 DEF Answered, Planned
<1>2. CASE msg' = NoMsg
  BY <1>2 DEF Planned
<1>3. ASSUME NEW rs \in SUBSET Rcpts, NEW m, Replans(rs, m) PROVE Planned'
  <2> SUFFICES ASSUME ~misread', NEW r \in Rcpts, Pending(msg'.rcpts[r])
               PROVE  Covered(msg'.rcpts[r], events')
    BY DEF Planned
  <2>1. /\ m \in Message /\ NextEvents(m) \subseteq events' /\ msg # NoMsg
        /\ r \in rs => msg'.rcpts[r] = m.rcpts[r]
        /\ r \notin rs => m.rcpts[r] = admin.view.rcpts[r] /\ msg'.rcpts[r] = msg.rcpts[r]
    BY <1>3 DEF Replans
  <2>2. Pending(m.rcpts[r]) => Covered(m.rcpts[r], events')
    BY <2>1, EventsCover DEF Covered
  <2>3. CASE r \in rs
    BY <2>1, <2>2, <2>3
  <2>4. CASE r \notin rs
    <3>1. edits \in Nat /\ (edits = 0 => admin.op = "none") /\ admin.op # "none"
      BY Numbers DEF Base, TypeOK, CopiesReal, NoRequest, Answered
    <3>2. Undisturbed
      BY <3>1 DEF Undisturbed
    <3>3. Older(admin.view.rcpts[r], msg.rcpts[r])
      BY <2>1, <3>1, <3>2 DEF Ordered
    <3>4. admin.view.rcpts[r] \in Recipient /\ msg.rcpts[r] \in Recipient
      BY <2>1, <3>1, CopyTypes, MessageParts
    <3>5. admin.view.rcpts[r].queue = msg.rcpts[r].queue
      BY <2>1, <3>1 DEF HomedAt, At
    <3>6. Pending(msg.rcpts[r]) /\ Pending(admin.view.rcpts[r])
      BY <2>1, <2>4, <3>3 DEF Older
    <3>7. events' \subseteq Event
      BY DEF Base, TypeOK
    <3>8. Covered(admin.view.rcpts[r], events')
      BY <2>1, <2>2, <2>4, <3>6
    <3>9. Covered(msg.rcpts[r], events')
      BY <3>3, <3>4, <3>5, <3>6, <3>7, <3>8, CoveredOlder
    <3> QED
      BY <2>1, <2>4, <3>9
  <2> QED
    BY <2>3, <2>4
<1> QED
  BY <1>1, <1>2, <1>3 DEF Answered

(* No administrator yet, or one request and no delivery that outlasted its *)
(* lock.                                                                   *)
Mild == edits = 0 \/ (edits = 1 /\ overruns = 0)

LEMMA PlannedStep ==
    ASSUME FixedQueues, Base, Base', NotShared, Homed, Mild => Planned,
           overruns = 0 /\ Undisturbed => \A r \in Rcpts : Ordered(r), [Next]_vars, Mild'
    PROVE  Planned'
<1>1. PICK h : HomedAt(h)
  BY DEF Homed
<1>2. edits \in Nat /\ (edits = 0 => admin.op = "none")
  BY Numbers DEF Base, TypeOK, CopiesReal, NoRequest
<1>3. overruns' = 0 => overruns = 0
  BY FirstKinds
<1>4. CASE \E home \in HomeQueues : Enqueue(home)
  <2>1. msg' \in Message /\ events' = NextEvents(msg')
    BY <1>4, EnqueuePlans
  <2>2. \A r \in Rcpts : Pending(msg'.rcpts[r]) => Covered(msg'.rcpts[r], events')
    BY <2>1, EventsCover
  <2> QED
    BY <2>2 DEF Planned
<1>5. CASE UNCHANGED edits
  <2>1. Planned /\ Mild
    BY <1>3, <1>5 DEF Mild
  <2>2. CASE Untouched
    BY <2>1, <2>2 DEF Untouched, Planned
  <2>3. ASSUME NEW s \in Slots, NEW q, Plans(s, q) PROVE Planned'
    BY <1>1, <2>1, <2>3, PlannedSave
  <2>4. ASSUME NEW s, Leaves(s) PROVE Planned'
    <3>1. CASE msg' # NoMsg /\ ~misread'
      <4>1. msg' = msg /\ events' = events /\ ~misread /\ msg # NoMsg
        BY <2>4, <3>1 DEF Leaves
      <4> QED
        BY <2>1, <4>1 DEF Planned
    <3> QED
      BY <3>1 DEF Planned
  <2>5. CASE Answered
    <3>1. edits = 1 /\ overruns = 0 /\ Undisturbed
      BY <1>2, <2>1, <2>5 DEF Answered, Mild, Undisturbed
    <3> QED
      BY <1>1, <2>1, <2>5, <3>1, PlannedAnswer
  <2>6. ~Asks
    BY <1>2, <1>5 DEF Asks
  <2> QED
    BY <1>4, <2>2, <2>3, <2>4, <2>5, <2>6, Kinds DEF Moves, Starts, Goes
<1>6. CASE Asks
  <2>1. edits = 0 /\ UNCHANGED <<msg, events, misread>>
    BY <1>2, <1>6 DEF Asks, Mild
  <2>2. Planned
    BY <2>1 DEF Mild
  <2> QED
    BY <2>1, <2>2 DEF Planned
<1>7. \/ Untouched \/ Answered
      \/ \E s \in Slots : Moves(s, QueueOf(s))
      => UNCHANGED edits
  BY DEF Moves, Untouched, Answered, Starts, Goes, Plans, Saves, Leaves
<1> QED
  BY <1>4, <1>5, <1>6, <1>7, Kinds

-----------------------------------------------------------------------------
(* The inductive invariant of the spool: no stored message is without an   *)
(* event unless a worker that took it for gone cleared it, and queue,      *)
(* try_deliver, save_changes and the administrator keep what the workers   *)
(* know of the message consistent with it and with each other.             *)
THEOREM SpoolConsistent == Spec => []SpoolInv
<1>1. Base /\ (OutcomesKnown /\ Accounted) /\ (NotShared /\ QuotaConserved /\ ReportedOnce)
          /\ (CopiesAgree /\ DeliveredOnce) => SpoolInv
  BY DEF Base, SpoolInv
<1> QED
  BY <1>1, BaseHolds, KnownHolds, SolitaryHolds, SharedHolds, PTL

(* No mail is lost: when the message leaves the queue each recipient got   *)
(* it, or the sender was told of the failure, or the write of the notice   *)
(* failed; whatever the queues, the crashes and the lost writes.           *)
THEOREM MailAccounted == Spec => []Accounted
BY KnownHolds, PTL

(* While the recipients are in one queue, nobody edits the message and no  *)
(* delivery meets a second worker after LOCK_EXPIRY, the quota counters    *)
(* are what the message has reserved, so remove and save_changes give      *)
(* every reservation back exactly once, across crashes, retries and locks  *)
(* that run out with nobody or with a worker under them.                   *)
THEOREM QuotaExact == Spec => []QuotaConserved
BY SolitaryHolds, PTL

(* RCPT_DSN_SENT works: as long as the recipients are in one queue and no  *)
(* worker starts beside one that outlasted its lock, the sender gets at    *)
(* most one failure notice about each, and one more for each crash or lost *)
(* write.                                                                  *)
THEOREM NoticeOnce == Spec => []ReportedOnce
BY SolitaryHolds, PTL

(* No recipient gets the message twice but for a crash, a lost write or a  *)
(* delivery that outlasts its lock and meets a second worker of its queue, *)
(* also when workers of several queues write it at the same time: the      *)
(* merge of save_changes never makes a delivered recipient pending again.  *)
THEOREM DeliveryOnce == Spec => []DeliveredOnce
BY SharedHolds, PTL

(* RcptScheduled for any recipients, queues, times and faults: where the   *)
(* schedule expression keeps a recipient in its queue, no interleaving of  *)
(* the workers' saves leaves a pending recipient without an event of its   *)
(* queue that is due in time, even when deliveries outlast their locks;    *)
(* and with the locks kept, none with one request of queued_message_set    *)
(* does.                                                                   *)
THEOREM RecipientsScheduled ==
    ASSUME FixedQueues
    PROVE  Spec => [](Mild => RcptScheduled)
<1> DEFINE Inv == /\ Homed
                  /\ overruns = 0 /\ Undisturbed => \A r \in Rcpts : Ordered(r)
                  /\ Mild => Planned
<1>1. Init => Inv
  <2> SUFFICES ASSUME Init PROVE Inv
    OBVIOUS
  <2>1. msg = NoMsg /\ admin.op = "none" /\ \A s \in Slots : ~Working(s)
    BY DEF Init, NoRequest, Idle, Working
  <2> QED
    BY <2>1, SlotKinds DEF Homed, HomedAt, Ordered, Planned
<1>2. Base /\ Base' /\ NotShared /\ Inv /\ [Next]_vars => Inv'
  <2> SUFFICES ASSUME Base, Base', NotShared, Inv, [Next]_vars PROVE Inv'
    OBVIOUS
  <2>1. Homed'
    BY HomedStep
  <2>2. ASSUME overruns' = 0 PROVE Undisturbed' => \A r \in Rcpts : Ordered(r)'
    <3>1. overruns = 0
      BY <2>2, FirstKinds
    <3> QED
      BY <2>2, <3>1, OrderedStep
  <2>3. Mild' => Planned'
    BY PlannedStep
  <2> QED
    BY <2>1, <2>2, <2>3
<1>3. Inv => (Mild => RcptScheduled)
  BY DEF Planned, Covered, RcptScheduled
<1> HIDE DEF Inv
<1> QED
  BY <1>1, <1>2, <1>3, BaseHolds, SolitaryHolds, PTL DEF Spec

=============================================================================
