-------------------------- MODULE PushManagerProofs --------------------------
(***************************************************************************)
(* Router and push manager, for any users, groups, notifications, clients, *)
(* channel capacity, limit of attempts and number of calls and faults.     *)
(* Ind is inductive; PushInv and RouterServes follow from it.  The         *)
(* predicates about the manager are stated for any value m of its state,   *)
(* since a handler is a composition of functions on it.                    *)
(***************************************************************************)
EXTENDS PushManager, FiniteSetTheorems, SequenceTheorems, TLAPS

-----------------------------------------------------------------------------
(* Channels.                                                               *)

(* t is s without its first message. *)
Popped(s, t) ==
    /\ 1 \in DOMAIN s /\ s[1] = Head(s)
    /\ \A i \in DOMAIN s : i \in Nat /\ i >= 1 /\ (i = 1 \/ (i - 1 \in DOMAIN t /\ t[i - 1] = s[i]))
    /\ \A i \in DOMAIN t : i \in Nat /\ i >= 1 /\ i + 1 \in DOMAIN s /\ t[i] = s[i + 1]

(* t is s followed by r. *)
Joined(s, r, t) ==
    \E n \in Nat :
        /\ DOMAIN s = 1..n
        /\ \A i \in DOMAIN s : i \in DOMAIN t /\ t[i] = s[i]
        /\ \A i \in DOMAIN r : i \in Nat /\ i >= 1 /\ n + i \in DOMAIN t /\ t[n + i] = r[i]
        /\ \A j \in DOMAIN t : j \in Nat /\ j >= 1 /\ (j \in DOMAIN s \/ j - n \in DOMAIN r)

LEMMA TailPops ==
    ASSUME NEW S, NEW s \in Seq(S), s # <<>>
    PROVE  /\ Tail(s) \in Seq(S) /\ Head(s) \in S /\ Popped(s, Tail(s))
           /\ Len(s) \in Nat /\ Len(Tail(s)) \in Nat /\ Len(Tail(s)) <= Len(s)
<1>1. Len(s) \in Nat /\ DOMAIN s = 1..Len(s) /\ Len(s) # 0
  BY LenProperties, EmptySeq
<1>2. Tail(s) \in Seq(S) /\ Head(s) \in S /\ s[1] = Head(s) /\ Len(Tail(s)) = Len(s) - 1
  BY <1>1
<1>3. DOMAIN Tail(s) = 1..(Len(s) - 1) /\ \A i \in 1..(Len(s) - 1) : Tail(s)[i] = s[i + 1]
  BY <1>1
<1> QED
  BY <1>1, <1>2, <1>3 DEF Popped

LEMMA ConcatJoins ==
    ASSUME NEW S, NEW s \in Seq(S), NEW R, NEW r \in Seq(R)
    PROVE  /\ s \o r \in Seq(S \cup R) /\ Joined(s, r, s \o r)
           /\ Len(s) \in Nat /\ Len(r) \in Nat /\ Len(s \o r) = Len(s) + Len(r)
<1>1. /\ Len(s) \in Nat /\ DOMAIN s = 1..Len(s)
      /\ Len(r) \in Nat /\ DOMAIN r = 1..Len(r)
  BY LenProperties
<1>2. s \in Seq(S \cup R) /\ r \in Seq(S \cup R)
  <2>1. s \in [1..Len(s) -> S \cup R] /\ r \in [1..Len(r) -> S \cup R]
    BY <1>1, LenProperties
  <2> QED
    BY <1>1, <2>1, IsASeq
<1>3. /\ s \o r \in Seq(S \cup R) /\ DOMAIN (s \o r) = 1..(Len(s) + Len(r))
      /\ Len(s \o r) = Len(s) + Len(r)
      /\ \A i \in 1..Len(s) : (s \o r)[i] = s[i]
      /\ \A i \in (Len(s) + 1)..(Len(s) + Len(r)) : (s \o r)[i] = r[i - Len(s)]
  BY <1>1, <1>2, ConcatProperties
<1> DEFINE n == Len(s)
<1>4. \A i \in DOMAIN r : i \in Nat /\ i >= 1 /\ n + i \in DOMAIN (s \o r) /\ (s \o r)[n + i] = r[i]
  <2> TAKE i \in DOMAIN r
  <2>1. i \in 1..Len(r)
    BY <1>1
  <2>2. n + i \in (n + 1)..(n + Len(r)) /\ (n + i) - n = i
    BY <1>1, <2>1
  <2> QED
    BY <1>1, <1>3, <2>1, <2>2
<1>5. \A j \in DOMAIN (s \o r) : j \in Nat /\ j >= 1 /\ (j \in DOMAIN s \/ j - n \in DOMAIN r)
  BY <1>1, <1>3
<1>6. n \in Nat /\ DOMAIN s = 1..n /\ \A i \in DOMAIN s : i \in DOMAIN (s \o r) /\ (s \o r)[i] = s[i]
  BY <1>1, <1>3
<1>7. Joined(s, r, s \o r)
  BY <1>4, <1>5, <1>6 DEF Joined
<1> QED
  BY <1>1, <1>3, <1>7

LEMMA AppendJoins ==
    ASSUME NEW S, NEW s \in Seq(S), NEW f \in S
    PROVE  /\ Append(s, f) \in Seq(S) /\ Joined(s, <<f>>, Append(s, f))
           /\ Len(s) \in Nat /\ Len(Append(s, f)) = Len(s) + 1
<1>1. Len(s) \in Nat /\ DOMAIN s = 1..Len(s)
  BY LenProperties
<1>2. /\ Append(s, f) \in Seq(S) /\ DOMAIN Append(s, f) = 1..(Len(s) + 1)
      /\ Len(Append(s, f)) = Len(s) + 1
      /\ Append(s, f)[Len(s) + 1] = f /\ \A i \in 1..Len(s) : Append(s, f)[i] = s[i]
  BY <1>1
<1>3. DOMAIN <<f>> = 1..1 /\ <<f>>[1] = f
  OBVIOUS
<1> DEFINE n == Len(s)
           t == Append(s, f)
<1>4. \A i \in DOMAIN <<f>> : i \in Nat /\ i >= 1 /\ n + i \in DOMAIN t /\ t[n + i] = <<f>>[i]
  <2> TAKE i \in DOMAIN <<f>>
  <2>1. i = 1
    BY <1>3
  <2> QED
    BY <1>1, <1>2, <1>3, <2>1
<1>5. \A j \in DOMAIN t : j \in Nat /\ j >= 1 /\ (j \in DOMAIN s \/ j - n \in DOMAIN <<f>>)
  BY <1>1, <1>2, <1>3
<1>6. n \in Nat /\ DOMAIN s = 1..n /\ \A i \in DOMAIN s : i \in DOMAIN t /\ t[i] = s[i]
  BY <1>1, <1>2
<1>7. Joined(s, <<f>>, t)
  <2> HIDE DEF n, t
  <2> QED
    BY <1>4, <1>5, <1>6 DEF Joined
<1> QED
  BY <1>1, <1>2, <1>7

-----------------------------------------------------------------------------
(* What the router is going to hear of an account.                         *)

(* The account is, or will be, an is_push account once the router has read *)
(* the messages of q and then those of o.                                  *)
On(a, o, q, push) ==
    TurnedOn(a, o) \/ (Kept(a, o) /\ (TurnedOn(a, q) \/ (Kept(a, q) /\ a \in push)))

LEMMA KeptJoined ==
    ASSUME NEW a, NEW s, NEW r, NEW t, Joined(s, r, t)
    PROVE  Kept(a, t) <=> Kept(a, s) /\ Kept(a, r)
<1>1. PICK n \in Nat :
        /\ DOMAIN s = 1..n
        /\ \A i \in DOMAIN s : i \in DOMAIN t /\ t[i] = s[i]
        /\ \A i \in DOMAIN r : i \in Nat /\ i >= 1 /\ n + i \in DOMAIN t /\ t[n + i] = r[i]
        /\ \A j \in DOMAIN t : j \in Nat /\ j >= 1 /\ (j \in DOMAIN s \/ j - n \in DOMAIN r)
  BY DEF Joined
<1>2. ASSUME Kept(a, t) PROVE Kept(a, s) /\ Kept(a, r)
  BY <1>1, <1>2 DEF Kept
<1>3. ASSUME Kept(a, s), Kept(a, r) PROVE Kept(a, t)
  <2> SUFFICES ASSUME NEW j \in DOMAIN t PROVE ~Unsets(t[j], a)
    BY DEF Kept
  <2>1. CASE j \in DOMAIN s
    BY <1>1, <1>3, <2>1 DEF Kept
  <2>2. CASE j - n \in DOMAIN r
    <3>1. j \in Nat /\ n + (j - n) = j
      BY <1>1
    <3> QED
      BY <1>1, <1>3, <2>2, <3>1 DEF Kept
  <2> QED
    BY <1>1, <2>1, <2>2
<1> QED
  BY <1>2, <1>3

LEMMA TurnedOnJoined ==
    ASSUME NEW a, NEW s, NEW r, NEW t, Joined(s, r, t)
    PROVE  TurnedOn(a, t) <=> TurnedOn(a, r) \/ (Kept(a, r) /\ TurnedOn(a, s))
<1>1. PICK n \in Nat :
        /\ DOMAIN s = 1..n
        /\ \A i \in DOMAIN s : i \in DOMAIN t /\ t[i] = s[i]
        /\ \A i \in DOMAIN r : i \in Nat /\ i >= 1 /\ n + i \in DOMAIN t /\ t[n + i] = r[i]
        /\ \A j \in DOMAIN t : j \in Nat /\ j >= 1 /\ (j \in DOMAIN s \/ j - n \in DOMAIN r)
  BY DEF Joined
<1>2. ASSUME TurnedOn(a, t) PROVE TurnedOn(a, r) \/ (Kept(a, r) /\ TurnedOn(a, s))
  <2>1. PICK i \in DOMAIN t : /\ t[i].type = "register" /\ a \in t[i].activate
                              /\ \A j \in DOMAIN t : i <= j => ~Unsets(t[j], a)
    BY <1>2 DEF TurnedOn
  <2>2. CASE i \in DOMAIN s
    <3>1. Kept(a, r)
      <4> SUFFICES ASSUME NEW k \in DOMAIN r PROVE ~Unsets(r[k], a)
        BY DEF Kept
      <4>1. n + k \in DOMAIN t /\ t[n + k] = r[k] /\ i <= n + k
        BY <1>1, <2>2
      <4> QED
        BY <2>1, <4>1
    <3>2. TurnedOn(a, s)
      BY <1>1, <2>1, <2>2 DEF TurnedOn
    <3> QED
      BY <3>1, <3>2
  <2>3. CASE i - n \in DOMAIN r
    <3>1. i \in Nat /\ n + (i - n) = i /\ t[i] = r[i - n]
      BY <1>1, <2>3
    <3>2. ASSUME NEW k \in DOMAIN r, i - n <= k PROVE ~Unsets(r[k], a)
      <4>1. n + k \in DOMAIN t /\ t[n + k] = r[k] /\ i <= n + k
        BY <1>1, <2>3, <3>2
      <4> QED
        BY <2>1, <4>1
    <3> QED
      BY <2>1, <2>3, <3>1, <3>2 DEF TurnedOn
  <2> QED
    BY <1>1, <2>2, <2>3
<1>3. ASSUME TurnedOn(a, r) PROVE TurnedOn(a, t)
  <2>1. PICK i \in DOMAIN r : /\ r[i].type = "register" /\ a \in r[i].activate
                              /\ \A j \in DOMAIN r : i <= j => ~Unsets(r[j], a)
    BY <1>3 DEF TurnedOn
  <2>2. n + i \in DOMAIN t /\ t[n + i] = r[i] /\ i \in Nat /\ i >= 1
    BY <1>1
  <2>3. ASSUME NEW j \in DOMAIN t, n + i <= j PROVE ~Unsets(t[j], a)
    <3>1. j \in Nat /\ j - n \in DOMAIN r /\ n + (j - n) = j /\ i <= j - n
      BY <1>1, <2>2, <2>3
    <3>2. t[j] = r[j - n]
      BY <1>1, <3>1
    <3> QED
      BY <2>1, <3>1, <3>2
  <2> QED
    BY <2>1, <2>2, <2>3 DEF TurnedOn
<1>4. ASSUME Kept(a, r), TurnedOn(a, s) PROVE TurnedOn(a, t)
  <2>1. PICK i \in DOMAIN s : /\ s[i].type = "register" /\ a \in s[i].activate
                              /\ \A j \in DOMAIN s : i <= j => ~Unsets(s[j], a)
    BY <1>4 DEF TurnedOn
  <2>2. i \in DOMAIN t /\ t[i] = s[i]
    BY <1>1
  <2>3. ASSUME NEW j \in DOMAIN t, i <= j PROVE ~Unsets(t[j], a)
    <3>1. CASE j \in DOMAIN s
      BY <1>1, <2>1, <2>3, <3>1
    <3>2. CASE j - n \in DOMAIN r
      <4>1. j \in Nat /\ n + (j - n) = j
        BY <1>1
      <4>2. t[j] = r[j - n]
        BY <1>1, <3>2, <4>1
      <4> QED
        BY <1>4, <3>2, <4>2 DEF Kept
    <3> QED
      BY <1>1, <3>1, <3>2
  <2> QED
    BY <2>1, <2>2, <2>3 DEF TurnedOn
<1> QED
  BY <1>2, <1>3, <1>4

(* A message that is no registration changes nothing. *)
LEMMA OnAppend ==
    ASSUME NEW a, NEW o, NEW q \in Seq(UpMessages), NEW push, NEW msg \in UpMessages,
           msg.type # "register", On(a, o, q, push)
    PROVE  On(a, o, Append(q, msg), push)
<1>1. Joined(q, <<msg>>, Append(q, msg))
  BY AppendJoins
<1>2. DOMAIN <<msg>> = {1} /\ <<msg>>[1] = msg
  OBVIOUS
<1>3. Kept(a, <<msg>>) /\ ~TurnedOn(a, <<msg>>)
  BY <1>2 DEF Kept, TurnedOn, Unsets
<1>4. (Kept(a, Append(q, msg)) <=> Kept(a, q)) /\ (TurnedOn(a, Append(q, msg)) <=> TurnedOn(a, q))
  BY <1>1, <1>3, KeptJoined, TurnedOnJoined
<1> QED
  BY <1>4 DEF On

(* The manager puts what it has to say into the channel. *)
LEMMA OnTold ==
    ASSUME NEW a, NEW o \in Seq(Registers), NEW q \in Seq(UpMessages), NEW push,
           On(a, o, q, push)
    PROVE  On(a, <<>>, q \o o, push)
<1>1. Joined(q, o, q \o o)
  BY ConcatJoins
<1>2. DOMAIN <<>> = {}
  OBVIOUS
<1>3. Kept(a, <<>>) /\ ~TurnedOn(a, <<>>)
  BY <1>2 DEF Kept, TurnedOn
<1>4. /\ Kept(a, q \o o) <=> Kept(a, q) /\ Kept(a, o)
      /\ TurnedOn(a, q \o o) <=> TurnedOn(a, o) \/ (Kept(a, o) /\ TurnedOn(a, q))
  BY <1>1, KeptJoined, TurnedOnJoined
<1> QED
  BY <1>3, <1>4 DEF On

(* The router reads a message: a registration sets and unsets. *)
LEMMA OnRead ==
    ASSUME NEW a, NEW o, NEW q \in Seq(UpMessages), q # <<>>, NEW push, NEW push2,
           On(a, o, q, push),
           Head(q).type = "register" =>
               push2 = (push \cup Head(q).activate) \ Head(q).expired,
           Head(q).type # "register" => push \subseteq push2
    PROVE  On(a, o, Tail(q), push2)
<1>1. Popped(q, Tail(q))
  BY TailPops
<1> DEFINE t == Tail(q)
<1> HIDE DEF t
<1>t. Popped(q, t)
  BY <1>1 DEF t
<1>2. ASSUME Kept(a, q) PROVE Kept(a, t) /\ ~Unsets(q[1], a)
  BY <1>t, <1>2 DEF Kept, Popped
<1>3. ASSUME TurnedOn(a, q)
      PROVE  TurnedOn(a, t) \/ (Kept(a, t) /\ q[1].type = "register" /\ a \in q[1].activate
                                /\ ~Unsets(q[1], a))
  <2>1. PICK i \in DOMAIN q : /\ q[i].type = "register" /\ a \in q[i].activate
                              /\ \A j \in DOMAIN q : i <= j => ~Unsets(q[j], a)
    BY <1>3 DEF TurnedOn
  <2>2. CASE i = 1
    <3>1. ASSUME NEW j \in DOMAIN t PROVE ~Unsets(t[j], a)
      <4>1. j \in Nat /\ j + 1 \in DOMAIN q /\ t[j] = q[j + 1] /\ i <= j + 1
        BY <1>t, <2>2, <3>1 DEF Popped
      <4> QED
        BY <2>1, <4>1
    <3> QED
      BY <2>1, <2>2, <3>1 DEF Kept
  <2>3. CASE i # 1
    <3>1. i \in Nat /\ i - 1 \in DOMAIN t /\ t[i - 1] = q[i]
      BY <1>t, <2>3 DEF Popped
    <3>2. ASSUME NEW j \in DOMAIN t, i - 1 <= j PROVE ~Unsets(t[j], a)
      <4>1. j \in Nat /\ j + 1 \in DOMAIN q /\ t[j] = q[j + 1] /\ i <= j + 1
        BY <1>t, <3>1, <3>2 DEF Popped
      <4> QED
        BY <2>1, <4>1
    <3> QED
      BY <2>1, <3>1, <3>2 DEF TurnedOn
  <2> QED
    BY <2>2, <2>3
<1>4. q[1] = Head(q)
  BY <1>t DEF Popped
<1>5. ASSUME Kept(a, q), a \in push PROVE a \in push2
  BY <1>2, <1>4, <1>5 DEF Unsets
<1>6. ASSUME q[1].type = "register", a \in q[1].activate, ~Unsets(q[1], a) PROVE a \in push2
  BY <1>4, <1>6 DEF Unsets
<1>7. On(a, o, t, push2)
  BY <1>2, <1>3, <1>5, <1>6 DEF On
<1> QED
  BY <1>7 DEF t

-----------------------------------------------------------------------------
(* The inductive invariant.                                                *)

(* The part of TypeOK about the manager. *)
MgrOK(m) ==
    /\ DOMAIN m = DOMAIN Empty
    /\ DOMAIN m.reg \subseteq Ids /\ \A id \in DOMAIN m.reg : m.reg[id] \in RegRecord
    /\ m.ids \in [Accounts -> SUBSET Ids] /\ m.retry \subseteq Ids
    /\ {m.due, m.armed} \subseteq BOOLEAN
    /\ m.calls \subseteq [id : Ids, notes : SUBSET Notes]
    /\ m.out \in Seq(Registers) /\ Len(m.out) <= 1

IsAnswer(msg, id) == msg.type \in {"success", "failure"} /\ msg.id = id

(* in_flight of r says whether a request or an answer is under way, and    *)
(* there are no two.                                                       *)
FlightOf(id, r, calls, dn) ==
    /\ r.attempts <= MaxAttempts /\ (r.inFlight => r.attempts < MaxAttempts)
    /\ \A c \in calls : c.id = id => r.inFlight
    /\ \A i \in DOMAIN dn : IsAnswer(dn[i], id) => r.inFlight
    /\ r.inFlight => (\E c \in calls : c.id = id) \/ (\E i \in DOMAIN dn : IsAnswer(dn[i], id))
    /\ \A c, d \in calls : c.id = id /\ d.id = id => c = d
    /\ \A i, j \in DOMAIN dn : IsAnswer(dn[i], id) /\ IsAnswer(dn[j], id) => i = j
    /\ \A c \in calls, i \in DOMAIN dn : ~(c.id = id /\ IsAnswer(dn[i], id))

Flights(m, dn) ==
    \A id \in DOMAIN m.reg : ~m.reg[id].again => FlightOf(id, m.reg[id], m.calls, dn)

(* What is queued and not passed over is listed for a retry. *)
Owed(r) == r.notes # {} /\ ~r.inFlight /\ ~r.passed
OwedListed(m) == \A id \in DOMAIN m.reg : Owed(m.reg[id]) => id \in m.retry
Armed(m) == m.out = <<>> => \A id \in DOMAIN m.reg : Owed(m.reg[id]) => m.armed

(* live: the ids that are active, or may be verified. *)
Live == {id \in Ids : sub[id] = "verified" /\ id \notin expired} \cup coded
Listed(m, live) ==
    /\ \A id \in DOMAIN m.reg :
          id[1] \in m.reg[id].members /\ \A a \in m.reg[id].members : id \in m.ids[a]
    /\ \A id \in Ids : id \in m.ids[id[1]] /\ (id \in DOMAIN m.reg => m.reg[id].lapsed) => id \notin live

Words(m, q, push) ==
    \A id \in DOMAIN m.reg : ~m.reg[id].moved => \A a \in m.reg[id].members : On(a, m.out, q, push)

Good(m, dn, live, q, push) ==
    MgrOK(m) /\ Flights(m, dn) /\ OwedListed(m) /\ Listed(m, live) /\ Words(m, q, push)

CodesNew == \A id \in coded : sub[id] = "new"
ClientsKept == \A j \in joined : j[2] \notin closed => j[2] \in router.ipc[j[1]]

StoreTypes ==
    /\ sub \in [Ids -> {"none", "new", "verified"}]
    /\ expired \subseteq Ids /\ coded \subseteq Ids /\ memberOf \in [Users -> SUBSET Groups]
UpTypes == up \in Seq(UpMessages) /\ Len(up) <= Cap
DownTypes == down \in Seq(DownMessages) /\ Len(down) <= Cap
RouterTypes ==
    /\ DOMAIN router = DOMAIN Closed
    /\ router.push \subseteq Accounts /\ router.ipc \in [Accounts -> SUBSET Clients]
    /\ router.out \in Seq(Orders) /\ Len(router.out) <= 1
OtherTypes == joined \subseteq Accounts \X Clients /\ {sets, faults} \subseteq Nat

Ind ==
    /\ StoreTypes /\ UpTypes /\ DownTypes /\ RouterTypes /\ OtherTypes
    /\ CodesNew /\ ClientsKept
    /\ Good(mgr, down, Live, up, router.push) /\ Armed(mgr)

-----------------------------------------------------------------------------
(* The functions on registrations and on the state of the manager.         *)

(* What only updates and the end of a subscription change. *)
Same(r, s) ==
    r.members = s.members /\ r.lapsed = s.lapsed /\ r.again = s.again /\ r.moved = s.moved

LEMMA Constants ==
    /\ Cap \in Nat /\ MaxAttempts \in Nat /\ MaxAttempts >= 1
    /\ Users \cap Groups = {} /\ About \in [Notes -> Accounts]
  BY PushAssumptions DEF Accounts

LEMMA EmptyFields ==
    DOMAIN Empty = {"reg", "ids", "retry", "due", "armed", "calls", "out"}
  BY DEF Empty

LEMMA SentFields ==
    ASSUME NEW r \in RegRecord
    PROVE  /\ Sent(r) \in RegRecord /\ Same(r, Sent(r)) /\ Sent(r).attempts = r.attempts
           /\ Sent(r).inFlight /\ Sent(r).notes = {}
  BY DEF Sent, RegRecord, Same

LEMMA DroppedFields ==
    ASSUME NEW r \in RegRecord
    PROVE  /\ Dropped(r) \in RegRecord /\ Same(r, Dropped(r)) /\ Dropped(r).attempts = 0
           /\ Dropped(r).inFlight = r.inFlight /\ Dropped(r).notes = {}
  BY DEF Dropped, RegRecord, Same

LEMMA ReloadedFields ==
    ASSUME NEW r \in RegRecord, NEW s \in SUBSET Accounts
    PROVE  /\ Reloaded(r, s) \in RegRecord /\ Reloaded(r, s).members = s /\ ~Reloaded(r, s).lapsed
           /\ Reloaded(r, s).moved <=> r.moved \/ r.members # s
           /\ Reloaded(r, s).attempts = r.attempts /\ Reloaded(r, s).inFlight = r.inFlight
           /\ Reloaded(r, s).notes = r.notes /\ Reloaded(r, s).passed = r.passed
           /\ Reloaded(r, s).again = r.again
  BY DEF Reloaded, RegRecord

LEMMA RegistrationFields ==
    ASSUME NEW s \in SUBSET Accounts, NEW g \in BOOLEAN
    PROVE  /\ Registration(s, g) \in RegRecord /\ Registration(s, g).members = s
           /\ ~Registration(s, g).lapsed /\ ~Registration(s, g).moved
           /\ Registration(s, g).attempts = 0 /\ ~Registration(s, g).inFlight
           /\ Registration(s, g).notes = {} /\ Registration(s, g).again = g
  BY DEF Registration, RegRecord

LEMMA SendFields ==
    ASSUME NEW m, MgrOK(m), NEW to \in SUBSET DOMAIN m.reg, NEW w, w = Send(m, to)
    PROVE  /\ MgrOK(w) /\ w.ids = m.ids /\ w.retry = m.retry /\ w.due = m.due
           /\ w.armed = m.armed /\ w.out = m.out
           /\ w.calls = m.calls \cup {[id |-> i, notes |-> m.reg[i].notes] : i \in to}
           /\ DOMAIN w.reg = DOMAIN m.reg
           /\ \A i \in DOMAIN m.reg : w.reg[i] = IF i \in to THEN Sent(m.reg[i]) ELSE m.reg[i]
<1>1. /\ DOMAIN m = DOMAIN Empty /\ DOMAIN m.reg \subseteq Ids
      /\ \A id \in DOMAIN m.reg : m.reg[id] \in RegRecord
      /\ m.calls \subseteq [id : Ids, notes : SUBSET Notes]
  BY DEF MgrOK
<1>2. /\ DOMAIN w = DOMAIN m /\ w.ids = m.ids /\ w.retry = m.retry /\ w.due = m.due
      /\ w.armed = m.armed /\ w.out = m.out
      /\ w.calls = m.calls \cup {[id |-> i, notes |-> m.reg[i].notes] : i \in to}
      /\ w.reg = [i \in DOMAIN m.reg |-> IF i \in to THEN Sent(m.reg[i]) ELSE m.reg[i]]
  BY <1>1, EmptyFields DEF Send
<1>3. /\ DOMAIN w.reg = DOMAIN m.reg
      /\ \A i \in DOMAIN m.reg : w.reg[i] = IF i \in to THEN Sent(m.reg[i]) ELSE m.reg[i]
  BY <1>2
<1>4. \A i \in DOMAIN w.reg : w.reg[i] \in RegRecord
  BY <1>1, <1>3, SentFields
<1>5. w.calls \subseteq [id : Ids, notes : SUBSET Notes]
  <2>1. \A i \in to : i \in Ids /\ m.reg[i].notes \in SUBSET Notes
    BY <1>1 DEF RegRecord
  <2> QED
    BY <1>1, <1>2, <2>1
<1>6. MgrOK(w)
  BY <1>1, <1>2, <1>3, <1>4, <1>5 DEF MgrOK
<1> QED
  BY <1>2, <1>3, <1>6

LEMMA GiveUpFields ==
    ASSUME NEW m, MgrOK(m), NEW on \in SUBSET DOMAIN m.reg, NEW w, w = GiveUp(m, on)
    PROVE  /\ MgrOK(w) /\ w.ids = m.ids /\ w.retry = m.retry /\ w.due = m.due
           /\ w.armed = m.armed /\ w.out = m.out /\ w.calls = m.calls
           /\ DOMAIN w.reg = DOMAIN m.reg
           /\ \A i \in DOMAIN m.reg : w.reg[i] = IF i \in on THEN Dropped(m.reg[i]) ELSE m.reg[i]
<1>1. /\ DOMAIN m = DOMAIN Empty /\ DOMAIN m.reg \subseteq Ids
      /\ \A id \in DOMAIN m.reg : m.reg[id] \in RegRecord
  BY DEF MgrOK
<1>2. /\ DOMAIN w = DOMAIN m /\ w.ids = m.ids /\ w.retry = m.retry /\ w.due = m.due
      /\ w.armed = m.armed /\ w.out = m.out /\ w.calls = m.calls
      /\ w.reg = [i \in DOMAIN m.reg |-> IF i \in on THEN Dropped(m.reg[i]) ELSE m.reg[i]]
  BY <1>1, EmptyFields DEF GiveUp
<1>3. /\ DOMAIN w.reg = DOMAIN m.reg
      /\ \A i \in DOMAIN m.reg : w.reg[i] = IF i \in on THEN Dropped(m.reg[i]) ELSE m.reg[i]
  BY <1>2
<1>4. \A i \in DOMAIN w.reg : w.reg[i] \in RegRecord
  BY <1>1, <1>3, DroppedFields
<1>5. MgrOK(w)
  BY <1>1, <1>2, <1>3, <1>4 DEF MgrOK
<1> QED
  BY <1>2, <1>3, <1>5

(* w is m with a request under way for each id of S, none of which had one *)
(* (and perhaps some others given up on).                                  *)
Sends(m, w, S) ==
    /\ S \subseteq DOMAIN m.reg /\ DOMAIN w.reg = DOMAIN m.reg
    /\ w.calls = m.calls \cup {[id |-> i, notes |-> m.reg[i].notes] : i \in S}
    /\ \A i \in DOMAIN m.reg : Same(m.reg[i], w.reg[i])
    /\ \A i \in S : /\ ~m.reg[i].inFlight /\ w.reg[i].inFlight
                    /\ m.reg[i].attempts < MaxAttempts /\ w.reg[i].attempts = m.reg[i].attempts
    /\ \A i \in DOMAIN m.reg \ S :
          /\ w.reg[i].inFlight = m.reg[i].inFlight
          /\ w.reg[i].attempts = m.reg[i].attempts \/ w.reg[i].attempts = 0

LEMMA SendsFlights ==
    ASSUME NEW m, NEW w, NEW S, NEW dn, MgrOK(m), MgrOK(w), Sends(m, w, S), Flights(m, dn)
    PROVE  Flights(w, dn)
<1> SUFFICES ASSUME NEW id \in DOMAIN w.reg, ~w.reg[id].again
             PROVE  FlightOf(id, w.reg[id], w.calls, dn)
  BY DEF Flights
<1>1. /\ id \in DOMAIN m.reg /\ ~m.reg[id].again
      /\ w.calls = m.calls \cup {[id |-> i, notes |-> m.reg[i].notes] : i \in S}
  BY DEF Sends, Same
<1>2. FlightOf(id, m.reg[id], m.calls, dn)
  BY <1>1 DEF Flights
<1>3. m.reg[id].attempts \in Nat /\ w.reg[id].attempts \in Nat
  BY <1>1 DEF MgrOK, RegRecord
<1>4. CASE id \in S
  <2> DEFINE e == [id |-> id, notes |-> m.reg[id].notes]
  <2>1. e \in w.calls /\ e.id = id
    BY <1>1, <1>4
  <2>2. /\ ~m.reg[id].inFlight /\ w.reg[id].inFlight /\ m.reg[id].attempts < MaxAttempts
        /\ w.reg[id].attempts = m.reg[id].attempts
    BY <1>4 DEF Sends
  <2>3. \A c \in m.calls : c.id # id
    BY <1>2, <2>2 DEF FlightOf
  <2>4. \A c \in w.calls : c.id = id => c = e
    BY <1>1, <2>3
  <2>5. \A i \in DOMAIN dn : ~IsAnswer(dn[i], id)
    BY <1>2, <2>2 DEF FlightOf
  <2>6. w.reg[id].attempts < MaxAttempts /\ w.reg[id].attempts <= MaxAttempts
    BY <1>3, <2>2, Constants
  <2> HIDE DEF e
  <2> QED
    BY <2>1, <2>2, <2>4, <2>5, <2>6 DEF FlightOf
<1>5. CASE id \notin S
  <2>1. /\ w.reg[id].inFlight = m.reg[id].inFlight
        /\ w.reg[id].attempts = m.reg[id].attempts \/ w.reg[id].attempts = 0
    BY <1>1, <1>5 DEF Sends
  <2>2. \A c : c \in w.calls /\ c.id = id <=> c \in m.calls /\ c.id = id
    BY <1>1, <1>5
  <2>3. w.reg[id].attempts <= MaxAttempts /\ (w.reg[id].inFlight => w.reg[id].attempts < MaxAttempts)
    BY <1>2, <1>3, <2>1, Constants DEF FlightOf
  <2> QED
    BY <1>2, <2>1, <2>2, <2>3 DEF FlightOf
<1> QED
  BY <1>4, <1>5

LEMMA SameListed ==
    ASSUME NEW m, NEW w, NEW live, DOMAIN w.reg = DOMAIN m.reg, w.ids = m.ids,
           \A i \in DOMAIN m.reg : Same(m.reg[i], w.reg[i]), Listed(m, live)
    PROVE  Listed(w, live)
  BY DEF Listed, Same

LEMMA SameWords ==
    ASSUME NEW m, NEW w, NEW q, NEW push, DOMAIN w.reg = DOMAIN m.reg, w.out = m.out,
           \A i \in DOMAIN m.reg : Same(m.reg[i], w.reg[i]), Words(m, q, push)
    PROVE  Words(w, q, push)
  BY DEF Words, Same

(* A retry of what is ready leaves nothing owed there. *)
LEMMA TriedFields ==
    ASSUME NEW m, MgrOK(m), NEW ready \in SUBSET DOMAIN m.reg,
           \A i \in ready : ~m.reg[i].inFlight, NEW w, w = Tried(m, ready)
    PROVE  /\ MgrOK(w) /\ w.ids = m.ids /\ w.retry = m.retry /\ w.due = m.due
           /\ w.armed = m.armed /\ w.out = m.out /\ \E S : Sends(m, w, S)
           /\ DOMAIN w.reg = DOMAIN m.reg /\ \A i \in DOMAIN m.reg : Same(m.reg[i], w.reg[i])
           /\ \A i \in DOMAIN m.reg : i \notin ready => w.reg[i] = m.reg[i]
           /\ \A i \in ready : w.reg[i].notes = {}
<1> DEFINE S == {id \in ready : m.reg[id].attempts < MaxAttempts}
           v == Send(m, S)
<1>1. /\ MgrOK(v) /\ v.ids = m.ids /\ v.retry = m.retry /\ v.due = m.due
      /\ v.armed = m.armed /\ v.out = m.out
      /\ v.calls = m.calls \cup {[id |-> i, notes |-> m.reg[i].notes] : i \in S}
      /\ DOMAIN v.reg = DOMAIN m.reg
      /\ \A i \in DOMAIN m.reg : v.reg[i] = IF i \in S THEN Sent(m.reg[i]) ELSE m.reg[i]
  <2>1. S \in SUBSET DOMAIN m.reg
    OBVIOUS
  <2> HIDE DEF S
  <2> QED
    BY <2>1, SendFields
<1>2. w = GiveUp(v, ready \ S)
  BY DEF Tried
<1> HIDE DEF v
<1>3. /\ MgrOK(w) /\ w.ids = v.ids /\ w.retry = v.retry /\ w.due = v.due
      /\ w.armed = v.armed /\ w.out = v.out /\ w.calls = v.calls
      /\ DOMAIN w.reg = DOMAIN v.reg
      /\ \A i \in DOMAIN v.reg : w.reg[i] = IF i \in ready \ S THEN Dropped(v.reg[i]) ELSE v.reg[i]
  <2>1. ready \ S \in SUBSET DOMAIN v.reg
    BY <1>1
  <2> QED
    BY <1>1, <1>2, <2>1, GiveUpFields
<1>4. \A i \in DOMAIN m.reg : m.reg[i] \in RegRecord
  BY DEF MgrOK
<1>5. \A i \in S : w.reg[i] = Sent(m.reg[i]) /\ i \in ready /\ m.reg[i].attempts < MaxAttempts
  BY <1>1, <1>3
<1>6. \A i \in ready \ S : w.reg[i] = Dropped(m.reg[i])
  BY <1>1, <1>3
<1>7. \A i \in DOMAIN m.reg : i \notin ready => w.reg[i] = m.reg[i]
  BY <1>1, <1>3
<1>8. S \subseteq ready
  OBVIOUS
<1> HIDE DEF S
<1>9. \A i \in DOMAIN m.reg : Same(m.reg[i], w.reg[i])
  <2> TAKE i \in DOMAIN m.reg
  <2>1. CASE i \in S
    BY <1>4, <1>5, <2>1, SentFields
  <2>2. CASE i \in ready \ S
    BY <1>4, <1>6, <2>2, DroppedFields
  <2>3. CASE i \notin ready
    BY <1>7, <2>3 DEF Same
  <2> QED
    BY <2>1, <2>2, <2>3
<1>10. \A i \in ready : w.reg[i].notes = {}
  BY <1>4, <1>5, <1>6, SentFields, DroppedFields
<1>11. Sends(m, w, S)
  <2>1. \A i \in S : /\ ~m.reg[i].inFlight /\ w.reg[i].inFlight
                     /\ m.reg[i].attempts < MaxAttempts /\ w.reg[i].attempts = m.reg[i].attempts
    BY <1>4, <1>5, SentFields
  <2>2. ASSUME NEW i \in DOMAIN m.reg \ S
        PROVE  /\ w.reg[i].inFlight = m.reg[i].inFlight
               /\ w.reg[i].attempts = m.reg[i].attempts \/ w.reg[i].attempts = 0
    BY <1>4, <1>6, <1>7, DroppedFields
  <2> QED
    BY <1>1, <1>3, <1>8, <1>9, <2>1, <2>2 DEF Sends
<1> QED
  BY <1>1, <1>3, <1>7, <1>9, <1>10, <1>11

(* The retry pass: whatever is still owed has its retry to come. *)
LEMMA RetriedGood ==
    ASSUME NEW m, NEW dn, NEW live, NEW q, NEW push, Good(m, dn, live, q, push),
           NEW w, w = Retried(m)
    PROVE  Good(w, dn, live, q, push) /\ Armed(w) /\ w.out = m.out
<1> DEFINE known == m.retry \cap DOMAIN m.reg
           ready == {id \in known : RetryReady(m.reg[id])}
           left == known \ ready
           v == Tried(m, ready)
<1>1. MgrOK(m) /\ Flights(m, dn) /\ OwedListed(m) /\ Listed(m, live) /\ Words(m, q, push)
  BY DEF Good
<1>2. DOMAIN m = DOMAIN Empty /\ m.retry \subseteq Ids
  BY <1>1 DEF MgrOK
<1>3. /\ MgrOK(v) /\ v.ids = m.ids /\ v.retry = m.retry /\ v.due = m.due
      /\ v.armed = m.armed /\ v.out = m.out /\ \E S : Sends(m, v, S)
      /\ DOMAIN v.reg = DOMAIN m.reg /\ \A i \in DOMAIN m.reg : Same(m.reg[i], v.reg[i])
      /\ \A i \in DOMAIN m.reg : i \notin ready => v.reg[i] = m.reg[i]
      /\ \A i \in ready : v.reg[i].notes = {}
  <2>1. ready \in SUBSET DOMAIN m.reg /\ \A i \in ready : ~m.reg[i].inFlight
    BY DEF RetryReady
  <2> HIDE DEF ready
  <2> QED
    BY <1>1, <2>1, TriedFields
<1>4. ready \subseteq known /\ known = m.retry \cap DOMAIN m.reg /\ left = known \ ready
  OBVIOUS
<1>5. \/ m.retry = {} /\ w = [m EXCEPT !.armed = FALSE]
      \/ w = [m EXCEPT !.armed = TRUE]
      \/ left = {} /\ w = [v EXCEPT !.retry = {}, !.armed = FALSE]
      \/ w = [v EXCEPT !.retry = left, !.armed = TRUE, !.due = FALSE]
  BY DEF Retried
<1> HIDE DEF known, ready, left, v
<1>6. ASSUME w.reg = m.reg, w.calls = m.calls, w.ids = m.ids, w.retry = m.retry, w.out = m.out,
             MgrOK(w), m.retry = {} \/ w.armed
      PROVE  Good(w, dn, live, q, push) /\ Armed(w) /\ w.out = m.out
  <2>1. Flights(w, dn) /\ OwedListed(w)
    BY <1>1, <1>6 DEF Flights, OwedListed
  <2>2. Listed(w, live) /\ Words(w, q, push)
    BY <1>1, <1>6 DEF Listed, Words
  <2>3. Armed(w)
    BY <1>1, <1>6 DEF Armed, OwedListed
  <2> QED
    BY <1>6, <2>1, <2>2, <2>3 DEF Good
<1>7. ASSUME w.reg = v.reg, w.calls = v.calls, w.ids = v.ids, w.out = v.out, w.retry = left,
             MgrOK(w), left = {} \/ w.armed
      PROVE  Good(w, dn, live, q, push) /\ Armed(w) /\ w.out = m.out
  <2>1. PICK S : Sends(m, v, S)
    BY <1>3
  <2>2. Flights(v, dn)
    BY <1>1, <1>3, <2>1, SendsFlights
  <2>3. Flights(w, dn)
    BY <1>7, <2>2 DEF Flights
  <2>4. Listed(v, live) /\ Words(v, q, push)
    BY <1>1, <1>3, SameListed, SameWords
  <2>5. Listed(w, live) /\ Words(w, q, push)
    BY <1>7, <2>4 DEF Listed, Words
  <2>6. ASSUME NEW i \in DOMAIN w.reg, Owed(w.reg[i]) PROVE i \in left
    <3>1. i \in DOMAIN m.reg /\ i \notin ready
      BY <1>3, <1>7, <2>6 DEF Owed
    <3>2. Owed(m.reg[i])
      BY <1>3, <1>7, <2>6, <3>1
    <3> QED
      BY <1>1, <1>4, <3>1, <3>2 DEF OwedListed
  <2>7. OwedListed(w) /\ Armed(w)
    BY <1>7, <2>6 DEF OwedListed, Armed
  <2> QED
    BY <1>3, <1>7, <2>3, <2>5, <2>7 DEF Good
<1>8. ASSUME NEW b \in BOOLEAN, m.retry = {} \/ b, w = [m EXCEPT !.armed = b]
      PROVE  Good(w, dn, live, q, push) /\ Armed(w) /\ w.out = m.out
  <2>1. /\ w.reg = m.reg /\ w.calls = m.calls /\ w.ids = m.ids /\ w.retry = m.retry /\ w.out = m.out
        /\ w.armed = b /\ w.due = m.due /\ DOMAIN w = DOMAIN m
    BY <1>2, <1>8, EmptyFields
  <2>2. MgrOK(w)
    BY <1>1, <2>1 DEF MgrOK
  <2> QED
    BY <1>6, <1>8, <2>1, <2>2
<1>9. ASSUME NEW b \in BOOLEAN, NEW d \in BOOLEAN, left = {} \/ b,
             w = [v EXCEPT !.retry = left, !.armed = b, !.due = d]
      PROVE  Good(w, dn, live, q, push) /\ Armed(w) /\ w.out = m.out
  <2>1. /\ w.reg = v.reg /\ w.calls = v.calls /\ w.ids = v.ids /\ w.retry = left /\ w.out = v.out
        /\ w.armed = b /\ w.due = d /\ DOMAIN w = DOMAIN v
    <3>1. DOMAIN v = DOMAIN Empty
      BY <1>3 DEF MgrOK
    <3> QED
      BY <1>9, <3>1, EmptyFields
  <2>2. left \subseteq Ids
    BY <1>2, <1>4
  <2>3. MgrOK(w)
    BY <1>3, <2>1, <2>2 DEF MgrOK
  <2> QED
    BY <1>7, <1>9, <2>1, <2>3
<1>10. CASE left = {} /\ w = [v EXCEPT !.retry = {}, !.armed = FALSE]
  <2>1. v.due \in BOOLEAN /\ DOMAIN v = DOMAIN Empty
    BY <1>3 DEF MgrOK
  <2>2. w = [v EXCEPT !.retry = left, !.armed = FALSE, !.due = v.due]
    BY <1>10, <2>1, EmptyFields
  <2> QED
    BY <1>9, <1>10, <2>1, <2>2
<1> QED
  BY <1>5, <1>8, <1>9, <1>10

-----------------------------------------------------------------------------
(* Answers.                                                                *)

(* A message that is no answer to id leaves its delivery as it is. *)
LEMMA PopFlight ==
    ASSUME NEW id, NEW r, NEW calls, NEW dn, NEW t, Popped(dn, t), ~IsAnswer(dn[1], id),
           FlightOf(id, r, calls, dn)
    PROVE  FlightOf(id, r, calls, t)
<1>1. \A i \in DOMAIN t : i \in Nat /\ i + 1 \in DOMAIN dn /\ t[i] = dn[i + 1]
  BY DEF Popped
<1>2. \A i \in DOMAIN dn : IsAnswer(dn[i], id) => i - 1 \in DOMAIN t /\ t[i - 1] = dn[i]
  BY DEF Popped
<1>3. \A i \in DOMAIN t : IsAnswer(t[i], id) => r.inFlight
  BY <1>1 DEF FlightOf
<1>4. ASSUME r.inFlight, ~ \E c \in calls : c.id = id
      PROVE  \E i \in DOMAIN t : IsAnswer(t[i], id)
  <2>1. PICK i \in DOMAIN dn : IsAnswer(dn[i], id)
    BY <1>4 DEF FlightOf
  <2> QED
    BY <1>2, <2>1
<1>5. ASSUME NEW i \in DOMAIN t, NEW j \in DOMAIN t, IsAnswer(t[i], id), IsAnswer(t[j], id)
      PROVE  i = j
  <2>1. i + 1 = j + 1
    BY <1>1, <1>5 DEF FlightOf
  <2> QED
    BY <1>1, <2>1
<1>6. \A c \in calls, i \in DOMAIN t : ~(c.id = id /\ IsAnswer(t[i], id))
  BY <1>1 DEF FlightOf
<1> QED
  BY <1>3, <1>4, <1>5, <1>6 DEF FlightOf

LEMMA PopGood ==
    ASSUME NEW m, NEW dn, NEW t, NEW live, NEW q, NEW push, Popped(dn, t),
           \A id \in DOMAIN m.reg : ~IsAnswer(dn[1], id), Good(m, dn, live, q, push)
    PROVE  Good(m, t, live, q, push)
<1>1. Flights(m, t)
  BY PopFlight DEF Good, Flights
<1> QED
  BY <1>1 DEF Good

(* An answer to a registered subscription ends its delivery. *)
LEMMA AnsweredGood ==
    ASSUME NEW m, NEW w, NEW dn, NEW t, NEW live, NEW q, NEW push, NEW id,
           Popped(dn, t), IsAnswer(dn[1], id), Good(m, dn, live, q, push), id \in DOMAIN m.reg,
           MgrOK(w), w.ids = m.ids, w.out = m.out, w.calls = m.calls, DOMAIN w.reg = DOMAIN m.reg,
           \A i \in DOMAIN m.reg : i # id => w.reg[i] = m.reg[i] /\ (i \in m.retry => i \in w.retry),
           Same(m.reg[id], w.reg[id]), ~w.reg[id].inFlight,
           w.reg[id].attempts <= m.reg[id].attempts + 1, Owed(w.reg[id]) => id \in w.retry
    PROVE  Good(w, t, live, q, push)
<1>1. MgrOK(m) /\ Flights(m, dn) /\ OwedListed(m) /\ Listed(m, live) /\ Words(m, q, push)
  BY DEF Good
<1>2. \A i \in DOMAIN m.reg : Same(m.reg[i], w.reg[i])
  BY DEF Same
<1>3. Listed(w, live) /\ Words(w, q, push)
  BY <1>1, <1>2, SameListed, SameWords
<1>4. OwedListed(w)
  BY <1>1 DEF OwedListed
<1>5. ASSUME NEW i \in DOMAIN w.reg, ~w.reg[i].again, i # id
      PROVE  FlightOf(i, w.reg[i], w.calls, t)
  <2>1. w.reg[i] = m.reg[i] /\ ~IsAnswer(dn[1], i)
    BY <1>5 DEF IsAnswer
  <2>2. FlightOf(i, m.reg[i], m.calls, dn)
    BY <1>1, <1>5, <2>1 DEF Flights
  <2> QED
    BY <2>1, <2>2, PopFlight
<1>6. ASSUME ~w.reg[id].again
      PROVE  FlightOf(id, w.reg[id], w.calls, t)
  <2>1. FlightOf(id, m.reg[id], m.calls, dn)
    BY <1>1, <1>6 DEF Flights, Same
  <2>2. 1 \in DOMAIN dn /\ \A i \in DOMAIN t : i \in Nat /\ i >= 1 /\ i + 1 \in DOMAIN dn /\ t[i] = dn[i + 1]
    BY DEF Popped
  <2>3. \A i \in DOMAIN t : ~IsAnswer(t[i], id)
    <3> SUFFICES ASSUME NEW i \in DOMAIN t, IsAnswer(t[i], id) PROVE FALSE
      OBVIOUS
    <3>1. i + 1 = 1
      BY <2>1, <2>2 DEF FlightOf
    <3> QED
      BY <2>2, <3>1
  <2>4. \A c \in w.calls : c.id # id
    BY <2>1, <2>2 DEF FlightOf
  <2>5. m.reg[id].inFlight /\ m.reg[id].attempts < MaxAttempts
    BY <2>1, <2>2 DEF FlightOf
  <2>6. m.reg[id].attempts \in Nat /\ w.reg[id].attempts \in Nat
    BY <1>1 DEF MgrOK, RegRecord
  <2>7. w.reg[id].attempts <= MaxAttempts
    BY <2>5, <2>6, Constants
  <2> QED
    BY <2>3, <2>4, <2>7 DEF FlightOf
<1>7. Flights(w, t)
  BY <1>5, <1>6 DEF Flights
<1> QED
  BY <1>3, <1>4, <1>7 DEF Good

LEMMA SucceededFields ==
    ASSUME NEW r \in RegRecord, NEW rested \in BOOLEAN
    PROVE  LET s == Succeeded(r, rested) IN
           /\ s \in RegRecord /\ Same(r, s) /\ ~s.inFlight /\ s.attempts = 0 /\ ~Owed(s)
           /\ r.attempts \in Nat
  BY DEF Succeeded, RegRecord, Same, Owed

LEMMA FailedFields ==
    ASSUME NEW r \in RegRecord, NEW ns \in SUBSET Notes
    PROVE  LET s == Failed(r, ns) IN
           s \in RegRecord /\ Same(r, s) /\ ~s.inFlight /\ s.attempts = r.attempts + 1 /\ r.attempts \in Nat
<1> DEFINE s == Failed(r, ns)
<1>1. r.attempts \in Nat /\ r.attempts + 1 \in Nat /\ r.notes \cup ns \in SUBSET Notes
  BY DEF RegRecord
<1>2. /\ s.attempts = r.attempts + 1 /\ ~s.inFlight /\ Same(r, s)
      /\ s = [r EXCEPT !.attempts = r.attempts + 1, !.inFlight = FALSE, !.rested = FALSE,
                       !.notes = r.notes \cup ns]
  BY DEF Failed, RegRecord, Same
<1>3. s \in RegRecord
  <2> DEFINE n == r.attempts + 1
             ms == r.notes \cup ns
  <2>1. n \in Nat /\ ms \in SUBSET Notes
    BY <1>1
  <2> HIDE DEF n, ms
  <2> QED
    BY <2>1, <1>2 DEF RegRecord, n, ms
<1> QED
  BY <1>1, <1>2, <1>3

LEMMA SuccessGood ==
    ASSUME NEW m, NEW w, NEW dn, NEW t, NEW live, NEW q, NEW push, NEW id, NEW rested \in BOOLEAN,
           Popped(dn, t), IsAnswer(dn[1], id), Good(m, dn, live, q, push), w = OnSuccess(m, id, rested)
    PROVE  Good(w, t, live, q, push)
<1>1. CASE id \notin DOMAIN m.reg
  <2>1. w = m /\ \A i \in DOMAIN m.reg : ~IsAnswer(dn[1], i)
    BY <1>1 DEF OnSuccess, IsAnswer
  <2> QED
    BY <2>1, PopGood
<1>2. CASE id \in DOMAIN m.reg
  <2> DEFINE r == m.reg[id]
             s == Succeeded(r, rested)
  <2>1. MgrOK(m) /\ r \in RegRecord
    BY <1>2 DEF Good, MgrOK
  <2>2. w = [m EXCEPT !.reg[id] = s, !.retry = @ \ {id}]
    BY <1>2 DEF OnSuccess
  <2>3. /\ s \in RegRecord /\ Same(r, s) /\ ~s.inFlight /\ s.attempts = 0 /\ ~Owed(s)
        /\ r.attempts \in Nat
    BY <2>1, SucceededFields
  <2> HIDE DEF s
  <2>4. /\ DOMAIN w = DOMAIN m /\ w.ids = m.ids /\ w.out = m.out /\ w.calls = m.calls
        /\ w.due = m.due /\ w.armed = m.armed /\ w.retry = m.retry \ {id}
        /\ w.reg = [m.reg EXCEPT ![id] = s]
    BY <2>1, <2>2, EmptyFields DEF MgrOK
  <2>5. DOMAIN w.reg = DOMAIN m.reg /\ w.reg[id] = s /\ \A i \in DOMAIN m.reg : i # id => w.reg[i] = m.reg[i]
    BY <1>2, <2>4
  <2>6. MgrOK(w)
    BY <2>1, <2>3, <2>4, <2>5 DEF MgrOK
  <2>7. w.reg[id].attempts <= m.reg[id].attempts + 1
    BY <2>3, <2>5
  <2> QED
    BY <1>2, <2>3, <2>4, <2>5, <2>6, <2>7, AnsweredGood
<1> QED
  BY <1>1, <1>2

LEMMA FailureGood ==
    ASSUME NEW m, NEW w, NEW dn, NEW t, NEW live, NEW q, NEW push, NEW id, NEW ns \in SUBSET Notes,
           Popped(dn, t), IsAnswer(dn[1], id), Good(m, dn, live, q, push), w = OnFailure(m, id, ns)
    PROVE  Good(w, t, live, q, push)
<1>1. CASE id \notin DOMAIN m.reg
  <2>1. w = m /\ \A i \in DOMAIN m.reg : ~IsAnswer(dn[1], i)
    BY <1>1 DEF OnFailure, IsAnswer
  <2> QED
    BY <2>1, PopGood
<1>2. CASE id \in DOMAIN m.reg
  <2> DEFINE r == m.reg[id]
             s == Failed(r, ns)
  <2>1. MgrOK(m) /\ r \in RegRecord /\ id \in Ids
    BY <1>2 DEF Good, MgrOK
  <2>2. w = [m EXCEPT !.reg[id] = s, !.retry = @ \cup {id}]
    BY <1>2 DEF OnFailure
  <2>3. s \in RegRecord /\ Same(r, s) /\ ~s.inFlight /\ s.attempts = r.attempts + 1 /\ r.attempts \in Nat
    BY <2>1, FailedFields
  <2> HIDE DEF s
  <2>4. /\ DOMAIN w = DOMAIN m /\ w.ids = m.ids /\ w.out = m.out /\ w.calls = m.calls
        /\ w.due = m.due /\ w.armed = m.armed /\ w.retry = m.retry \cup {id}
        /\ w.reg = [m.reg EXCEPT ![id] = s]
    BY <2>1, <2>2, EmptyFields DEF MgrOK
  <2>5. DOMAIN w.reg = DOMAIN m.reg /\ w.reg[id] = s /\ \A i \in DOMAIN m.reg : i # id => w.reg[i] = m.reg[i]
    BY <1>2, <2>4
  <2>6. MgrOK(w)
    BY <2>1, <2>3, <2>4, <2>5 DEF MgrOK
  <2>7. w.reg[id].attempts <= m.reg[id].attempts + 1
    BY <2>3, <2>5
  <2> QED
    BY <1>2, <2>3, <2>4, <2>5, <2>6, <2>7, AnsweredGood
<1> QED
  BY <1>1, <1>2

-----------------------------------------------------------------------------
(* Registrations told to the router.                                       *)

LEMMA OnRegister ==
    ASSUME NEW a, NEW on, NEW off, NEW q, NEW push, a \notin off,
           a \in on \/ On(a, <<>>, q, push)
    PROVE  On(a, <<[type |-> "register", activate |-> on, expired |-> off]>>, q, push)
<1> DEFINE msg == [type |-> "register", activate |-> on, expired |-> off]
           o == <<msg>>
<1>1. DOMAIN o = {1} /\ o[1] = msg /\ msg.activate = on /\ msg.expired = off /\ msg.type = "register"
  OBVIOUS
<1>2. DOMAIN <<>> = {}
  OBVIOUS
<1>3. ~TurnedOn(a, <<>>)
  BY <1>2 DEF TurnedOn
<1> HIDE DEF o, msg
<1>4. Kept(a, o)
  BY <1>1 DEF Kept, Unsets
<1>5. a \in on => TurnedOn(a, o)
  BY <1>1 DEF TurnedOn, Unsets
<1>6. On(a, o, q, push)
  BY <1>3, <1>4, <1>5 DEF On
<1> QED
  BY <1>6 DEF o, msg

LEMMA RegisterGood ==
    ASSUME NEW m, NEW w, NEW dn, NEW live, NEW q, NEW push,
           NEW on \in SUBSET Accounts, NEW off \in SUBSET Accounts,
           MgrOK(m), m.out = <<>>, Flights(m, dn), OwedListed(m), Listed(m, live),
           \A id \in DOMAIN m.reg : ~m.reg[id].moved =>
               \A a \in m.reg[id].members : a \notin off /\ (a \in on \/ On(a, <<>>, q, push)),
           w = Register(m, on, off)
    PROVE  Good(w, dn, live, q, push)
<1>1. CASE on \cup off = {}
  <2>1. w = m
    BY <1>1 DEF Register
  <2>2. Words(m, q, push)
    BY <1>1 DEF Words
  <2> QED
    BY <2>1, <2>2 DEF Good
<1>2. CASE on \cup off # {}
  <2> DEFINE msg == [type |-> "register", activate |-> on, expired |-> off]
             o == <<msg>>
  <2>1. w = [m EXCEPT !.out = o]
    BY <1>2 DEF Register
  <2>2. o \in Seq(Registers) /\ Len(o) <= 1
    <3>1. msg \in Registers
      BY DEF Registers
    <3> HIDE DEF msg
    <3> QED
      BY <3>1
  <2>3. \A id \in DOMAIN m.reg : ~m.reg[id].moved => \A a \in m.reg[id].members : On(a, o, q, push)
    BY OnRegister
  <2> HIDE DEF o
  <2>4. /\ w.reg = m.reg /\ w.ids = m.ids /\ w.retry = m.retry /\ w.due = m.due /\ w.armed = m.armed
        /\ w.calls = m.calls /\ w.out = o /\ DOMAIN w = DOMAIN m
    BY <2>1, EmptyFields DEF MgrOK
  <2>5. MgrOK(w)
    <3>1. w.out \in Seq(Registers) /\ Len(w.out) <= 1
      BY <2>2, <2>4, Zenon
    <3> QED
      BY <2>4, <3>1, Zenon DEF MgrOK
  <2>6. Words(w, q, push)
    BY <2>3, <2>4 DEF Words
  <2>7. Flights(w, dn) /\ OwedListed(w) /\ Listed(w, live)
    BY <2>4 DEF Flights, OwedListed, Listed
  <2> QED
    BY <2>5, <2>6, <2>7 DEF Good
<1> QED
  BY <1>1, <1>2

-----------------------------------------------------------------------------
(* A notification.                                                         *)

(* w is m with something queued for the ids of `to`. *)
QueuedFor(m, w, to) ==
    /\ DOMAIN w.reg = DOMAIN m.reg
    /\ \A i \in DOMAIN m.reg : i \notin to => w.reg[i] = m.reg[i]
    /\ \A i \in to : w.reg[i].attempts = m.reg[i].attempts /\ w.reg[i].inFlight = m.reg[i].inFlight

LEMMA QueueFields ==
    ASSUME NEW m, MgrOK(m), NEW to \in SUBSET DOMAIN m.reg, NEW n \in Notes, NEW w, w = Queue(m, to, n)
    PROVE  /\ MgrOK(w) /\ w.ids = m.ids /\ w.retry = m.retry /\ w.out = m.out
           /\ Sends(m, w, {}) /\ QueuedFor(m, w, to)
<1>1. /\ DOMAIN m = DOMAIN Empty /\ DOMAIN m.reg \subseteq Ids
      /\ \A id \in DOMAIN m.reg : m.reg[id] \in RegRecord
  BY DEF MgrOK
<1>2. /\ DOMAIN w = DOMAIN m /\ w.ids = m.ids /\ w.retry = m.retry /\ w.due = m.due
      /\ w.armed = m.armed /\ w.out = m.out /\ w.calls = m.calls
      /\ w.reg = [i \in DOMAIN m.reg |->
                     IF i \in to THEN [m.reg[i] EXCEPT !.notes = @ \cup {n}] ELSE m.reg[i]]
  BY <1>1, EmptyFields DEF Queue
<1>3. /\ DOMAIN w.reg = DOMAIN m.reg
      /\ \A i \in DOMAIN m.reg : i \notin to => w.reg[i] = m.reg[i]
      /\ \A i \in to : w.reg[i] = [m.reg[i] EXCEPT !.notes = @ \cup {n}]
  BY <1>2
<1>4. ASSUME NEW r \in RegRecord, NEW s, s = [r EXCEPT !.notes = @ \cup {n}]
      PROVE  s \in RegRecord /\ Same(r, s) /\ s.attempts = r.attempts /\ s.inFlight = r.inFlight
  <2>1. r.notes \cup {n} \in SUBSET Notes
    BY DEF RegRecord
  <2>2. Same(r, s) /\ s.attempts = r.attempts /\ s.inFlight = r.inFlight
    BY <1>4 DEF RegRecord, Same
  <2>3. s \in RegRecord
    BY <1>4, <2>1 DEF RegRecord
  <2> QED
    BY <2>2, <2>3
<1>5. \A i \in to : /\ w.reg[i] \in RegRecord /\ Same(m.reg[i], w.reg[i])
                    /\ w.reg[i].attempts = m.reg[i].attempts /\ w.reg[i].inFlight = m.reg[i].inFlight
  BY <1>1, <1>3, <1>4
<1>6. \A i \in DOMAIN m.reg : w.reg[i] \in RegRecord /\ Same(m.reg[i], w.reg[i])
  BY <1>1, <1>3, <1>5 DEF Same
<1>7. MgrOK(w)
  BY <1>1, <1>2, <1>3, <1>6 DEF MgrOK
<1>8. w.calls = m.calls \cup {[id |-> i, notes |-> m.reg[i].notes] : i \in {}}
  BY <1>2
<1>9. Sends(m, w, {})
  BY <1>3, <1>5, <1>6, <1>8 DEF Sends
<1>10. QueuedFor(m, w, to)
  BY <1>3, <1>5 DEF QueuedFor
<1> QED
  BY <1>2, <1>7, <1>9, <1>10

LEMMA PushGood ==
    ASSUME NEW m, NEW w, NEW dn, NEW live, NEW q, NEW push, NEW n \in Notes,
           Good(m, dn, live, q, push), m.out = <<>>, w = OnPush(m, n)
    PROVE  Good(w, dn, live, q, push)
<1> DEFINE a == About[n]
           known == m.ids[a] \cap DOMAIN m.reg
           over == {id \in known : m.reg[id].lapsed}
           wanted == known \ over
           ready == {id \in wanted : PushReady(m.reg[id])}
           m1 == [m EXCEPT !.reg = [i \in DOMAIN m.reg \ over |-> m.reg[i]], !.ids[a] = known]
           m2 == Queue(m1, wanted, n)
           m3 == Send(m2, ready)
           m4 == [m3 EXCEPT !.retry = (@ \ ready) \cup (wanted \ ready)]
           off == IF known = {} THEN {a} ELSE {}
<1>1. MgrOK(m) /\ Flights(m, dn) /\ OwedListed(m) /\ Listed(m, live) /\ Words(m, q, push)
  BY DEF Good
<1>2. a \in Accounts /\ DOMAIN m = DOMAIN Empty /\ DOMAIN m.reg \subseteq Ids
  BY <1>1, Constants DEF MgrOK
<1>3. m.ids[a] = {} => w = m
  BY DEF OnPush
<1>4. m.ids[a] # {} => w = Register(m4, {}, off)
  BY DEF OnPush
<1>5. /\ known = m.ids[a] \cap DOMAIN m.reg /\ over \subseteq known /\ wanted = known \ over
      /\ ready \subseteq wanted /\ \A id \in over : m.reg[id].lapsed
      /\ \A id \in ready : ~m.reg[id].inFlight /\ (m.reg[id].attempts = 0 \/ m.reg[id].attempts < MaxAttempts)
  BY DEF PushReady
<1>6. /\ DOMAIN m1 = DOMAIN m /\ m1.retry = m.retry /\ m1.due = m.due /\ m1.armed = m.armed
      /\ m1.out = m.out /\ m1.calls = m.calls /\ m1.ids = [m.ids EXCEPT ![a] = known]
      /\ m1.reg = [i \in DOMAIN m.reg \ over |-> m.reg[i]]
  <2> HIDE DEF known, over
  <2> QED
    BY <1>2, EmptyFields
<1> HIDE DEF m1
<1>m. m2 = Queue(m1, wanted, n)
  OBVIOUS
<1>7. m3 = Send(m2, ready)
      /\ m4 = [m3 EXCEPT !.retry = (@ \ ready) \cup (wanted \ ready)]
      /\ (known = {} => off = {a}) /\ (known # {} => off = {}) /\ off \subseteq Accounts
  BY <1>2
<1> HIDE DEF m2, m3, m4, off, known, over, wanted, ready
<1>8. DOMAIN m1.reg = DOMAIN m.reg \ over /\ \A i \in DOMAIN m1.reg : m1.reg[i] = m.reg[i]
  BY <1>6
<1>9. m1.ids \in [Accounts -> SUBSET Ids] /\ m1.ids[a] = known /\ \A b \in Accounts : b # a => m1.ids[b] = m.ids[b]
  BY <1>1, <1>2, <1>5, <1>6 DEF MgrOK
<1>10. MgrOK(m1)
  BY <1>1, <1>6, <1>8, <1>9 DEF MgrOK
<1>11. Flights(m1, dn)
  BY <1>1, <1>6, <1>8 DEF Flights
<1>12. Listed(m1, live)
  <2>1. ASSUME NEW id \in DOMAIN m1.reg, NEW b \in m1.reg[id].members
        PROVE  id \in m1.ids[b]
    <3>1. id \in m.ids[b] /\ id \in DOMAIN m.reg
      BY <1>1, <1>8, <2>1 DEF Listed
    <3>2. b \in Accounts
      BY <1>10, <2>1 DEF MgrOK, RegRecord
    <3> QED
      BY <1>5, <1>9, <3>1, <3>2
  <2>2. ASSUME NEW id \in Ids, id \in m1.ids[id[1]], id \in DOMAIN m1.reg => m1.reg[id].lapsed
        PROVE  id \notin live
    <3>1. id[1] \in Accounts
      BY DEF Ids, Accounts
    <3>2. id \in m.ids[id[1]]
      BY <1>5, <1>9, <2>2, <3>1
    <3>3. id \in DOMAIN m.reg => m.reg[id].lapsed
      BY <1>5, <1>8, <2>2
    <3> QED
      BY <1>1, <3>2, <3>3 DEF Listed
  <2>3. \A id \in DOMAIN m1.reg : id[1] \in m1.reg[id].members
    BY <1>1, <1>8 DEF Listed
  <2> QED
    BY <2>1, <2>2, <2>3 DEF Listed
<1>13. wanted \in SUBSET DOMAIN m1.reg
  BY <1>5, <1>8
<1>14. /\ MgrOK(m2) /\ m2.ids = m1.ids /\ m2.retry = m1.retry /\ m2.out = m1.out
       /\ Sends(m1, m2, {}) /\ DOMAIN m2.reg = DOMAIN m1.reg
       /\ \A i \in DOMAIN m1.reg : i \notin wanted => m2.reg[i] = m1.reg[i]
       /\ \A i \in wanted : /\ m2.reg[i].attempts = m1.reg[i].attempts
                            /\ m2.reg[i].inFlight = m1.reg[i].inFlight
  <2>1. MgrOK(m2) /\ Sends(m1, m2, {}) /\ QueuedFor(m1, m2, wanted)
    BY <1>m, <1>10, <1>13, QueueFields
  <2>2. m2.ids = m1.ids /\ m2.retry = m1.retry /\ m2.out = m1.out
    BY <1>m, <1>10, <1>13, QueueFields
  <2> QED
    BY <2>1, <2>2 DEF QueuedFor
<1>15. /\ MgrOK(m3) /\ m3.ids = m2.ids /\ m3.retry = m2.retry /\ m3.due = m2.due
       /\ m3.armed = m2.armed /\ m3.out = m2.out
       /\ m3.calls = m2.calls \cup {[id |-> i, notes |-> m2.reg[i].notes] : i \in ready}
       /\ DOMAIN m3.reg = DOMAIN m2.reg
       /\ \A i \in DOMAIN m2.reg : m3.reg[i] = IF i \in ready THEN Sent(m2.reg[i]) ELSE m2.reg[i]
  <2>1. ready \in SUBSET DOMAIN m2.reg
    BY <1>5, <1>13, <1>14
  <2> QED
    BY <1>7, <1>14, <2>1, SendFields
<1>16. Sends(m2, m3, ready)
  <2>1. \A i \in DOMAIN m2.reg : m2.reg[i] \in RegRecord
    BY <1>14 DEF MgrOK
  <2>2. \A i \in ready : i \in DOMAIN m2.reg /\ m3.reg[i] = Sent(m2.reg[i])
    BY <1>5, <1>13, <1>14, <1>15
  <2>3. \A i \in ready : /\ ~m2.reg[i].inFlight
                         /\ m2.reg[i].attempts = 0 \/ m2.reg[i].attempts < MaxAttempts
    BY <1>5, <1>8, <1>13, <1>14
  <2>4. \A i \in ready : m2.reg[i].attempts < MaxAttempts
    BY <2>3, Constants
  <2>5. \A i \in ready : /\ m3.reg[i].inFlight /\ Same(m2.reg[i], m3.reg[i])
                         /\ m3.reg[i].attempts = m2.reg[i].attempts
    BY <2>1, <2>2, SentFields
  <2>6. \A i \in DOMAIN m2.reg : Same(m2.reg[i], m3.reg[i])
    BY <1>15, <2>5 DEF Same
  <2> QED
    BY <1>15, <2>2, <2>3, <2>4, <2>5, <2>6 DEF Sends
<1>17. Flights(m3, dn)
  <2>1. Flights(m2, dn)
    BY <1>10, <1>11, <1>14, SendsFlights
  <2> QED
    BY <1>14, <1>15, <1>16, <2>1, SendsFlights
<1>18. Listed(m3, live)
  <2>1. Listed(m2, live)
    <3>1. \A i \in DOMAIN m1.reg : Same(m1.reg[i], m2.reg[i])
      BY <1>14 DEF Sends
    <3> QED
      BY <1>12, <1>14, <3>1, SameListed
  <2>2. \A i \in DOMAIN m2.reg : Same(m2.reg[i], m3.reg[i])
    BY <1>16 DEF Sends
  <2> QED
    BY <1>15, <2>1, <2>2, SameListed
<1>19. /\ DOMAIN m4 = DOMAIN m3 /\ m4.reg = m3.reg /\ m4.ids = m3.ids /\ m4.due = m3.due
       /\ m4.armed = m3.armed /\ m4.out = m3.out /\ m4.calls = m3.calls
       /\ m4.retry = (m3.retry \ ready) \cup (wanted \ ready)
  <2>1. DOMAIN m3 = DOMAIN Empty
    BY <1>15 DEF MgrOK
  <2> QED
    BY <1>7, <2>1, EmptyFields
<1>20. MgrOK(m4)
  <2>1. wanted \subseteq Ids
    BY <1>2, <1>5
  <2> QED
    BY <1>15, <1>19, <2>1 DEF MgrOK
<1>21. Flights(m4, dn) /\ Listed(m4, live)
  BY <1>17, <1>18, <1>19 DEF Flights, Listed
<1>22. OwedListed(m4)
  <2> SUFFICES ASSUME NEW i \in DOMAIN m4.reg, Owed(m4.reg[i]) PROVE i \in m4.retry
    BY DEF OwedListed
  <2>1. i \in DOMAIN m2.reg /\ i \in DOMAIN m1.reg /\ i \in DOMAIN m.reg
    BY <1>8, <1>14, <1>15, <1>19
  <2>2. i \notin ready
    <3> SUFFICES ASSUME i \in ready PROVE FALSE
      OBVIOUS
    <3>1. m4.reg[i] = Sent(m2.reg[i]) /\ m2.reg[i] \in RegRecord
      BY <1>14, <1>15, <1>19, <2>1 DEF MgrOK
    <3> QED
      BY <3>1, SentFields DEF Owed
  <2>3. CASE i \in wanted
    BY <1>19, <2>2, <2>3
  <2>4. CASE i \notin wanted
    <3>1. m4.reg[i] = m.reg[i]
      BY <1>8, <1>14, <1>15, <1>19, <2>1, <2>2, <2>4
    <3>2. i \in m.retry
      BY <1>1, <2>1, <3>1 DEF OwedListed
    <3> QED
      BY <1>6, <1>14, <1>15, <1>19, <2>2, <3>2
  <2> QED
    BY <2>3, <2>4
<1>23. ASSUME NEW id \in DOMAIN m4.reg, ~m4.reg[id].moved, NEW b \in m4.reg[id].members
       PROVE  b \notin off /\ On(b, <<>>, q, push)
  <2>1. id \in DOMAIN m2.reg /\ id \in DOMAIN m1.reg /\ id \in DOMAIN m.reg
    BY <1>8, <1>14, <1>15, <1>19
  <2>2. Same(m1.reg[id], m2.reg[id]) /\ Same(m2.reg[id], m3.reg[id])
    BY <1>14, <1>16, <2>1 DEF Sends
  <2>3. ~m.reg[id].moved /\ b \in m.reg[id].members
    BY <1>8, <1>19, <1>23, <2>1, <2>2 DEF Same
  <2>4. On(b, <<>>, q, push)
    BY <1>1, <2>1, <2>3 DEF Words
  <2>5. id \in m.ids[b]
    BY <1>1, <2>1, <2>3 DEF Listed
  <2>6. b \notin off
    BY <1>5, <1>7, <2>1, <2>5
  <2> QED
    BY <2>4, <2>6
<1>24. CASE m.ids[a] = {}
  BY <1>3, <1>24
<1>25. CASE m.ids[a] # {}
  <2>1. m4.out = <<>>
    BY <1>6, <1>14, <1>15, <1>19
  <2>2. off \in SUBSET Accounts /\ {} \in SUBSET Accounts
    BY <1>7
  <2> QED
    BY <1>4, <1>20, <1>21, <1>22, <1>23, <1>25, <2>1, <2>2, RegisterGood
<1> QED
  BY <1>24, <1>25

-----------------------------------------------------------------------------
(* An update of the subscriptions of an account.                           *)

LEMMA AccountFacts ==
    ASSUME NEW u \in Users, memberOf \in [Users -> SUBSET Groups]
    PROVE  /\ Members(u) \in SUBSET Accounts /\ u \in Members(u) /\ u \in Accounts
           /\ \A v \in Users : v # u => v \notin Members(u)
           /\ Active(u) \subseteq Ids /\ Active(u) \subseteq Live /\ \A id \in Active(u) : id[1] = u
           /\ Newest(u) \subseteq Ids /\ \A id \in Newest(u) : id[1] = u /\ id \notin Active(u)
<1>1. memberOf[u] \subseteq Groups
  OBVIOUS
<1>2. /\ Members(u) \in SUBSET Accounts /\ u \in Members(u) /\ u \in Accounts
      /\ \A v \in Users : v # u => v \notin Members(u)
  BY <1>1, Constants DEF Members, Accounts
<1>3. Active(u) \subseteq Ids /\ Active(u) \subseteq Live /\ \A id \in Active(u) : id[1] = u
  BY DEF Active, IdsOf, Live
<1>4. Newest(u) \subseteq Ids /\ \A id \in Newest(u) : id[1] = u /\ sub[id] = "new"
  BY DEF Newest, IdsOf
<1>5. \A id \in Active(u) : sub[id] = "verified"
  BY DEF Active
<1> QED
  BY <1>2, <1>3, <1>4, <1>5

(* w is m with the subscriptions of act registered. *)
Inserted(m, w, act, ms) ==
    /\ DOMAIN w.reg = DOMAIN m.reg \cup act
    /\ \A i \in DOMAIN m.reg : i \notin act => w.reg[i] = m.reg[i]
    /\ \A i \in act : i \in DOMAIN m.reg => w.reg[i] = Reloaded(m.reg[i], ms)
    /\ \A i \in act : i \notin DOMAIN m.reg => w.reg[i] = Registration(ms, Unanswered(m, i))

LEMMA InsertFields ==
    ASSUME NEW m, MgrOK(m), NEW u \in Users, memberOf \in [Users -> SUBSET Groups],
           NEW w, w = Insert(m, u)
    PROVE  /\ MgrOK(w) /\ w.retry = m.retry /\ w.out = m.out /\ w.calls = m.calls
           /\ Inserted(m, w, Active(u), Members(u))
           /\ w.ids[u] = Active(u)
           /\ \A a \in Accounts : a # u /\ a \notin Members(u) => w.ids[a] = m.ids[a]
           /\ \A a \in Members(u) : a # u => w.ids[a] = m.ids[a] \cup Active(u)
<1> DEFINE act == Active(u)
           ms == Members(u)
<1>1. /\ DOMAIN m = DOMAIN Empty /\ DOMAIN m.reg \subseteq Ids /\ m.ids \in [Accounts -> SUBSET Ids]
      /\ \A id \in DOMAIN m.reg : m.reg[id] \in RegRecord
  BY DEF MgrOK
<1>2. ms \in SUBSET Accounts /\ u \in ms /\ u \in Accounts /\ act \subseteq Ids
  BY AccountFacts
<1>3. w = [m EXCEPT !.reg = [i \in DOMAIN m.reg \cup act |->
                                IF i \notin act THEN m.reg[i]
                                ELSE IF i \in DOMAIN m.reg THEN Reloaded(m.reg[i], ms)
                                ELSE Registration(ms, Unanswered(m, i))],
                    !.ids = [a \in Accounts |-> (IF a = u THEN {} ELSE m.ids[a]) \cup
                                                (IF a \in ms THEN act ELSE {})]]
  BY DEF Insert
<1> HIDE DEF act, ms
<1>4. /\ DOMAIN w = DOMAIN m /\ w.retry = m.retry /\ w.due = m.due
      /\ w.armed = m.armed /\ w.out = m.out /\ w.calls = m.calls
      /\ w.reg = [i \in DOMAIN m.reg \cup act |->
                     IF i \notin act THEN m.reg[i]
                     ELSE IF i \in DOMAIN m.reg THEN Reloaded(m.reg[i], ms)
                     ELSE Registration(ms, Unanswered(m, i))]
      /\ w.ids = [a \in Accounts |-> (IF a = u THEN {} ELSE m.ids[a]) \cup
                                     (IF a \in ms THEN act ELSE {})]
  BY <1>1, <1>3, EmptyFields
<1>5. Inserted(m, w, act, ms)
  BY <1>4 DEF Inserted
<1>6. ASSUME NEW i \in DOMAIN w.reg PROVE w.reg[i] \in RegRecord
  <2>1. i \in DOMAIN m.reg \/ i \in act
    BY <1>5, <1>6 DEF Inserted
  <2>2. CASE i \notin act
    BY <1>1, <1>5, <2>1, <2>2 DEF Inserted
  <2>3. CASE i \in act /\ i \in DOMAIN m.reg
    BY <1>1, <1>2, <1>5, <2>3, ReloadedFields DEF Inserted
  <2>4. CASE i \in act /\ i \notin DOMAIN m.reg
    <3>1. Unanswered(m, i) \in BOOLEAN
      BY DEF Unanswered
    <3>2. w.reg[i] = Registration(ms, Unanswered(m, i))
      BY <1>5, <2>4 DEF Inserted
    <3> QED
      BY <1>2, <3>1, <3>2, RegistrationFields
  <2> QED
    BY <2>2, <2>3, <2>4
<1>7. /\ w.ids \in [Accounts -> SUBSET Ids] /\ w.ids[u] = act
      /\ \A a \in Accounts : a # u /\ a \notin ms => w.ids[a] = m.ids[a]
      /\ \A a \in ms : a # u => w.ids[a] = m.ids[a] \cup act
  BY <1>1, <1>2, <1>4
<1>8. DOMAIN w.reg \subseteq Ids
  BY <1>1, <1>2, <1>5 DEF Inserted
<1>9. MgrOK(w)
  BY <1>4, <1>6, <1>7, <1>8 DEF MgrOK
<1> QED
  BY <1>4, <1>5, <1>7, <1>9 DEF act, ms

(* w is m without the subscriptions of gone. *)
Removed(m, w, gone) ==
    /\ DOMAIN w.reg = DOMAIN m.reg \ gone /\ \A i \in DOMAIN w.reg : w.reg[i] = m.reg[i]
    /\ \A a \in Accounts : w.ids[a] =
          m.ids[a] \ {i \in gone \cap DOMAIN m.reg : a \in m.reg[i].members}

LEMMA RemoveFields ==
    ASSUME NEW m, MgrOK(m), NEW gone, NEW w, w = Remove(m, gone)
    PROVE  /\ MgrOK(w) /\ w.retry = m.retry /\ w.out = m.out /\ w.calls = m.calls
           /\ Removed(m, w, gone)
<1> DEFINE known == gone \cap DOMAIN m.reg
<1>1. /\ DOMAIN m = DOMAIN Empty /\ DOMAIN m.reg \subseteq Ids /\ m.ids \in [Accounts -> SUBSET Ids]
      /\ \A id \in DOMAIN m.reg : m.reg[id] \in RegRecord
  BY DEF MgrOK
<1>2. /\ DOMAIN w = DOMAIN m /\ w.retry = m.retry /\ w.due = m.due
      /\ w.armed = m.armed /\ w.out = m.out /\ w.calls = m.calls
      /\ w.reg = [i \in DOMAIN m.reg \ known |-> m.reg[i]]
      /\ w.ids = [a \in Accounts |-> m.ids[a] \ {i \in known : a \in m.reg[i].members}]
  BY <1>1, EmptyFields DEF Remove
<1>3. DOMAIN w.reg = DOMAIN m.reg \ gone /\ \A i \in DOMAIN w.reg : w.reg[i] = m.reg[i]
  BY <1>2
<1>4. \A a \in Accounts : w.ids[a] =
          m.ids[a] \ {i \in gone \cap DOMAIN m.reg : a \in m.reg[i].members}
  BY <1>2
<1>5. w.ids \in [Accounts -> SUBSET Ids]
  BY <1>1, <1>2
<1> HIDE DEF known
<1>6. MgrOK(w)
  BY <1>1, <1>2, <1>3, <1>5 DEF MgrOK
<1> QED
  BY <1>2, <1>3, <1>4, <1>6 DEF Removed

(* A registration that is new answers for no earlier request, or says so. *)
LEMMA InsertFlights ==
    ASSUME NEW m, NEW w, NEW act, NEW ms \in SUBSET Accounts, MgrOK(m), MgrOK(w), w.calls = m.calls,
           Inserted(m, w, act, ms), Flights(m, down)
    PROVE  Flights(w, down)
<1> SUFFICES ASSUME NEW id \in DOMAIN w.reg, ~w.reg[id].again
             PROVE  FlightOf(id, w.reg[id], m.calls, down)
  BY DEF Flights
<1>1. CASE id \in DOMAIN m.reg
  <2>1. m.reg[id] \in RegRecord
    BY <1>1 DEF MgrOK
  <2>2. w.reg[id] = m.reg[id] \/ w.reg[id] = Reloaded(m.reg[id], ms)
    BY <1>1 DEF Inserted
  <2>3. /\ w.reg[id].again = m.reg[id].again /\ w.reg[id].attempts = m.reg[id].attempts
        /\ w.reg[id].inFlight = m.reg[id].inFlight
    BY <2>1, <2>2, ReloadedFields
  <2>4. FlightOf(id, m.reg[id], m.calls, down)
    BY <1>1, <2>3 DEF Flights
  <2> QED
    BY <2>3, <2>4 DEF FlightOf
<1>2. CASE id \notin DOMAIN m.reg
  <2>1. id \in act /\ w.reg[id] = Registration(ms, Unanswered(m, id))
    BY <1>2 DEF Inserted
  <2>2. Unanswered(m, id) \in BOOLEAN
    BY DEF Unanswered
  <2>3. ~Unanswered(m, id) /\ w.reg[id].attempts = 0 /\ ~w.reg[id].inFlight
    BY <2>1, <2>2, RegistrationFields
  <2>4. (\A c \in m.calls : c.id # id) /\ \A i \in DOMAIN down : ~IsAnswer(down[i], id)
    BY <2>3 DEF Unanswered, IsAnswer
  <2>5. w.reg[id].attempts <= MaxAttempts
    BY <2>3, Constants
  <2> QED
    BY <2>3, <2>4, <2>5 DEF FlightOf
<1> QED
  BY <1>1, <1>2

LEMMA UpdateGood ==
    ASSUME NEW m, NEW w, NEW live, NEW q, NEW push, NEW u \in Users,
           memberOf \in [Users -> SUBSET Groups],
           Good(m, down, Live, q, push), m.out = <<>>, live \subseteq Live \cup Newest(u),
           w = OnUpdate(m, u)
    PROVE  Good(w, down, live, q, push)
<1> DEFINE act == Active(u)
           ms == Members(u)
           old == m.ids[u]
           m1 == Insert(m, u)
           cur == m1.ids[u]
           m2 == Remove(m1, old \ cur)
           on == IF cur # {} /\ cur # old THEN ms ELSE {}
           off == {a \in Accounts : m1.ids[a] # {} /\ m2.ids[a] = {}}
<1>1. MgrOK(m) /\ Flights(m, down) /\ OwedListed(m) /\ Listed(m, Live) /\ Words(m, q, push)
  BY DEF Good
<1>2. /\ ms \in SUBSET Accounts /\ u \in ms /\ u \in Accounts
      /\ \A v \in Users : v # u => v \notin ms
      /\ act \subseteq Ids /\ act \subseteq Live /\ \A id \in act : id[1] = u
      /\ \A id \in Newest(u) : id[1] = u /\ id \notin act
  BY AccountFacts
<1>3. /\ MgrOK(m1) /\ m1.retry = m.retry /\ m1.out = m.out /\ m1.calls = m.calls
      /\ Inserted(m, m1, act, ms) /\ m1.ids[u] = act
      /\ \A a \in Accounts : a # u /\ a \notin ms => m1.ids[a] = m.ids[a]
      /\ \A a \in ms : a # u => m1.ids[a] = m.ids[a] \cup act
  <2> HIDE DEF m1
  <2>1. m1 = Insert(m, u)
    BY DEF m1
  <2> QED
    BY <1>1, <2>1, InsertFields
<1>4. w = Register(m2, on, off)
  BY DEF OnUpdate
<1>5. /\ cur = act /\ m2 = Remove(m1, old \ act) /\ old = m.ids[u]
      /\ off \in SUBSET Accounts /\ \A a \in off : m2.ids[a] = {}
      /\ on \in SUBSET Accounts /\ (act # {} /\ act # old => on = ms)
  BY <1>2, <1>3
<1> HIDE DEF act, ms, old, m1, m2, cur, on, off
<1>6. /\ MgrOK(m2) /\ m2.retry = m1.retry /\ m2.out = m1.out /\ m2.calls = m1.calls
      /\ Removed(m1, m2, old \ act)
  BY <1>3, <1>5, RemoveFields
<1>7. Flights(m2, down)
  <2>1. Flights(m1, down)
    BY <1>1, <1>2, <1>3, InsertFlights
  <2> QED
    BY <1>6, <2>1 DEF Flights, Removed
<1>8. /\ \A i \in DOMAIN m.reg : m.reg[i] \in RegRecord /\ i \in Ids
      /\ \A i \in DOMAIN m1.reg : m1.reg[i] \in RegRecord /\ i \in Ids
  BY <1>1, <1>3 DEF MgrOK
<1>9. \A i : Unanswered(m, i) \in BOOLEAN
  BY DEF Unanswered
(* What is registered after the insertion. *)
<1>10. ASSUME NEW i \in act
       PROVE  /\ i \in DOMAIN m1.reg /\ m1.reg[i].members = ms /\ ~m1.reg[i].lapsed
              /\ ~m1.reg[i].moved /\ i \in DOMAIN m.reg => ~m.reg[i].moved /\ m.reg[i].members = ms
  <2>1. i \in DOMAIN m1.reg
    BY <1>3, <1>10 DEF Inserted
  <2>2. CASE i \in DOMAIN m.reg
    <3>1. m1.reg[i] = Reloaded(m.reg[i], ms)
      BY <1>3, <2>2 DEF Inserted
    <3> QED
      BY <1>2, <1>8, <2>1, <2>2, <3>1, ReloadedFields
  <2>3. CASE i \notin DOMAIN m.reg
    <3>1. m1.reg[i] = Registration(ms, Unanswered(m, i))
      BY <1>3, <2>3 DEF Inserted
    <3>2. Unanswered(m, i) \in BOOLEAN
      BY DEF Unanswered
    <3>3. m1.reg[i].members = ms /\ ~m1.reg[i].lapsed
      BY <1>2, <3>1, <3>2, RegistrationFields
    <3> QED
      BY <2>1, <2>3, <3>3
  <2> QED
    BY <2>2, <2>3
<1>11. ASSUME NEW i \in DOMAIN m1.reg, i \notin act
       PROVE  i \in DOMAIN m.reg /\ m1.reg[i] = m.reg[i]
  BY <1>3, <1>11 DEF Inserted
<1>12. OwedListed(m2)
  <2>1. ASSUME NEW i \in DOMAIN m1.reg, Owed(m1.reg[i]) PROVE i \in m.retry
    <3>1. CASE i \notin DOMAIN m.reg
      <4>1. i \in act /\ m1.reg[i] = Registration(ms, Unanswered(m, i))
        BY <1>3, <3>1 DEF Inserted
      <4> QED
        BY <1>2, <1>9, <2>1, <4>1, RegistrationFields DEF Owed
    <3>2. CASE i \in DOMAIN m.reg
      <4>1. m1.reg[i] = m.reg[i] \/ m1.reg[i] = Reloaded(m.reg[i], ms)
        BY <1>3, <3>2 DEF Inserted
      <4>2. Owed(m.reg[i])
        BY <1>2, <1>8, <2>1, <3>2, <4>1, ReloadedFields DEF Owed
      <4> QED
        BY <1>1, <3>2, <4>2 DEF OwedListed
    <3> QED
      BY <3>1, <3>2
  <2> QED
    BY <1>3, <1>6, <2>1 DEF OwedListed, Removed
(* Every id that stays is still listed. *)
<1>13. ASSUME NEW i \in DOMAIN m2.reg
       PROVE  /\ i \in DOMAIN m1.reg /\ m2.reg[i] = m1.reg[i]
              /\ i[1] \in m2.reg[i].members /\ \A a \in m2.reg[i].members : a \in Accounts /\ i \in m2.ids[a]
  <2>1. i \in DOMAIN m1.reg /\ m2.reg[i] = m1.reg[i] /\ i \notin old \ act
    BY <1>6, <1>13 DEF Removed
  <2>2. \A a \in m1.reg[i].members : a \in Accounts
    BY <1>8, <2>1 DEF RegRecord
  <2>3. CASE i \in act
    <3>1. m1.reg[i].members = ms /\ i[1] = u
      BY <1>2, <1>10, <2>3
    <3>2. \A a \in ms : i \in m1.ids[a]
      BY <1>2, <1>3, <2>3
    <3>3. \A a \in ms : a \in Accounts /\ i \in m2.ids[a]
      BY <1>2, <1>6, <2>1, <3>2 DEF Removed
    <3> QED
      BY <1>2, <2>1, <3>1, <3>3
  <2>4. CASE i \notin act
    <3>1. i \in DOMAIN m.reg /\ m1.reg[i] = m.reg[i]
      BY <1>11, <2>1, <2>4
    <3>2. i[1] \in m.reg[i].members /\ \A a \in m.reg[i].members : i \in m.ids[a]
      BY <1>1, <3>1 DEF Listed
    <3>3. u \notin m.reg[i].members
      BY <1>5, <2>1, <2>4, <3>2
    <3>4. \A a \in m.reg[i].members : i \in m1.ids[a]
      BY <1>3, <2>2, <3>1, <3>2, <3>3
    <3>5. \A a \in m.reg[i].members : i \in m2.ids[a]
      BY <1>6, <2>1, <2>2, <3>1, <3>4 DEF Removed
    <3> QED
      BY <2>1, <2>2, <3>1, <3>2, <3>5
  <2> QED
    BY <2>3, <2>4
<1>14. ASSUME NEW i \in Ids, i \in m2.ids[i[1]], i \in DOMAIN m2.reg => m2.reg[i].lapsed
       PROVE  i \notin live
  <2>1. i[1] \in Users /\ i[1] \in Accounts
    BY DEF Ids, Accounts
  <2>2. i \in m1.ids[i[1]] /\ ~(i \in (old \ act) \cap DOMAIN m1.reg /\ i[1] \in m1.reg[i].members)
    BY <1>6, <1>14, <2>1 DEF Removed
  <2>3. CASE i[1] = u
    <3>1. i \in act
      BY <1>3, <2>2, <2>3
    <3>2. i \in DOMAIN m1.reg /\ ~m1.reg[i].lapsed
      BY <1>10, <3>1
    <3>3. i \in DOMAIN m2.reg /\ m2.reg[i] = m1.reg[i]
      BY <1>6, <3>1, <3>2 DEF Removed
    <3> QED
      BY <1>14, <3>2, <3>3
  <2>4. CASE i[1] # u
    <3>1. i \notin act /\ i \notin Newest(u)
      BY <1>2, <2>4
    <3>2. i \in m.ids[i[1]]
      BY <1>2, <1>3, <2>1, <2>2, <2>4
    <3>3. ASSUME i \in DOMAIN m.reg PROVE m.reg[i].lapsed
      <4>1. i \in DOMAIN m1.reg /\ m1.reg[i] = m.reg[i]
        BY <1>3, <3>1, <3>3 DEF Inserted
      <4>2. i[1] \in m1.reg[i].members
        BY <1>1, <3>3, <4>1 DEF Listed
      <4>3. i \in DOMAIN m2.reg /\ m2.reg[i] = m1.reg[i]
        BY <1>6, <2>2, <4>1, <4>2 DEF Removed
      <4> QED
        BY <1>14, <4>1, <4>3
    <3>4. i \notin Live
      BY <1>1, <3>2, <3>3 DEF Listed
    <3> QED
      BY <3>1, <3>4
  <2> QED
    BY <2>3, <2>4
<1>15. Listed(m2, live)
  BY <1>13, <1>14 DEF Listed
<1>16. ASSUME NEW i \in DOMAIN m2.reg, ~m2.reg[i].moved, NEW a \in m2.reg[i].members
       PROVE  a \notin off /\ (a \in on \/ On(a, <<>>, q, push))
  <2>1. i \in DOMAIN m1.reg /\ m2.reg[i] = m1.reg[i] /\ a \in Accounts /\ i \in m2.ids[a]
    BY <1>13, <1>16
  <2>2. a \notin off
    BY <1>5, <2>1
  <2>3. ASSUME i \in DOMAIN m.reg, ~m.reg[i].moved, a \in m.reg[i].members PROVE On(a, <<>>, q, push)
    BY <1>1, <2>3 DEF Words
  <2>4. CASE i \notin act
    BY <1>11, <1>16, <2>1, <2>2, <2>3, <2>4
  <2>5. CASE i \in act /\ act # old
    BY <1>5, <1>10, <1>16, <2>1, <2>2, <2>5
  <2>6. CASE i \in act /\ act = old
    <3>1. i \in m.ids[i[1]] /\ i \in Live /\ i \in Ids
      BY <1>2, <1>5, <2>6
    <3>2. i \in DOMAIN m.reg
      BY <1>1, <3>1 DEF Listed
    <3>3. ~m.reg[i].moved /\ m.reg[i].members = ms /\ a \in ms
      BY <1>10, <1>16, <2>1, <2>6, <3>2
    <3> QED
      BY <2>2, <2>3, <3>2, <3>3
  <2> QED
    BY <2>4, <2>5, <2>6
<1>17. m2.out = <<>>
  BY <1>3, <1>6
<1> QED
  BY <1>4, <1>5, <1>6, <1>7, <1>12, <1>15, <1>16, <1>17, RegisterGood

-----------------------------------------------------------------------------
(* Steps that leave most of the state alone.                               *)

LEMMA ShrinkLive ==
    ASSUME NEW m, NEW dn, NEW live, NEW live2, NEW q, NEW push, Good(m, dn, live, q, push),
           live2 \subseteq live
    PROVE  Good(m, dn, live2, q, push)
<1>1. Listed(m, live2)
  BY DEF Good, Listed
<1> QED
  BY <1>1 DEF Good

LEMMA GoodAppend ==
    ASSUME NEW m, NEW dn, NEW live, NEW q \in Seq(UpMessages), NEW push, Good(m, dn, live, q, push),
           NEW msg \in UpMessages, msg.type # "register"
    PROVE  Good(m, dn, live, Append(q, msg), push)
<1>1. Words(m, Append(q, msg), push)
  BY OnAppend DEF Good, Words
<1> QED
  BY <1>1 DEF Good

(* A manager that differs only in its times is as good. *)
LEMMA GoodTimes ==
    ASSUME NEW m, NEW w, NEW dn, NEW live, NEW q, NEW push, Good(m, dn, live, q, push), Armed(m),
           MgrOK(w), DOMAIN w.reg = DOMAIN m.reg, w.ids = m.ids, w.calls = m.calls, w.out = m.out,
           w.retry = m.retry, w.armed = m.armed,
           \A i \in DOMAIN m.reg :
               /\ Same(m.reg[i], w.reg[i]) /\ w.reg[i].attempts = m.reg[i].attempts
               /\ w.reg[i].inFlight = m.reg[i].inFlight /\ (Owed(w.reg[i]) => Owed(m.reg[i]))
    PROVE  Good(w, dn, live, q, push) /\ Armed(w)
<1>1. MgrOK(m) /\ Flights(m, dn) /\ OwedListed(m) /\ Listed(m, live) /\ Words(m, q, push)
  BY DEF Good
<1>2. w.calls = m.calls \cup {[id |-> i, notes |-> m.reg[i].notes] : i \in {}}
  OBVIOUS
<1>3. Sends(m, w, {})
  BY <1>2 DEF Sends
<1>4. Flights(w, dn)
  BY <1>1, <1>3, SendsFlights
<1>5. Listed(w, live) /\ Words(w, q, push)
  BY <1>1, SameListed, SameWords
<1>6. OwedListed(w) /\ Armed(w)
  BY <1>1 DEF OwedListed, Armed
<1> QED
  BY <1>4, <1>5, <1>6 DEF Good

LEMMA StepRest ==
    ASSUME Ind, NEW id \in DOMAIN mgr.reg, Rest(id)
    PROVE  Ind'
<1>1. Good(mgr, down, Live, up, router.push) /\ Armed(mgr) /\ MgrOK(mgr)
  BY DEF Ind, Good
<1>2. mgr' = [mgr EXCEPT !.reg[id].rested = TRUE]
  BY DEF Rest
<1>3. mgr.reg[id] \in RegRecord /\ DOMAIN mgr = DOMAIN Empty
  BY <1>1 DEF MgrOK
<1> DEFINE s == [mgr.reg[id] EXCEPT !.rested = TRUE]
<1>4. /\ s \in RegRecord /\ Same(mgr.reg[id], s) /\ s.attempts = mgr.reg[id].attempts
      /\ s.inFlight = mgr.reg[id].inFlight /\ (Owed(s) => Owed(mgr.reg[id]))
  BY <1>3 DEF RegRecord, Same, Owed
<1>5. /\ DOMAIN mgr' = DOMAIN mgr /\ mgr'.ids = mgr.ids /\ mgr'.out = mgr.out /\ mgr'.calls = mgr.calls
      /\ mgr'.retry = mgr.retry /\ mgr'.armed = mgr.armed /\ mgr'.due = mgr.due
      /\ mgr'.reg = [mgr.reg EXCEPT ![id] = s]
  BY <1>2, <1>3, EmptyFields
<1> HIDE DEF s
<1>6. DOMAIN mgr'.reg = DOMAIN mgr.reg /\ mgr'.reg[id] = s
      /\ \A i \in DOMAIN mgr.reg : i # id => mgr'.reg[i] = mgr.reg[i]
  BY <1>5
<1>7. MgrOK(mgr')
  BY <1>1, <1>4, <1>5, <1>6 DEF MgrOK
<1>8. \A i \in DOMAIN mgr.reg :
        /\ Same(mgr.reg[i], mgr'.reg[i]) /\ mgr'.reg[i].attempts = mgr.reg[i].attempts
        /\ mgr'.reg[i].inFlight = mgr.reg[i].inFlight /\ (Owed(mgr'.reg[i]) => Owed(mgr.reg[i]))
  BY <1>4, <1>6 DEF Same
<1>9. Good(mgr', down, Live, up, router.push) /\ Armed(mgr')
  BY <1>1, <1>5, <1>6, <1>7, <1>8, GoodTimes
<1> QED
  BY <1>9 DEF Ind, Rest, store, history, StoreTypes, UpTypes, DownTypes, RouterTypes, OtherTypes,
              CodesNew, ClientsKept, Live

LEMMA StepRetryDue ==
    ASSUME Ind, RetryDue
    PROVE  Ind'
<1>1. Good(mgr, down, Live, up, router.push) /\ Armed(mgr) /\ MgrOK(mgr)
  BY DEF Ind, Good
<1>2. DOMAIN mgr = DOMAIN Empty
  BY <1>1 DEF MgrOK
<1>3. /\ DOMAIN mgr' = DOMAIN mgr /\ mgr'.ids = mgr.ids /\ mgr'.out = mgr.out /\ mgr'.calls = mgr.calls
      /\ mgr'.retry = mgr.retry /\ mgr'.armed = mgr.armed /\ mgr'.due = TRUE /\ mgr'.reg = mgr.reg
  BY <1>2, EmptyFields DEF RetryDue
<1>4. MgrOK(mgr')
  BY <1>1, <1>3 DEF MgrOK
<1>5. Good(mgr', down, Live, up, router.push) /\ Armed(mgr')
  BY <1>1, <1>3, <1>4, GoodTimes DEF Same
<1> QED
  BY <1>5 DEF Ind, RetryDue, store, history, StoreTypes, UpTypes, DownTypes, RouterTypes, OtherTypes,
              CodesNew, ClientsKept, Live

(* A request ends: the call under way becomes the answer under way. *)
LEMMA StepRespond ==
    ASSUME Ind, NEW c \in mgr.calls, NEW parts, Respond(c, parts)
    PROVE  Ind'
<1>1. Good(mgr, down, Live, up, router.push) /\ Armed(mgr) /\ MgrOK(mgr)
  BY DEF Ind, Good
<1>2. DOMAIN mgr = DOMAIN Empty /\ c \in [id : Ids, notes : SUBSET Notes]
  BY <1>1 DEF MgrOK
<1>3. PICK msg : /\ msg \in DownMessages /\ msg.type \in {"success", "failure"} /\ msg.id = c.id
                 /\ down' = Append(down, msg)
  <2> DEFINE ns == {n \in c.notes : Part[n] \in parts}
             m1 == [type |-> "success", id |-> c.id]
             m2 == [type |-> "failure", id |-> c.id, notes |-> ns]
  <2>1. down' = Append(down, IF ns = {} THEN m1 ELSE m2)
    BY DEF Respond
  <2>2. m1 \in DownMessages /\ m1.type \in {"success", "failure"} /\ m1.id = c.id
    BY <1>2 DEF DownMessages
  <2>3. m2 \in DownMessages /\ m2.type \in {"success", "failure"} /\ m2.id = c.id
    <3>1. ns \in SUBSET Notes
      BY <1>2
    <3> HIDE DEF ns
    <3> QED
      BY <1>2, <3>1 DEF DownMessages
  <2> HIDE DEF ns, m1, m2
  <2> QED
    BY <2>1, <2>2, <2>3
<1>4. /\ DOMAIN mgr' = DOMAIN mgr /\ mgr'.ids = mgr.ids /\ mgr'.out = mgr.out
      /\ mgr'.calls = mgr.calls \ {c} /\ mgr'.due = mgr.due
      /\ mgr'.retry = mgr.retry /\ mgr'.armed = mgr.armed /\ mgr'.reg = mgr.reg
  BY <1>2, EmptyFields DEF Respond
<1>5. MgrOK(mgr')
  BY <1>1, <1>4 DEF MgrOK
<1>6. down \in Seq(DownMessages) /\ Len(down) < Cap
  BY DEF Ind, DownTypes, Respond
<1>7. /\ down' \in Seq(DownMessages) /\ Joined(down, <<msg>>, down')
      /\ Len(down) \in Nat /\ Len(down') = Len(down) + 1
  BY <1>3, <1>6, AppendJoins
<1>8. DownTypes'
  BY <1>6, <1>7, Constants DEF DownTypes
<1>9. PICK n \in Nat :
        /\ DOMAIN down = 1..n
        /\ \A i \in DOMAIN down : i \in DOMAIN down' /\ down'[i] = down[i]
        /\ n + 1 \in DOMAIN down' /\ down'[n + 1] = msg
        /\ \A j \in DOMAIN down' : j \in DOMAIN down \/ j = n + 1
  <2>1. PICK n \in Nat :
          /\ DOMAIN down = 1..n
          /\ \A i \in DOMAIN down : i \in DOMAIN down' /\ down'[i] = down[i]
          /\ \A i \in DOMAIN <<msg>> : i \in Nat /\ i >= 1 /\ n + i \in DOMAIN down' /\ down'[n + i] = <<msg>>[i]
          /\ \A j \in DOMAIN down' : j \in Nat /\ j >= 1 /\ (j \in DOMAIN down \/ j - n \in DOMAIN <<msg>>)
    BY <1>7 DEF Joined
  <2>2. DOMAIN <<msg>> = {1} /\ <<msg>>[1] = msg
    OBVIOUS
  <2> QED
    BY <2>1, <2>2
<1>10. Flights(mgr', down')
  <2> SUFFICES ASSUME NEW id \in DOMAIN mgr.reg, ~mgr.reg[id].again
               PROVE  FlightOf(id, mgr.reg[id], mgr'.calls, down')
    BY <1>4 DEF Flights
  <2>1. FlightOf(id, mgr.reg[id], mgr.calls, down)
    BY <1>1 DEF Good, Flights
  <2>2. CASE id = c.id
    <3>1. mgr.reg[id].inFlight
      BY <2>1, <2>2 DEF FlightOf
    <3>2. \A d \in mgr'.calls : d.id # id
      BY <1>4, <2>1, <2>2 DEF FlightOf
    <3>3. \A i \in DOMAIN down : ~IsAnswer(down[i], id)
      BY <2>1, <2>2 DEF FlightOf
    <3>4. IsAnswer(down'[n + 1], id)
      BY <1>3, <1>9, <2>2 DEF IsAnswer
    <3>5. \A i \in DOMAIN down' : IsAnswer(down'[i], id) => i = n + 1
      BY <1>9, <3>3
    <3>6. mgr.reg[id].attempts <= MaxAttempts /\ mgr.reg[id].attempts < MaxAttempts
      BY <2>1, <3>1 DEF FlightOf
    <3> QED
      BY <1>9, <3>1, <3>2, <3>4, <3>5, <3>6 DEF FlightOf
  <2>3. CASE id # c.id
    <3>1. ~IsAnswer(msg, id)
      BY <1>3, <2>3 DEF IsAnswer
    <3>2. \A d : d \in mgr'.calls /\ d.id = id <=> d \in mgr.calls /\ d.id = id
      BY <1>4, <2>3
    <3>3. \A i : i \in DOMAIN down' /\ IsAnswer(down'[i], id) <=> i \in DOMAIN down /\ IsAnswer(down[i], id)
      BY <1>9, <3>1
    <3> QED
      BY <2>1, <3>2, <3>3 DEF FlightOf
  <2> QED
    BY <2>2, <2>3
<1>11. OwedListed(mgr') /\ Listed(mgr', Live) /\ Words(mgr', up, router.push) /\ Armed(mgr')
  BY <1>1, <1>4 DEF Good, OwedListed, Listed, Words, Armed
<1>12. Good(mgr', down', Live, up, router.push)
  BY <1>5, <1>10, <1>11 DEF Good
<1> QED
  BY <1>8, <1>11, <1>12 DEF Ind, Respond, store, StoreTypes, UpTypes, RouterTypes, OtherTypes,
              CodesNew, ClientsKept, Live

LEMMA StepDisconnect ==
    ASSUME Ind, NEW c \in Clients, Disconnect(c)
    PROVE  Ind'
  BY DEF Ind, Disconnect, store, history, StoreTypes, UpTypes, DownTypes, RouterTypes, OtherTypes,
         CodesNew, ClientsKept, Live

LEMMA StepJoin ==
    ASSUME Ind, NEW u \in Users, Join(u)
    PROVE  Ind'
<1>1. memberOf' \in [Users -> SUBSET Groups]
  BY DEF Ind, StoreTypes, Join
<1>2. sets' \in Nat
  BY DEF Ind, OtherTypes, Join
<1> QED
  BY <1>1, <1>2 DEF Ind, Join, StoreTypes, UpTypes, DownTypes, RouterTypes, OtherTypes,
         CodesNew, ClientsKept, Live

(* A message of a user or client joins the channel of the router. *)
LEMMA UpAppend ==
    ASSUME Ind, NEW msg \in UpMessages, msg.type # "register", Len(up) < Cap,
           up' = Append(up, msg)
    PROVE  UpTypes' /\ Good(mgr, down, Live, up', router.push)
<1>1. up \in Seq(UpMessages) /\ Good(mgr, down, Live, up, router.push)
  BY DEF Ind, UpTypes
<1>2. up' \in Seq(UpMessages) /\ Len(up) \in Nat /\ Len(up') = Len(up) + 1
  BY <1>1, AppendJoins
<1>3. Good(mgr, down, Live, up', router.push)
  BY <1>1, GoodAppend
<1> QED
  BY <1>2, <1>3, Constants DEF UpTypes

LEMMA StepPublish ==
    ASSUME Ind, NEW n \in Notes, Publish(n)
    PROVE  Ind'
<1>1. [type |-> "publish", note |-> n] \in UpMessages
  BY DEF UpMessages
<1>2. UpTypes' /\ Good(mgr, down, Live, up', router.push)
  BY <1>1, UpAppend DEF Publish
<1> QED
  BY <1>2 DEF Ind, Publish, store, StoreTypes, DownTypes, RouterTypes, OtherTypes,
         CodesNew, ClientsKept, Live

LEMMA StepSubscribe ==
    ASSUME Ind, NEW c \in Clients, NEW a \in Accounts, Subscribe(c, a)
    PROVE  Ind'
<1>1. [type |-> "subscribe", account |-> a, client |-> c] \in UpMessages
  BY DEF UpMessages
<1>2. UpTypes' /\ Good(mgr, down, Live, up', router.push)
  BY <1>1, UpAppend DEF Subscribe
<1> QED
  BY <1>2 DEF Ind, Subscribe, store, history, StoreTypes, DownTypes, RouterTypes, OtherTypes,
         CodesNew, ClientsKept, Live

-----------------------------------------------------------------------------
(* PushSubscription/set and expiry.                                        *)

(* A call makes nothing active that was not, or could not be verified. *)
LEMMA StepSet ==
    ASSUME Ind, NEW u \in Users, NEW kept \in SUBSET Unexpired(u), NEW id \in Ids, id[1] = u,
           NEW state \in {"none", "new", "verified"}, state = "verified" => id \in Live,
           Set(u, kept, id, state)
    PROVE  Ind'
<1>1. /\ sub \in [Ids -> {"none", "new", "verified"}] /\ expired \subseteq Ids /\ coded \subseteq Ids
      /\ memberOf' \in [Users -> SUBSET Groups]
  BY DEF Ind, StoreTypes, Set
<1>2. /\ sub' = [i \in Ids |-> IF i = id THEN state
                               ELSE IF i \in IdsOf(u) \ kept THEN "none" ELSE sub[i]]
      /\ expired' = expired \ IdsOf(u) /\ coded' = {i \in coded : sub'[i] = "new"}
  BY DEF Set
<1>3. sub' \in [Ids -> {"none", "new", "verified"}]
  BY <1>1, <1>2
<1>4. StoreTypes' /\ CodesNew'
  BY <1>1, <1>2, <1>3 DEF StoreTypes, CodesNew
<1>5. Live' \subseteq Live
  <2> SUFFICES ASSUME NEW i \in Live' PROVE i \in Live
    OBVIOUS
  <2>1. CASE i \in coded'
    BY <1>2, <2>1 DEF Live
  <2>2. CASE i \in Ids /\ sub'[i] = "verified" /\ i \notin expired'
    <3>1. CASE i = id
      BY <1>2, <2>2, <3>1
    <3>2. CASE i # id
      <4>1. sub[i] = "verified" /\ ~(i \in IdsOf(u) \ kept)
        BY <1>2, <2>2, <3>2
      <4>2. i \notin expired
        BY <1>2, <2>2, <4>1 DEF Unexpired
      <4> QED
        BY <2>2, <4>1, <4>2 DEF Live
    <3> QED
      BY <3>1, <3>2
  <2> QED
    BY <2>1, <2>2 DEF Live
<1>6. [type |-> "update", account |-> u] \in UpMessages
  BY DEF UpMessages, Updates
<1>7. UpTypes' /\ Good(mgr, down, Live, up', router.push)
  BY <1>6, UpAppend DEF Set
<1>8. Good(mgr, down, Live', up', router.push)
  BY <1>5, <1>7, ShrinkLive
<1>9. sets' \in Nat
  BY DEF Ind, OtherTypes, Set
<1> QED
  BY <1>4, <1>7, <1>8, <1>9 DEF Ind, Set, DownTypes, RouterTypes, OtherTypes, ClientsKept

LEMMA StepCalls ==
    ASSUME Ind, NEW u \in Users, Create(u) \/ Verify(u) \/ Destroy(u) \/ Change(u)
    PROVE  Ind'
<1>1. \A i \in Unexpired(u) : i \in Ids /\ i[1] = u /\ i \notin expired
  BY DEF Unexpired, Present, IdsOf
<1>2. sub \in [Ids -> {"none", "new", "verified"}]
  BY DEF Ind, StoreTypes
<1>3. CASE Create(u)
  <2> DEFINE id == <<u, 1 + Max({0} \cup {i[2] : i \in Present(u)})>>
  <2>1. id \in Ids /\ id[1] = u /\ Set(u, Unexpired(u), id, "new")
    BY <1>3 DEF Create
  <2> HIDE DEF id
  <2> QED
    BY <2>1, StepSet
<1>4. CASE Verify(u)
  <2>1. PICK id \in Unexpired(u) \cap coded : Set(u, Unexpired(u), id, "verified")
    BY <1>4 DEF Verify
  <2>2. id \in Live
    BY <2>1 DEF Live
  <2> QED
    BY <1>1, <2>1, <2>2, StepSet
<1>5. CASE Destroy(u)
  <2>1. PICK id \in Unexpired(u) : Set(u, Unexpired(u) \ {id}, id, "none")
    BY <1>5 DEF Destroy
  <2>2. Unexpired(u) \ {id} \in SUBSET Unexpired(u)
    OBVIOUS
  <2> QED
    BY <1>1, <2>1, <2>2, StepSet
<1>6. CASE Change(u)
  <2>1. PICK id \in Unexpired(u) : Set(u, Unexpired(u), id, sub[id])
    BY <1>6 DEF Change
  <2>2. sub[id] = "verified" => id \in Live
    BY <1>1, <2>1 DEF Live
  <2>3. sub[id] \in {"none", "new", "verified"}
    BY <1>1, <1>2, <2>1
  <2> QED
    BY <1>1, <2>1, <2>2, <2>3, StepSet
<1> QED
  BY <1>3, <1>4, <1>5, <1>6

LEMMA StepExpire ==
    ASSUME Ind, NEW id \in Ids, Expire(id)
    PROVE  Ind'
<1>1. /\ Good(mgr, down, Live, up, router.push) /\ Armed(mgr) /\ MgrOK(mgr)
      /\ Flights(mgr, down) /\ OwedListed(mgr) /\ Listed(mgr, Live) /\ Words(mgr, up, router.push)
  BY DEF Ind, Good
<1>2. StoreTypes'
  BY DEF Ind, StoreTypes, Expire
<1>3. Live' \subseteq Live \ {id}
  <2>1. id \notin coded
    BY DEF Ind, CodesNew, Expire
  <2> QED
    BY <2>1 DEF Live, Expire
<1>4. CASE id \notin DOMAIN mgr.reg
  <2>1. mgr' = mgr
    BY <1>4 DEF Expire
  <2>2. Good(mgr, down, Live', up, router.push)
    BY <1>1, <1>3, ShrinkLive
  <2> QED
    BY <1>1, <1>2, <2>1, <2>2 DEF Ind, Expire, history, UpTypes, DownTypes, RouterTypes, OtherTypes,
         CodesNew, ClientsKept
<1>5. CASE id \in DOMAIN mgr.reg
  <2> DEFINE s == [mgr.reg[id] EXCEPT !.lapsed = TRUE]
  <2>1. mgr.reg[id] \in RegRecord /\ DOMAIN mgr = DOMAIN Empty
    BY <1>1, <1>5 DEF MgrOK
  <2>2. mgr' = [mgr EXCEPT !.reg[id].lapsed = TRUE]
    BY <1>5 DEF Expire
  <2>3. /\ s \in RegRecord /\ s.lapsed /\ s.members = mgr.reg[id].members /\ s.again = mgr.reg[id].again
        /\ s.moved = mgr.reg[id].moved /\ s.attempts = mgr.reg[id].attempts
        /\ s.inFlight = mgr.reg[id].inFlight /\ (Owed(s) => Owed(mgr.reg[id]))
    BY <2>1 DEF RegRecord, Owed
  <2>4. /\ DOMAIN mgr' = DOMAIN mgr /\ mgr'.ids = mgr.ids /\ mgr'.out = mgr.out /\ mgr'.calls = mgr.calls
        /\ mgr'.retry = mgr.retry /\ mgr'.armed = mgr.armed /\ mgr'.due = mgr.due
        /\ mgr'.reg = [mgr.reg EXCEPT ![id] = s]
    BY <2>1, <2>2, EmptyFields
  <2> HIDE DEF s
  <2>5. DOMAIN mgr'.reg = DOMAIN mgr.reg /\ mgr'.reg[id] = s
        /\ \A i \in DOMAIN mgr.reg : i # id => mgr'.reg[i] = mgr.reg[i]
    BY <1>5, <2>4
  <2>6. MgrOK(mgr')
    BY <1>1, <2>3, <2>4, <2>5 DEF MgrOK
  <2>7. Flights(mgr', down)
    <3> SUFFICES ASSUME NEW i \in DOMAIN mgr.reg, ~mgr'.reg[i].again
                 PROVE  FlightOf(i, mgr'.reg[i], mgr.calls, down)
      BY <2>4, <2>5 DEF Flights
    <3>1. /\ mgr'.reg[i].attempts = mgr.reg[i].attempts /\ mgr'.reg[i].again = mgr.reg[i].again
          /\ mgr'.reg[i].inFlight = mgr.reg[i].inFlight
      BY <2>3, <2>5
    <3>2. FlightOf(i, mgr.reg[i], mgr.calls, down)
      BY <1>1, <3>1 DEF Flights
    <3> QED
      BY <3>1, <3>2 DEF FlightOf
  <2>8. OwedListed(mgr') /\ Armed(mgr')
    BY <1>1, <2>3, <2>4, <2>5 DEF OwedListed, Armed
  <2>9. Words(mgr', up, router.push)
    BY <1>1, <2>3, <2>4, <2>5 DEF Words
  <2>10. Listed(mgr', Live')
    BY <1>1, <1>3, <2>3, <2>4, <2>5 DEF Listed
  <2>11. Good(mgr', down, Live', up, router.push)
    BY <2>6, <2>7, <2>8, <2>9, <2>10 DEF Good
  <2> QED
    BY <1>2, <2>8, <2>11 DEF Ind, Expire, history, UpTypes, DownTypes, RouterTypes, OtherTypes,
         CodesNew, ClientsKept
<1> QED
  BY <1>4, <1>5

-----------------------------------------------------------------------------
(* The router.                                                             *)

LEMMA ClosedFields == DOMAIN Closed = {"push", "ipc", "out"}
  BY DEF Closed

LEMMA StepForward ==
    ASSUME Ind, Forward
    PROVE  Ind'
<1>1. /\ Good(mgr, down, Live, up, router.push) /\ Flights(mgr, down)
      /\ down \in Seq(DownMessages) /\ Len(down) < Cap
      /\ DOMAIN router = DOMAIN Closed /\ router.out \in Seq(Orders) /\ Len(router.out) <= 1
  BY DEF Ind, Good, DownTypes, RouterTypes, Forward
<1>2. down' = down \o router.out
  BY DEF Forward
<1>3. router'.push = router.push /\ router'.ipc = router.ipc /\ router'.out = <<>> /\ DOMAIN router' = DOMAIN router
  BY <1>1, ClosedFields DEF Forward
<1>4. RouterTypes'
  BY <1>3 DEF Ind, RouterTypes
<1>5. /\ down' \in Seq(DownMessages \cup Orders) /\ Joined(down, router.out, down')
      /\ Len(down) \in Nat /\ Len(router.out) \in Nat /\ Len(down') = Len(down) + Len(router.out)
  BY <1>1, <1>2, ConcatJoins
<1>6. DownMessages \cup Orders = DownMessages
  BY DEF DownMessages
<1>7. DownTypes'
  BY <1>1, <1>5, <1>6, Constants DEF DownTypes
<1>8. \A i \in DOMAIN router.out : router.out[i] \in Orders
  BY <1>1
<1>9. \A f \in Orders : \A id : ~IsAnswer(f, id)
  BY DEF Orders, Updates, IsAnswer
<1>10. PICK n \in Nat :
        /\ DOMAIN down = 1..n
        /\ \A i \in DOMAIN down : i \in DOMAIN down' /\ down'[i] = down[i]
        /\ \A i \in DOMAIN router.out : i \in Nat /\ i >= 1 /\ n + i \in DOMAIN down' /\ down'[n + i] = router.out[i]
        /\ \A j \in DOMAIN down' : j \in Nat /\ j >= 1 /\ (j \in DOMAIN down \/ j - n \in DOMAIN router.out)
  BY <1>5 DEF Joined
<1>11. ASSUME NEW j \in DOMAIN down', j \notin DOMAIN down, NEW id PROVE ~IsAnswer(down'[j], id)
  <2>1. j \in Nat /\ j - n \in DOMAIN router.out /\ n + (j - n) = j
    BY <1>10, <1>11
  <2>2. down'[j] = router.out[j - n]
    BY <1>10, <2>1
  <2> QED
    BY <1>8, <1>9, <2>1, <2>2
<1>12. Flights(mgr, down')
  <2> SUFFICES ASSUME NEW id \in DOMAIN mgr.reg, ~mgr.reg[id].again
               PROVE  FlightOf(id, mgr.reg[id], mgr.calls, down')
    BY DEF Flights
  <2>1. FlightOf(id, mgr.reg[id], mgr.calls, down)
    BY <1>1 DEF Flights
  <2>2. \A i : i \in DOMAIN down' /\ IsAnswer(down'[i], id) <=> i \in DOMAIN down /\ IsAnswer(down[i], id)
    BY <1>10, <1>11
  <2> QED
    BY <2>1, <2>2 DEF FlightOf
<1>13. Good(mgr, down', Live, up, router.push)
  BY <1>1, <1>12 DEF Good
<1> QED
  BY <1>3, <1>4, <1>7, <1>13 DEF Ind, Forward, store, history, StoreTypes, UpTypes, OtherTypes,
         CodesNew, ClientsKept, Live

LEMMA RoutedFields ==
    ASSUME RouterTypes, router.out = <<>>, NEW h \in UpMessages, NEW r, r = Routed(router, h)
    PROVE  /\ DOMAIN r = DOMAIN Closed /\ r.push \subseteq Accounts /\ r.ipc \in [Accounts -> SUBSET Clients]
           /\ r.out \in Seq(Orders) /\ Len(r.out) <= 1
           /\ h.type = "register" => r.push = (router.push \cup h.activate) \ h.expired
           /\ h.type # "register" => r.push = router.push
           /\ \A a \in Accounts : router.ipc[a] \subseteq r.ipc[a]
           /\ h.type = "subscribe" =>
                 h.account \in Accounts /\ h.client \in Clients /\ h.client \in r.ipc[h.account]
<1>1. /\ DOMAIN router = DOMAIN Closed
      /\ router.push \subseteq Accounts /\ router.ipc \in [Accounts -> SUBSET Clients]
      /\ router.out \in Seq(Orders) /\ Len(router.out) <= 1
  BY DEF RouterTypes
<1>2. CASE h \in Registers
  <2>1. h.type = "register" /\ h.activate \subseteq Accounts
    BY <1>2 DEF Registers
  <2>2. r = [router EXCEPT !.push = (@ \cup h.activate) \ h.expired]
    BY <2>1 DEF Routed, Registered
  <2>3. /\ DOMAIN r = DOMAIN router /\ r.push = (router.push \cup h.activate) \ h.expired
        /\ r.ipc = router.ipc /\ r.out = router.out
    BY <1>1, <2>2, ClosedFields
  <2> QED
    BY <1>1, <2>1, <2>3
<1>3. CASE h \in Updates
  <2>1. h.type = "update"
    BY <1>3 DEF Updates
  <2>2. r = [router EXCEPT !.out = <<h>>]
    BY <2>1 DEF Routed
  <2>3. DOMAIN r = DOMAIN router /\ r.push = router.push /\ r.ipc = router.ipc /\ r.out = <<h>>
    BY <1>1, <2>2, ClosedFields
  <2>4. <<h>> \in Seq(Orders) /\ Len(<<h>>) <= 1
    BY <1>3 DEF Orders
  <2> QED
    BY <1>1, <2>1, <2>3, <2>4
<1>4. CASE h \in [type : {"publish"}, note : Notes]
  <2> DEFINE f == [type |-> "push", note |-> h.note]
  <2>1. h.type = "publish" /\ f \in Orders
    BY <1>4 DEF Orders
  <2>2. r = router \/ r = [router EXCEPT !.out = <<f>>]
    BY <2>1 DEF Routed
  <2> HIDE DEF f
  <2>3. CASE r = router
    BY <1>1, <2>1, <2>3
  <2>4. CASE r = [router EXCEPT !.out = <<f>>]
    <3>1. DOMAIN r = DOMAIN router /\ r.push = router.push /\ r.ipc = router.ipc /\ r.out = <<f>>
      BY <1>1, <2>4, ClosedFields
    <3>2. <<f>> \in Seq(Orders) /\ Len(<<f>>) <= 1
      BY <2>1
    <3> QED
      BY <1>1, <2>1, <3>1, <3>2
  <2> QED
    BY <2>2, <2>3, <2>4
<1>5. CASE h \in [type : {"subscribe"}, account : Accounts, client : Clients]
  <2>1. h.type = "subscribe" /\ h.account \in Accounts /\ h.client \in Clients
    BY <1>5
  <2>2. r = [router EXCEPT !.ipc[h.account] = @ \cup {h.client}]
    BY <2>1 DEF Routed
  <2>3. /\ DOMAIN r = DOMAIN router /\ r.push = router.push /\ r.out = router.out
        /\ r.ipc = [router.ipc EXCEPT ![h.account] = @ \cup {h.client}]
    BY <1>1, <2>2, ClosedFields
  <2>4. /\ r.ipc \in [Accounts -> SUBSET Clients] /\ \A a \in Accounts : router.ipc[a] \subseteq r.ipc[a]
        /\ h.client \in r.ipc[h.account]
    BY <1>1, <2>1, <2>3
  <2> QED
    BY <1>1, <2>1, <2>3, <2>4
<1> QED
  BY <1>2, <1>3, <1>4, <1>5 DEF UpMessages

LEMMA StepRoute ==
    ASSUME Ind, Route
    PROVE  Ind'
<1> DEFINE h == Head(up)
           r == Routed(router, h)
<1>1. /\ Good(mgr, down, Live, up, router.push) /\ up \in Seq(UpMessages) /\ up # <<>>
      /\ RouterTypes /\ router.out = <<>> /\ Len(up) <= Cap
  BY DEF Ind, UpTypes, Route
<1>2. /\ Tail(up) \in Seq(UpMessages) /\ h \in UpMessages
      /\ Len(up) \in Nat /\ Len(Tail(up)) \in Nat /\ Len(Tail(up)) <= Len(up)
  BY <1>1, TailPops
<1>3. router' = r \/ router' = Purged(r)
  BY DEF Route
<1> HIDE DEF h
<1>4. /\ DOMAIN r = DOMAIN Closed /\ r.push \subseteq Accounts /\ r.ipc \in [Accounts -> SUBSET Clients]
      /\ r.out \in Seq(Orders) /\ Len(r.out) <= 1
      /\ h.type = "register" => r.push = (router.push \cup h.activate) \ h.expired
      /\ h.type # "register" => r.push = router.push
      /\ \A a \in Accounts : router.ipc[a] \subseteq r.ipc[a]
      /\ h.type = "subscribe" =>
            h.account \in Accounts /\ h.client \in Clients /\ h.client \in r.ipc[h.account]
  BY <1>1, <1>2, RoutedFields
<1> HIDE DEF r
<1>5. /\ DOMAIN router' = DOMAIN Closed /\ router'.push = r.push /\ router'.out = r.out
      /\ router'.ipc \in [Accounts -> SUBSET Clients]
      /\ \A a \in Accounts : r.ipc[a] \ closed \subseteq router'.ipc[a]
  <2>1. CASE router' = r
    BY <1>4, <2>1
  <2>2. CASE router' = Purged(r)
    <3>1. /\ DOMAIN router' = DOMAIN r /\ router'.push = r.push /\ router'.out = r.out
          /\ router'.ipc = [a \in Accounts |-> r.ipc[a] \ closed]
      BY <1>4, <2>2, ClosedFields DEF Purged
    <3> QED
      BY <1>4, <3>1
  <2> QED
    BY <1>3, <2>1, <2>2
<1>6. RouterTypes'
  BY <1>4, <1>5 DEF RouterTypes
<1>7. up' = Tail(up) /\ UpTypes'
  BY <1>1, <1>2, Constants DEF UpTypes, Route
<1>8. Words(mgr, up', router'.push)
  <2> SUFFICES ASSUME NEW id \in DOMAIN mgr.reg, ~mgr.reg[id].moved, NEW a \in mgr.reg[id].members
               PROVE  On(a, mgr.out, Tail(up), router'.push)
    BY <1>7 DEF Words
  <2>1. On(a, mgr.out, up, router.push)
    BY <1>1 DEF Good, Words
  <2>2. /\ Head(up).type = "register" =>
              router'.push = (router.push \cup Head(up).activate) \ Head(up).expired
        /\ Head(up).type # "register" => router.push \subseteq router'.push
    BY <1>4, <1>5 DEF h
  <2> QED
    BY <1>1, <2>1, <2>2, OnRead
<1>9. Good(mgr, down, Live, up', router'.push)
  BY <1>1, <1>8 DEF Good
<1>10. joined' = joined \/ (h.type = "subscribe" /\ joined' = joined \cup {<<h.account, h.client>>})
  BY DEF Route, h
<1>11. OtherTypes'
  <2>1. joined' \subseteq Accounts \X Clients
    BY <1>4, <1>10 DEF Ind, OtherTypes
  <2> QED
    BY <2>1 DEF Ind, OtherTypes, Route, history
<1>12. ClientsKept'
  <2> SUFFICES ASSUME NEW j \in joined', j[2] \notin closed PROVE j[2] \in router'.ipc[j[1]]
    BY DEF ClientsKept, Route
  <2>1. CASE j \in joined
    <3>1. j[2] \in router.ipc[j[1]] /\ j[1] \in Accounts
      BY <2>1 DEF Ind, ClientsKept, OtherTypes
    <3> QED
      BY <1>4, <1>5, <3>1
  <2>2. CASE h.type = "subscribe" /\ j = <<h.account, h.client>>
    <3>1. j[1] = h.account /\ j[2] = h.client
      BY <2>2
    <3> QED
      BY <1>4, <1>5, <2>2, <3>1
  <2> QED
    BY <1>10, <2>1, <2>2
<1> QED
  BY <1>6, <1>7, <1>9, <1>11, <1>12 DEF Ind, Route, store, StoreTypes, DownTypes, CodesNew, Live

-----------------------------------------------------------------------------
(* The manager.                                                            *)

LEMMA StepLoadFails ==
    ASSUME Ind, LoadFails
    PROVE  Ind'
<1>1. /\ Good(mgr, down, Live, up, router.push) /\ down \in Seq(DownMessages) /\ down # <<>>
      /\ Len(down) <= Cap /\ Head(down).type = "update"
  BY DEF Ind, DownTypes, LoadFails
<1>2. /\ Tail(down) \in Seq(DownMessages) /\ Popped(down, Tail(down))
      /\ Len(down) \in Nat /\ Len(Tail(down)) \in Nat /\ Len(Tail(down)) <= Len(down)
  BY <1>1, TailPops
<1>3. \A id : ~IsAnswer(down[1], id)
  BY <1>1, <1>2 DEF IsAnswer, Popped
<1>4. Good(mgr, Tail(down), Live, up, router.push)
  BY <1>1, <1>2, <1>3, PopGood
<1>5. DownTypes'
  BY <1>1, <1>2, Constants DEF DownTypes, LoadFails
<1>6. faults' \in Nat
  BY DEF Ind, OtherTypes, LoadFails
<1> QED
  BY <1>4, <1>5, <1>6 DEF Ind, LoadFails, store, StoreTypes, UpTypes, RouterTypes, OtherTypes,
         CodesNew, ClientsKept, Live

LEMMA StepWake ==
    ASSUME Ind, Wake
    PROVE  Ind'
<1>1. Good(mgr, down, Live, up, router.push) /\ mgr' = Retried(mgr)
  BY DEF Ind, Wake
<1>2. Good(mgr', down, Live, up, router.push) /\ Armed(mgr')
  BY <1>1, RetriedGood
<1> QED
  BY <1>2 DEF Ind, Wake, store, history, StoreTypes, UpTypes, DownTypes, RouterTypes, OtherTypes,
         CodesNew, ClientsKept, Live

LEMMA StepTellRouter ==
    ASSUME Ind, TellRouter
    PROVE  Ind'
<1> DEFINE m == [mgr EXCEPT !.out = <<>>]
<1>1. /\ Good(mgr, down, Live, up, router.push) /\ MgrOK(mgr)
      /\ up \in Seq(UpMessages) /\ Len(up) < Cap
      /\ up' = up \o mgr.out /\ mgr' = Retried(m)
  BY DEF Ind, Good, UpTypes, TellRouter
<1>2. DOMAIN mgr = DOMAIN Empty /\ mgr.out \in Seq(Registers) /\ Len(mgr.out) <= 1
  BY <1>1 DEF MgrOK
<1>3. /\ DOMAIN m = DOMAIN mgr /\ m.reg = mgr.reg /\ m.ids = mgr.ids /\ m.retry = mgr.retry
      /\ m.due = mgr.due /\ m.armed = mgr.armed /\ m.calls = mgr.calls /\ m.out = <<>>
  BY <1>2, EmptyFields
<1> HIDE DEF m
<1>4. MgrOK(m)
  <2>1. m.out \in Seq(Registers) /\ Len(m.out) <= 1
    BY <1>3
  <2> QED
    BY <1>1, <1>3, <2>1, Zenon DEF MgrOK
<1>5. Words(m, up', router.push)
  <2> SUFFICES ASSUME NEW id \in DOMAIN mgr.reg, ~mgr.reg[id].moved, NEW a \in mgr.reg[id].members
               PROVE  On(a, <<>>, up \o mgr.out, router.push)
    BY <1>1, <1>3 DEF Words
  <2>1. On(a, mgr.out, up, router.push)
    BY <1>1 DEF Good, Words
  <2> QED
    BY <1>1, <1>2, <2>1, OnTold
<1>6. Flights(m, down) /\ OwedListed(m) /\ Listed(m, Live)
  BY <1>1, <1>3 DEF Good, Flights, OwedListed, Listed
<1>7. Good(m, down, Live, up', router.push)
  BY <1>4, <1>5, <1>6 DEF Good
<1>8. Good(mgr', down, Live, up', router.push) /\ Armed(mgr')
  BY <1>1, <1>7, RetriedGood
<1>9. UpTypes'
  <2>1. /\ up' \in Seq(UpMessages \cup Registers) /\ Len(up) \in Nat /\ Len(mgr.out) \in Nat
        /\ Len(up') = Len(up) + Len(mgr.out)
    BY <1>1, <1>2, ConcatJoins
  <2>2. UpMessages \cup Registers = UpMessages
    BY DEF UpMessages
  <2> QED
    BY <1>1, <1>2, <2>1, <2>2, Constants DEF UpTypes
<1> QED
  BY <1>8, <1>9 DEF Ind, TellRouter, store, history, StoreTypes, DownTypes, RouterTypes, OtherTypes,
         CodesNew, ClientsKept, Live

(* The handler of a message, before the pass over retry_ids. *)
LEMMA HandledGood ==
    ASSUME Ind, mgr.out = <<>>, down # <<>>, NEW rested \in BOOLEAN,
           NEW live, live \subseteq Live \cup (IF Head(down).type = "update" THEN Newest(Head(down).account) ELSE {}),
           NEW m, m = Handled(mgr, Head(down), rested)
    PROVE  Good(m, Tail(down), live, up, router.push)
<1> DEFINE h == Head(down)
           t == Tail(down)
<1>1. /\ Good(mgr, down, Live, up, router.push) /\ down \in Seq(DownMessages)
      /\ memberOf \in [Users -> SUBSET Groups]
  BY DEF Ind, DownTypes, StoreTypes
<1>2. h \in DownMessages /\ Popped(down, t) /\ down[1] = h
  <2>1. h \in DownMessages /\ Popped(down, t)
    BY <1>1, TailPops
  <2> QED
    BY <2>1 DEF Popped
<1>3. m = Handled(mgr, h, rested) /\ live \subseteq Live \cup (IF h.type = "update" THEN Newest(h.account) ELSE {})
  OBVIOUS
<1> HIDE DEF h, t
<1>4. CASE h \in Updates
  <2>1. h.type = "update" /\ h.account \in Users /\ \A id : ~IsAnswer(h, id)
    BY <1>4 DEF Updates, IsAnswer
  <2>2. m = OnUpdate(mgr, h.account)
    BY <1>3, <2>1 DEF Handled
  <2>3. live \subseteq Live \cup Newest(h.account)
    BY <1>3, <2>1
  <2>4. Good(m, down, live, up, router.push)
    BY <1>1, <2>1, <2>2, <2>3, UpdateGood
  <2>5. Good(m, t, live, up, router.push)
    BY <1>2, <2>1, <2>4, PopGood
  <2> QED
    BY <2>5 DEF t
<1>5. ASSUME h \notin Updates PROVE Good(mgr, down, live, up, router.push)
  <2>1. h.type # "update"
    BY <1>2, <1>5 DEF DownMessages, Orders, Updates
  <2>2. live \subseteq Live
    BY <1>3, <2>1
  <2> QED
    BY <1>1, <2>2, ShrinkLive
<1>6. CASE h \in [type : {"push"}, note : Notes]
  <2>1. h.type = "push" /\ h.note \in Notes /\ h \notin Updates /\ \A id : ~IsAnswer(h, id)
    BY <1>6 DEF Updates, IsAnswer
  <2>2. m = OnPush(mgr, h.note)
    BY <1>3, <2>1 DEF Handled
  <2>3. Good(m, down, live, up, router.push)
    BY <1>5, <2>1, <2>2, PushGood
  <2>4. Good(m, t, live, up, router.push)
    BY <1>2, <2>1, <2>3, PopGood
  <2> QED
    BY <2>4 DEF t
<1>7. CASE h \in [type : {"success"}, id : Ids]
  <2>1. h.type = "success" /\ h \notin Updates /\ IsAnswer(down[1], h.id)
    BY <1>2, <1>7 DEF Updates, IsAnswer
  <2>2. m = OnSuccess(mgr, h.id, rested)
    BY <1>3, <2>1 DEF Handled
  <2>3. Good(m, t, live, up, router.push)
    BY <1>2, <1>5, <2>1, <2>2, SuccessGood
  <2> QED
    BY <2>3 DEF t
<1>8. CASE h \in [type : {"failure"}, id : Ids, notes : SUBSET Notes]
  <2>1. h.type = "failure" /\ h \notin Updates /\ IsAnswer(down[1], h.id) /\ h.notes \in SUBSET Notes
    BY <1>2, <1>8 DEF Updates, IsAnswer
  <2>2. m = OnFailure(mgr, h.id, h.notes)
    BY <1>3, <2>1 DEF Handled
  <2>3. Good(m, t, live, up, router.push)
    BY <1>2, <1>5, <2>1, <2>2, FailureGood
  <2> QED
    BY <2>3 DEF t
<1> QED
  BY <1>2, <1>4, <1>6, <1>7, <1>8 DEF DownMessages, Orders

LEMMA StepHandle ==
    ASSUME Ind, Handle
    PROVE  Ind'
<1> DEFINE h == Head(down)
           new == IF h.type = "update" THEN Newest(h.account) ELSE {}
<1>1. /\ mgr.out = <<>> /\ down # <<>> /\ down' = Tail(down) /\ down \in Seq(DownMessages)
      /\ Len(down) <= Cap
  BY DEF Ind, DownTypes, Handle
<1>2. PICK rested \in BOOLEAN, verify \in BOOLEAN :
        LET m == Handled(mgr, h, rested) IN
           /\ mgr' = IF m.out = <<>> THEN Retried(m) ELSE m
           /\ coded' = IF h.type = "update" /\ verify THEN coded \cup Newest(h.account) ELSE coded
  BY DEF Handle
<1> DEFINE m == Handled(mgr, h, rested)
<1>3. coded' \subseteq coded \cup new /\ coded \subseteq coded'
  BY <1>2
<1>4. \A u : \A id \in Newest(u) : id \in Ids /\ sub[id] = "new"
  BY DEF Newest, IdsOf
<1>5. coded' \subseteq Ids /\ \A id \in coded' : sub[id] = "new"
  BY <1>3, <1>4 DEF Ind, StoreTypes, CodesNew
<1>6. Live' \subseteq Live \cup new
  <2>1. sub' = sub /\ expired' = expired
    BY DEF Handle
  <2> HIDE DEF new
  <2> QED
    BY <1>3, <2>1 DEF Live
<1>7. Good(m, down', Live', up, router.push)
  BY <1>1, <1>6, HandledGood
<1>8. mgr' = IF m.out = <<>> THEN Retried(m) ELSE m
  BY <1>2
<1> HIDE DEF m
<1>9. Good(mgr', down', Live', up, router.push) /\ Armed(mgr')
  <2>1. CASE m.out = <<>>
    <3>1. mgr' = Retried(m)
      BY <1>8, <2>1
    <3> QED
      BY <1>7, <3>1, RetriedGood
  <2>2. CASE m.out # <<>>
    <3>1. mgr' = m
      BY <1>8, <2>2
    <3> QED
      BY <1>7, <2>2, <3>1 DEF Armed
  <2> QED
    BY <2>1, <2>2
<1>10. DownTypes'
  <2>1. /\ Tail(down) \in Seq(DownMessages) /\ Len(down) \in Nat /\ Len(Tail(down)) \in Nat
        /\ Len(Tail(down)) <= Len(down)
    BY <1>1, TailPops
  <2> QED
    BY <1>1, <2>1, Constants DEF DownTypes
<1>11. StoreTypes' /\ CodesNew'
  BY <1>5 DEF Ind, StoreTypes, CodesNew, Handle
<1> QED
  BY <1>9, <1>10, <1>11 DEF Ind, Handle, history, UpTypes, RouterTypes, OtherTypes, ClientsKept

(* The subscriptions the manager loads at its start are all it has. *)
LEMMA StepRestart ==
    ASSUME Ind, Restart
    PROVE  Ind'
<1> DEFINE all == UNION {Active(u) : u \in Users}
           Holds(a) == {id \in all : a \in Members(id[1])}
           reg == [id \in all |-> Registration(Members(id[1]), FALSE)]
           ids == [a \in Accounts |-> Holds(a)]
           m == [Empty EXCEPT !.reg = reg, !.ids = ids]
           on == {a \in Accounts : Holds(a) # {}}
<1>1. mgr' = Register(m, on, {}) /\ up' = <<>> /\ down' = <<>> /\ router' = Closed /\ joined' = {}
  BY DEF Restart
<1>2. StoreTypes /\ memberOf \in [Users -> SUBSET Groups]
  BY DEF Ind, StoreTypes
<1>3. \A id \in all : /\ id \in Ids /\ id[1] \in Users /\ id[1] \in Members(id[1])
                      /\ Members(id[1]) \in SUBSET Accounts
  <2> SUFFICES ASSUME NEW u \in Users, NEW id \in Active(u)
               PROVE  /\ id \in Ids /\ id[1] \in Users /\ id[1] \in Members(id[1])
                      /\ Members(id[1]) \in SUBSET Accounts
    OBVIOUS
  <2>1. id \in Ids /\ id[1] = u
    BY DEF Active, IdsOf
  <2> QED
    BY <1>2, <2>1 DEF Members, Accounts
<1>4. /\ DOMAIN m = DOMAIN Empty /\ m.reg = reg /\ m.ids = ids /\ m.retry = {} /\ m.due = FALSE
      /\ m.armed = FALSE /\ m.calls = {} /\ m.out = <<>>
  BY DEF Empty
<1>5. DOMAIN reg = all /\ ids \in [Accounts -> SUBSET Ids] /\ on \in SUBSET Accounts
  BY <1>3
<1>6. \A id \in all : /\ reg[id] \in RegRecord /\ reg[id].members = Members(id[1]) /\ ~reg[id].lapsed
                      /\ reg[id].attempts = 0 /\ ~reg[id].inFlight /\ reg[id].notes = {}
  BY <1>3, RegistrationFields
<1>7. \A id \in all : \A a \in Members(id[1]) : id \in ids[a] /\ a \in on
  BY <1>3
<1>8. \A id \in Ids : id[1] \in Accounts /\ (id \in ids[id[1]] => id \in all)
  BY DEF Ids, Accounts
<1> HIDE DEF all, reg, ids, m, on
<1>9. MgrOK(m)
  <2>1. m.out \in Seq(Registers) /\ Len(m.out) <= 1
    BY <1>4
  <2>4. {m.due, m.armed} \subseteq BOOLEAN
    BY <1>4, Zenon
  <2>2. DOMAIN m.reg \subseteq Ids /\ \A id \in DOMAIN m.reg : m.reg[id] \in RegRecord
    BY <1>3, <1>4, <1>5, <1>6
  <2>3. m.ids \in [Accounts -> SUBSET Ids] /\ m.retry \subseteq Ids
        /\ m.calls \subseteq [id : Ids, notes : SUBSET Notes]
    BY <1>4, <1>5
  <2> QED
    BY <1>4, <2>1, <2>2, <2>3, <2>4, Zenon DEF MgrOK
<1>10. Flights(m, <<>>)
  <2>1. DOMAIN <<>> = {}
    OBVIOUS
  <2>2. 0 <= MaxAttempts
    BY Constants
  <2> QED
    BY <1>4, <1>5, <1>6, <2>1, <2>2 DEF Flights, FlightOf
<1>11. OwedListed(m) /\ \A id \in DOMAIN m.reg : ~Owed(m.reg[id])
  BY <1>4, <1>5, <1>6 DEF OwedListed, Owed
<1>12. Listed(m, Live)
  BY <1>3, <1>4, <1>5, <1>6, <1>7, <1>8 DEF Listed
<1>13. Good(mgr', <<>>, Live, <<>>, {})
  BY <1>1, <1>4, <1>5, <1>6, <1>7, <1>9, <1>10, <1>11, <1>12, RegisterGood
<1>14. mgr'.reg = m.reg
  BY <1>1, <1>4, EmptyFields DEF Register
<1>15. Armed(mgr')
  BY <1>11, <1>14 DEF Armed
<1>16. UpTypes' /\ DownTypes'
  BY <1>1, Constants DEF UpTypes, DownTypes
<1>17. router'.push = {} /\ RouterTypes'
  BY <1>1 DEF RouterTypes, Closed
<1>18. OtherTypes'
  BY <1>1 DEF Ind, OtherTypes, Restart
<1> QED
  BY <1>1, <1>13, <1>15, <1>16, <1>17, <1>18 DEF Ind, Restart, store, StoreTypes, CodesNew, ClientsKept, Live

-----------------------------------------------------------------------------
(* Ind is inductive.                                                       *)

LEMMA InitInd ==
    ASSUME Init
    PROVE  Ind
<1>1. /\ sub = [id \in Ids |-> "none"] /\ expired = {} /\ coded = {}
      /\ memberOf = [u \in Users |-> Groups] /\ up = <<>> /\ down = <<>>
      /\ router = Closed /\ mgr = Empty /\ joined = {} /\ sets = 0 /\ faults = 0
  BY DEF Init
<1>2. StoreTypes /\ CodesNew
  BY <1>1 DEF StoreTypes, CodesNew
<1>3. UpTypes /\ DownTypes /\ OtherTypes
  BY <1>1, Constants DEF UpTypes, DownTypes, OtherTypes
<1>4. RouterTypes /\ ClientsKept
  BY <1>1 DEF RouterTypes, ClientsKept, Closed
<1>5. /\ DOMAIN mgr = DOMAIN Empty /\ mgr.reg = <<>> /\ mgr.ids = [a \in Accounts |-> {}]
      /\ mgr.retry = {} /\ mgr.due = FALSE /\ mgr.armed = FALSE /\ mgr.calls = {} /\ mgr.out = <<>>
  BY <1>1 DEF Empty
<1>6. DOMAIN mgr.reg = {}
  BY <1>5
<1>7. MgrOK(mgr)
  <2>1. mgr.out \in Seq(Registers) /\ Len(mgr.out) <= 1
    BY <1>5
  <2>2. {mgr.due, mgr.armed} \subseteq BOOLEAN
    BY <1>5, Zenon
  <2>3. /\ mgr.ids \in [Accounts -> SUBSET Ids] /\ mgr.retry \subseteq Ids
        /\ mgr.calls \subseteq [id : Ids, notes : SUBSET Notes]
    BY <1>5
  <2>4. DOMAIN mgr.reg \subseteq Ids /\ \A id \in DOMAIN mgr.reg : mgr.reg[id] \in RegRecord
    BY <1>6
  <2> QED
    BY <1>5, <2>1, <2>2, <2>3, <2>4, Zenon DEF MgrOK
<1>8. Flights(mgr, down) /\ OwedListed(mgr) /\ Words(mgr, up, router.push) /\ Armed(mgr)
  BY <1>6 DEF Flights, OwedListed, Words, Armed
<1>9. Listed(mgr, Live)
  <2>1. \A id \in Ids : id[1] \in Accounts
    BY DEF Ids, Accounts
  <2> QED
    BY <1>5, <1>6, <2>1 DEF Listed
<1> QED
  BY <1>2, <1>3, <1>4, <1>7, <1>8, <1>9 DEF Ind, Good

LEMMA StepInd ==
    ASSUME Ind, [Next]_vars
    PROVE  Ind'
<1>1. CASE UNCHANGED vars
  BY <1>1 DEF Ind, vars, StoreTypes, UpTypes, DownTypes, RouterTypes, OtherTypes, CodesNew,
        ClientsKept, Live
<1>2. CASE RouterRuns
  BY <1>2, StepRoute, StepForward DEF RouterRuns
<1>3. CASE ManagerRuns
  BY <1>3, StepHandle, StepTellRouter, StepWake DEF ManagerRuns
<1>4. CASE Responds
  BY <1>4, StepRespond DEF Responds
<1>5. CASE \E id \in DOMAIN mgr.reg : Rest(id)
  BY <1>5, StepRest
<1>6. CASE RetryDue
  BY <1>6, StepRetryDue
<1>7. CASE \E u \in Users : Create(u) \/ Verify(u) \/ Destroy(u) \/ Change(u) \/ Join(u)
  BY <1>7, StepCalls, StepJoin
<1>8. CASE \E id \in Ids : Expire(id)
  BY <1>8, StepExpire
<1>9. CASE \E n \in Notes : Publish(n)
  BY <1>9, StepPublish
<1>10. CASE \E c \in Clients, a \in Accounts : Subscribe(c, a)
  BY <1>10, StepSubscribe
<1>11. CASE \E c \in Clients : Disconnect(c)
  BY <1>11, StepDisconnect
<1>12. CASE LoadFails
  BY <1>12, StepLoadFails
<1>13. CASE Restart
  BY <1>13, StepRestart
<1> QED
  BY <1>1, <1>2, <1>3, <1>4, <1>5, <1>6, <1>7, <1>8, <1>9, <1>10, <1>11, <1>12, <1>13 DEF Next

LEMMA Reachable == Spec => []Ind
<1>1. Init => Ind
  BY InitInd
<1>2. Ind /\ [Next]_vars => Ind'
  BY StepInd
<1> QED
  BY <1>1, <1>2, PTL DEF Spec

-----------------------------------------------------------------------------
(* What follows from it.                                                   *)

(* A set has one element, or none, if no two of its elements differ. *)
LEMMA AtMostOne ==
    ASSUME NEW S, \A x, y \in S : x = y
    PROVE  /\ S = {} => Cardinality(S) = 0
           /\ S # {} => Cardinality(S) = 1
<1>1. CASE S = {}
  BY <1>1, FS_EmptySet
<1>2. CASE S # {}
  <2>1. PICK x \in S : TRUE
    BY <1>2
  <2>2. S = {x}
    BY <2>1
  <2> QED
    BY <1>2, <2>2, FS_Singleton
<1> QED
  BY <1>1, <1>2

LEMMA TypesHold ==
    ASSUME Ind
    PROVE  TypeOK
<1>1. MgrOK(mgr)
  BY DEF Ind, Good
<1> QED
  BY <1>1, Zenon DEF Ind, MgrOK, StoreTypes, UpTypes, DownTypes, RouterTypes, OtherTypes, TypeOK

LEMMA DeliveriesHold ==
    ASSUME Ind
    PROVE  OneDelivery /\ InFlightKnown
<1> DEFINE Calls(id) == {c \in mgr.calls : c.id = id}
<1>1. ASSUME NEW id \in DOMAIN mgr.reg, ~mgr.reg[id].again
      PROVE  /\ Cardinality(Calls(id)) <= 1
             /\ Cardinality(Calls(id)) + Cardinality(Answers(id)) = IF mgr.reg[id].inFlight THEN 1 ELSE 0
             /\ mgr.reg[id].attempts <= IF mgr.reg[id].inFlight THEN MaxAttempts - 1 ELSE MaxAttempts
  <2> DEFINE r == mgr.reg[id]
             C == Calls(id)
             A == Answers(id)
  <2>1. FlightOf(id, r, mgr.calls, down) /\ r \in RegRecord
    BY <1>1 DEF Ind, Good, Flights, MgrOK
  <2>2. A = {i \in DOMAIN down : IsAnswer(down[i], id)}
    BY DEF Answers, IsAnswer
  <2> HIDE DEF A
  <2>3. /\ \A x, y \in C : x = y
        /\ \A x, y \in A : x = y
        /\ C = {} \/ A = {}
        /\ r.inFlight <=> C # {} \/ A # {}
    BY <2>1, <2>2 DEF FlightOf
  <2>4. /\ r.attempts \in Nat /\ r.attempts <= MaxAttempts /\ (r.inFlight => r.attempts < MaxAttempts)
    BY <2>1 DEF FlightOf, RegRecord
  <2> HIDE DEF C, r
  <2>5. /\ C = {} => Cardinality(C) = 0
        /\ C # {} => Cardinality(C) = 1
        /\ A = {} => Cardinality(A) = 0
        /\ A # {} => Cardinality(A) = 1
    BY <2>3, AtMostOne
  <2>6. /\ Cardinality(C) <= 1
        /\ Cardinality(C) + Cardinality(A) = IF r.inFlight THEN 1 ELSE 0
        /\ r.attempts <= IF r.inFlight THEN MaxAttempts - 1 ELSE MaxAttempts
    BY <2>3, <2>4, <2>5, Constants
  <2> QED
    BY <2>6 DEF C, A, r
<1> QED
  BY <1>1 DEF OneDelivery, InFlightKnown

LEMMA BookkeepingHolds ==
    ASSUME Ind
    PROVE  QueuedIsScheduled /\ IdsListed /\ LastWordOn
<1>1. Armed(mgr) /\ OwedListed(mgr) /\ Listed(mgr, Live) /\ Words(mgr, up, router.push) /\ CodesNew
  BY DEF Ind, Good
<1>2. QueuedIsScheduled
  BY <1>1 DEF QueuedIsScheduled, Armed, OwedListed, Owed
<1>3. \A id \in Ids : id \in Active(id[1]) \cup coded => id \in Live
  BY DEF Active, Live, IdsOf
<1>4. IdsListed
  BY <1>1, <1>3 DEF IdsListed, Listed, CodesNew
<1>5. LastWordOn
  BY <1>1 DEF LastWordOn, Words, On
<1> QED
  BY <1>2, <1>4, <1>5

LEMMA ServesHolds ==
    ASSUME Ind
    PROVE  RouterServes
<1>1. /\ Words(mgr, up, router.push) /\ ClientsKept /\ up \in Seq(UpMessages)
      /\ mgr.out \in Seq(Registers)
  BY DEF Ind, Good, MgrOK, UpTypes
<1> DEFINE t == up \o mgr.out
<1>2. Joined(up, mgr.out, t)
  BY <1>1, ConcatJoins
<1> HIDE DEF t
<1>3. ASSUME NEW a, TurnedOn(a, up) \/ TurnedOn(a, mgr.out) PROVE OnItsWay(a)
  <2>1. PICK n \in Nat :
          /\ \A i \in DOMAIN up : i \in DOMAIN t /\ t[i] = up[i]
          /\ \A i \in DOMAIN mgr.out : n + i \in DOMAIN t /\ t[n + i] = mgr.out[i]
    BY <1>2 DEF Joined
  <2>2. PICK i \in DOMAIN t : t[i].type = "register" /\ a \in t[i].activate
    BY <1>3, <2>1 DEF TurnedOn
  <2>3. t[i] \in Range(t)
    BY DEF Range
  <2> QED
    BY <2>2, <2>3 DEF OnItsWay, t
<1>4. ASSUME NEW id \in DOMAIN mgr.reg, ~mgr.reg[id].moved, NEW a \in mgr.reg[id].members
      PROVE  a \in router.push \/ OnItsWay(a)
  BY <1>1, <1>3, <1>4 DEF Words, On
<1> QED
  BY <1>1, <1>4 DEF RouterServes, ClientsKept

(* push.rs keeps its books in every state of every run, whatever the users *)
(* and their groups, the capacity of the channels, push_attempts_max, the  *)
(* calls and the faults: in_flight is set exactly while one request or its *)
(* answer is under way, what is queued and not passed over is listed in    *)
(* retry_ids with a timeout set, account_push_ids lists what push_servers  *)
(* holds, and the last registration the router will read of an account a   *)
(* subscription needs turns it on.                                         *)
THEOREM PushInvariant == Spec => []PushInv
<1>1. Ind => PushInv
  BY TypesHold, DeliveriesHold, BookkeepingHolds DEF PushInv
<1> QED
  BY <1>1, Reachable, PTL

(* Nothing the router drops, purges or unsets loses an account that a      *)
(* registered subscription is to receive, or a client that is connected:   *)
(* also when registrations and their cancellation wait in a full channel   *)
(* while subscriptions expire, are destroyed and come back.                *)
THEOREM RouterServesInvariant == Spec => []RouterServes
<1>1. Ind => RouterServes
  BY ServesHolds
<1> QED
  BY <1>1, Reachable, PTL

=============================================================================
