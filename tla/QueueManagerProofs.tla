------------------------- MODULE QueueManagerProofs -------------------------
(***************************************************************************)
(* ManagerInv holds of the queue manager for any messages, queues, limits  *)
(* and channel capacity.  It is inductive: that in_flight never exceeds    *)
(* the threads rests on its counting every worker that runs, and that it   *)
(* never falls below zero on its counting every report in the channel.     *)
(*                                                                         *)
(* The workers of a queue are counted by the sizes of three finite sets,   *)
(* so each step of a proof is one element that joins or leaves a set.      *)
(***************************************************************************)
EXTENDS QueueManager, FiniteSetTheorems, WellFoundedInduction, TLAPS

-----------------------------------------------------------------------------
(* Minima and maxima *)

(* A set of naturals that is not empty has a least element, which Min      *)
(* picks: next_refresh is the time of some event, or QUEUE_REFRESH.        *)
LEMMA MinOfNats ==
    ASSUME NEW S, S \subseteq Nat, S # {}
    PROVE  Min(S) \in S /\ \A x \in S : Min(S) <= x
<1> DEFINE R == OpToRel(<, Nat)
<1>a. IsWellFoundedOn(R, Nat)
  BY NatLessThanWellFounded
<1>b. \A x, y \in Nat : x < y => <<x, y>> \in R
  BY DEF OpToRel
<1> HIDE DEF R
<1>1. PICK x \in S : \A y \in S : ~(<<y, x>> \in R)
  BY <1>a, WFMin, Zenon
<1>2. ASSUME NEW y \in S PROVE x <= y
  <2>1. x \in Nat /\ y \in Nat
    OBVIOUS
  <2>2. ~(y < x)
    BY <1>1, <1>b, <2>1, Zenon
  <2> QED
    BY <2>1, <2>2
<1> QED
  BY <1>2 DEF Min

LEMMA MinOfTwo ==
    ASSUME NEW a \in Int, NEW b \in Int
    PROVE  Min({a, b}) = IF a <= b THEN a ELSE b
<1>1. \E x \in {a, b} : \A y \in {a, b} : x =< y
  OBVIOUS
<1>2. Min({a, b}) \in {a, b} /\ \A y \in {a, b} : Min({a, b}) =< y
  BY <1>1 DEF Min
<1> QED
  BY <1>2

LEMMA MaxOfTwo ==
    ASSUME NEW a \in Int, NEW b \in Int
    PROVE  Max({a, b}) = IF a <= b THEN b ELSE a
<1>1. \E x \in {a, b} : \A y \in {a, b} : x >= y
  OBVIOUS
<1>2. Max({a, b}) \in {a, b} /\ \A y \in {a, b} : Max({a, b}) >= y
  BY <1>1 DEF Max
<1> QED
  BY <1>2

-----------------------------------------------------------------------------
(* The three sets that count the workers of a queue *)

LEMMA StartingMember ==
    ASSUME NEW sp \in [Msgs -> 0..MaxThreads], NEW q \in Queues
    PROVE  /\ \A w : w \in Starting(sp, q) <=>
                 w \in Of(q) \X (1..MaxThreads) /\ w[2] <= sp[w[1]]
           /\ IsFiniteSet(Starting(sp, q))
           /\ Cardinality(Starting(sp, q)) \in Nat
<1> USE ManagerAssumptions
<1>1. ASSUME NEW w
      PROVE  w \in Starting(sp, q) <=>
                 w \in Of(q) \X (1..MaxThreads) /\ w[2] <= sp[w[1]]
  <2>1. w \in Starting(sp, q) <=> \E m \in Of(q) : w \in {m} \X (1..sp[m])
    BY DEF Starting
  <2>2. \A m \in Of(q) : sp[m] \in 0..MaxThreads
    BY DEF Of
  <2>3. ASSUME w \in Starting(sp, q)
        PROVE  w \in Of(q) \X (1..MaxThreads) /\ w[2] <= sp[w[1]]
    BY <2>1, <2>2, <2>3
  <2>4. ASSUME w \in Of(q) \X (1..MaxThreads), w[2] <= sp[w[1]]
        PROVE  w \in Starting(sp, q)
    <3>1. PICK m \in Of(q), i \in 1..MaxThreads : w = <<m, i>>
      BY <2>4
    <3>2. i \in 1..sp[m]
      BY <2>4, <2>2, <3>1
    <3> QED
      BY <2>1, <3>1, <3>2
  <2> QED
    BY <2>3, <2>4
<1>2. IsFiniteSet(Of(q) \X (1..MaxThreads))
  <2>1. IsFiniteSet(Of(q))
    BY FS_Subset DEF Of
  <2>2. IsFiniteSet(1..MaxThreads)
    BY FS_Interval
  <2> QED
    BY <2>1, <2>2, FS_Product
<1>3. Starting(sp, q) \in SUBSET (Of(q) \X (1..MaxThreads))
  BY <1>1
<1> QED
  BY <1>1, <1>2, <1>3, FS_Subset, FS_CardinalityType

LEMMA DeliveringFinite ==
    ASSUME NEW sl, NEW q \in Queues
    PROVE  IsFiniteSet(Delivering(sl, q)) /\ Cardinality(Delivering(sl, q)) \in Nat
<1>1. IsFiniteSet(Msgs) /\ Delivering(sl, q) \in SUBSET Msgs
  BY ManagerAssumptions DEF Delivering, Of
<1> QED
  BY <1>1, FS_Subset, FS_CardinalityType

LEMMA DoneFinite ==
    ASSUME NEW s \in Seq(Events), NEW q \in Queues
    PROVE  IsFiniteSet(DoneAt(s, q)) /\ Cardinality(DoneAt(s, q)) \in Nat
<1>1. Len(s) \in Nat
  OBVIOUS
<1>2. IsFiniteSet(1..Len(s))
  BY <1>1, FS_Interval
<1>3. DoneAt(s, q) \in SUBSET (1..Len(s))
  BY DEF DoneAt
<1> QED
  BY <1>2, <1>3, FS_Subset, FS_CardinalityType

(* A worker that tries its lock leaves the ones that have not.             *)
LEMMA TryLockCounts ==
    ASSUME NEW sp \in [Msgs -> 0..MaxThreads], NEW q \in Queues, NEW m \in Msgs, sp[m] > 0
    PROVE  Cardinality(Starting([sp EXCEPT ![m] = @ - 1], q)) =
               Cardinality(Starting(sp, q)) - IF QueueOf[m] = q THEN 1 ELSE 0
<1> DEFINE sp2 == [sp EXCEPT ![m] = @ - 1]
           S == Starting(sp, q)
           S2 == Starting(sp2, q)
           Cells == Of(q) \X (1..MaxThreads)
<1>1. MaxThreads \in Nat /\ sp[m] \in 1..MaxThreads
  BY ManagerAssumptions
<1>2. sp2 \in [Msgs -> 0..MaxThreads]
  BY <1>1
<1>3. \A w : w \in S <=> w \in Cells /\ w[2] <= sp[w[1]]
  BY StartingMember
<1>4. \A w : w \in S2 <=> w \in Cells /\ w[2] <= sp2[w[1]]
  BY <1>2, StartingMember
<1>5. IsFiniteSet(S) /\ Cardinality(S) \in Nat
  BY StartingMember
<1>6. \A x \in Msgs : sp2[x] = IF x = m THEN sp[m] - 1 ELSE sp[x]
  OBVIOUS
<1>7. <<m, sp[m]>> \in S <=> QueueOf[m] = q
  BY <1>1, <1>3 DEF Of
<1>8. S2 = S \ {<<m, sp[m]>>}
  <2> HIDE DEF S, S2, sp2
  <2>1. ASSUME NEW x \in Of(q), NEW i \in 1..MaxThreads
        PROVE  <<x, i>> \in S2 <=> <<x, i>> \in S /\ <<x, i>> # <<m, sp[m]>>
    <3>1. <<x, i>> \in S2 <=> i <= sp2[x]
      BY <1>4
    <3>2. <<x, i>> \in S <=> i <= sp[x]
      BY <1>3
    <3>3. x \in Msgs /\ sp[x] \in 0..MaxThreads
      BY DEF Of
    <3> QED
      BY <1>1, <1>6, <3>1, <3>2, <3>3
  <2>2. \A w \in Cells : \E x \in Of(q), i \in 1..MaxThreads : w = <<x, i>>
    OBVIOUS
  <2>3. \A w \in Cells : w \in S2 <=> w \in S /\ w # <<m, sp[m]>>
    BY <2>1, <2>2
  <2> QED
    BY <1>3, <1>4, <2>3
<1> HIDE DEF S, S2
<1>9. Cardinality(S \ {<<m, sp[m]>>}) =
          IF <<m, sp[m]>> \in S THEN Cardinality(S) - 1 ELSE Cardinality(S)
  BY <1>5, FS_RemoveElement
<1>10. Cardinality(S2) = Cardinality(S) - IF QueueOf[m] = q THEN 1 ELSE 0
  BY <1>5, <1>7, <1>8, <1>9
<1> QED
  BY <1>10 DEF S, S2

(* A scan adds one worker for each message it spawns one for.              *)
LEMMA SpawnCounts ==
    ASSUME NEW sp \in [Msgs -> 0..MaxThreads], NEW spawn \in SUBSET Msgs, NEW q \in Queues,
           NEW sp2 \in [Msgs -> 0..MaxThreads],
           \A m \in Msgs : sp2[m] = sp[m] + IF m \in spawn THEN 1 ELSE 0
    PROVE  Cardinality(Starting(sp2, q)) =
               Cardinality(Starting(sp, q)) + Cardinality(spawn \cap Of(q))
<1> DEFINE S == Starting(sp, q)
           S2 == Starting(sp2, q)
           Cells == Of(q) \X (1..MaxThreads)
           New == {<<m, sp[m] + 1>> : m \in spawn \cap Of(q)}
           f == [m \in spawn \cap Of(q) |-> <<m, sp[m] + 1>>]
<1>1. MaxThreads \in Nat /\ IsFiniteSet(spawn \cap Of(q))
  <2>1. IsFiniteSet(Msgs) /\ spawn \cap Of(q) \in SUBSET Msgs
    BY ManagerAssumptions
  <2> QED
    BY <2>1, FS_Subset, ManagerAssumptions
<1>2. /\ \A w : w \in S <=> w \in Cells /\ w[2] <= sp[w[1]]
      /\ IsFiniteSet(S) /\ Cardinality(S) \in Nat
  BY StartingMember
<1>3. \A w : w \in S2 <=> w \in Cells /\ w[2] <= sp2[w[1]]
  BY StartingMember
<1>4. ExistsBijection(spawn \cap Of(q), New)
  <2>1. f \in [spawn \cap Of(q) -> New]
    OBVIOUS
  <2>2. \A x, y \in spawn \cap Of(q) : f[x] = f[y] => x = y
    OBVIOUS
  <2>3. \A w \in New : \E x \in spawn \cap Of(q) : f[x] = w
    OBVIOUS
  <2>4. f \in Bijection(spawn \cap Of(q), New)
    BY <2>1, <2>2, <2>3 DEF Bijection, Injection, Surjection, IsInjective
  <2> QED
    BY <2>4, Zenon DEF ExistsBijection
<1>5. S2 = S \cup New /\ S \cap New = {}
  <2>1. \A m \in Msgs : /\ sp[m] \in 0..MaxThreads
                        /\ sp2[m] \in 0..MaxThreads
                        /\ sp2[m] = sp[m] + IF m \in spawn THEN 1 ELSE 0
    OBVIOUS
  <2> HIDE DEF S, S2
  <2>2. ASSUME NEW x \in Of(q), NEW i \in 1..MaxThreads
        PROVE  /\ <<x, i>> \in S2 <=> <<x, i>> \in S \/ <<x, i>> \in New
               /\ ~(<<x, i>> \in S /\ <<x, i>> \in New)
    <3>1. <<x, i>> \in S2 <=> i <= sp2[x]
      BY <1>3
    <3>2. <<x, i>> \in S <=> i <= sp[x]
      BY <1>2
    <3>3. x \in Msgs
      BY DEF Of
    <3>4. <<x, i>> \in New <=> x \in spawn /\ i = sp[x] + 1
      OBVIOUS
    <3> QED
      BY <1>1, <2>1, <3>1, <3>2, <3>3, <3>4
  <2>3. \A w \in Cells : \E x \in Of(q), i \in 1..MaxThreads : w = <<x, i>>
    OBVIOUS
  <2>4. New \subseteq Cells
    <3>1. ASSUME NEW m \in spawn \cap Of(q)
          PROVE  sp[m] + 1 \in 1..MaxThreads
      BY <1>1, <2>1 DEF Of
    <3> QED
      BY <3>1
  <2> HIDE DEF New
  <2>5. S \subseteq Cells /\ S2 \subseteq Cells
    BY <1>2, <1>3
  <2>6. \A w \in Cells : (w \in S2 <=> w \in S \/ w \in New) /\ ~(w \in S /\ w \in New)
    BY <2>2, <2>3
  <2> HIDE DEF Cells
  <2> QED
    BY <2>4, <2>5, <2>6
<1> HIDE DEF S, S2, New
<1>6. IsFiniteSet(New) /\ Cardinality(New) = Cardinality(spawn \cap Of(q))
  BY <1>1, <1>4, FS_Bijection, Zenon
<1>7. Cardinality(S \cup New) = Cardinality(S) + Cardinality(New) - Cardinality(S \cap New)
  BY <1>2, <1>6, FS_Union, Zenon
<1>8. Cardinality(spawn \cap Of(q)) \in Nat /\ Cardinality({}) = 0
  BY <1>1, FS_CardinalityType, FS_EmptySet
<1>9. Cardinality(S2) = Cardinality(S) + Cardinality(spawn \cap Of(q))
  <2>1. Cardinality(S2) = Cardinality(S) + Cardinality(spawn \cap Of(q)) - Cardinality({})
    BY <1>5, <1>6, <1>7, Zenon
  <2>2. Cardinality(S) \in Nat
    BY <1>2
  <2> QED
    BY <1>8, <2>1, <2>2
<1> QED
  BY <1>9 DEF S, S2

(* The set of messages being delivered when a lock changes hands.          *)
LEMMA LockCounts ==
    ASSUME NEW sl \in [Msgs -> {"free", "here", "there"}], NEW q \in Queues,
           NEW m \in Msgs, NEW v \in {"free", "here", "there"}
    PROVE  LET n == Cardinality(Delivering([sl EXCEPT ![m] = v], q))
           IN  n = Cardinality(Delivering(sl, q))
                       + (IF QueueOf[m] = q /\ v = "here" THEN 1 ELSE 0)
                       - (IF QueueOf[m] = q /\ sl[m] = "here" THEN 1 ELSE 0)
<1> DEFINE D == Delivering(sl, q)
           D2 == Delivering([sl EXCEPT ![m] = v], q)
<1>1. IsFiniteSet(D) /\ Cardinality(D) \in Nat
  BY DeliveringFinite
<1>2. m \in D <=> QueueOf[m] = q /\ sl[m] = "here"
  BY DEF Delivering, Of
<1>3. CASE QueueOf[m] = q /\ v = "here"
  <2>1. D2 = D \cup {m}
    BY <1>3 DEF Delivering, Of
  <2> HIDE DEF D, D2
  <2>2. Cardinality(D \cup {m}) = IF m \in D THEN Cardinality(D) ELSE Cardinality(D) + 1
    BY <1>1, FS_AddElement
  <2>3. Cardinality(D2) = Cardinality(D) + 1 - (IF QueueOf[m] = q /\ sl[m] = "here" THEN 1 ELSE 0)
    BY <1>1, <1>2, <2>1, <2>2
  <2> QED
    BY <1>1, <1>3, <2>3 DEF D, D2
<1>4. CASE ~(QueueOf[m] = q /\ v = "here")
  <2>1. D2 = D \ {m}
    BY <1>4 DEF Delivering, Of
  <2> HIDE DEF D, D2
  <2>2. Cardinality(D \ {m}) = IF m \in D THEN Cardinality(D) - 1 ELSE Cardinality(D)
    BY <1>1, FS_RemoveElement
  <2>3. Cardinality(D2) = Cardinality(D) - (IF QueueOf[m] = q /\ sl[m] = "here" THEN 1 ELSE 0)
    BY <1>1, <1>2, <2>1, <2>2
  <2> QED
    BY <1>1, <1>4, <2>3 DEF D, D2
<1> QED
  BY <1>3, <1>4

(* An event e sent to the manager adds a report of q, or nothing.          *)
LEMMA AppendCounts ==
    ASSUME NEW s \in Seq(Events), NEW e \in Events, NEW q \in Queues
    PROVE  Cardinality(DoneAt(Append(s, e), q)) =
               Cardinality(DoneAt(s, q))
                   + IF e.type = "done" /\ QueueOf[e.msg] = q THEN 1 ELSE 0
<1>1. /\ Len(s) \in Nat
      /\ Len(Append(s, e)) = Len(s) + 1
      /\ \A i \in 1..Len(s) : Append(s, e)[i] = s[i]
      /\ Append(s, e)[Len(s) + 1] = e
  OBVIOUS
<1>2. CASE e.type = "done" /\ QueueOf[e.msg] = q
  <2>1. DoneAt(Append(s, e), q) = DoneAt(s, q) \cup {Len(s) + 1}
    BY <1>1, <1>2 DEF DoneAt
  <2>2. Len(s) + 1 \notin DoneAt(s, q)
    BY <1>1 DEF DoneAt
  <2> QED
    BY <1>2, <2>1, <2>2, DoneFinite, FS_AddElement
<1>3. CASE ~(e.type = "done" /\ QueueOf[e.msg] = q)
  <2>1. DoneAt(Append(s, e), q) = DoneAt(s, q)
    BY <1>1, <1>3 DEF DoneAt
  <2> QED
    BY <1>3, <2>1, DoneFinite
<1> QED
  BY <1>2, <1>3

(* The event the manager receives takes its report with it, or nothing.    *)
LEMMA TailCounts ==
    ASSUME NEW s \in Seq(Events), s # <<>>, NEW q \in Queues
    PROVE  Cardinality(DoneAt(Tail(s), q)) =
               Cardinality(DoneAt(s, q))
                   - IF Head(s).type = "done" /\ QueueOf[Head(s).msg] = q THEN 1 ELSE 0
<1>1. /\ Len(s) \in Nat \ {0}
      /\ Len(Tail(s)) = Len(s) - 1
      /\ \A i \in 1..(Len(s) - 1) : Tail(s)[i] = s[i + 1]
      /\ Head(s) = s[1]
      /\ Tail(s) \in Seq(Events)
  OBVIOUS
<1> DEFINE f == [i \in DoneAt(Tail(s), q) |-> i + 1]
<1>2. DoneAt(Tail(s), q) \subseteq 1..(Len(s) - 1)
  BY <1>1 DEF DoneAt
<1>3. f \in Bijection(DoneAt(Tail(s), q), DoneAt(s, q) \ {1})
  <2>1. \A i \in DoneAt(Tail(s), q) : i + 1 \in DoneAt(s, q) \ {1}
    BY <1>1, <1>2 DEF DoneAt
  <2>2. \A j \in DoneAt(s, q) \ {1} : j - 1 \in DoneAt(Tail(s), q) /\ j = (j - 1) + 1
    BY <1>1 DEF DoneAt
  <2>3. f \in [DoneAt(Tail(s), q) -> DoneAt(s, q) \ {1}]
    BY <2>1
  <2>4. \A i, j \in DoneAt(Tail(s), q) : f[i] = f[j] => i = j
    BY <1>2
  <2>5. \A j \in DoneAt(s, q) \ {1} : \E i \in DoneAt(Tail(s), q) : f[i] = j
    BY <2>2
  <2> QED
    BY <2>3, <2>4, <2>5 DEF Bijection, Injection, Surjection, IsInjective
<1>4. Cardinality(DoneAt(s, q) \ {1}) = Cardinality(DoneAt(Tail(s), q))
  <2>1. ExistsBijection(DoneAt(Tail(s), q), DoneAt(s, q) \ {1})
    BY <1>3, Zenon DEF ExistsBijection
  <2>2. IsFiniteSet(DoneAt(Tail(s), q))
    BY <1>1, DoneFinite
  <2> QED
    BY <2>1, <2>2, FS_Bijection, Zenon
<1>5. 1 \in DoneAt(s, q) <=> Head(s).type = "done" /\ QueueOf[Head(s).msg] = q
  BY <1>1 DEF DoneAt
<1>6. Cardinality(DoneAt(s, q) \ {1}) =
          IF 1 \in DoneAt(s, q) THEN Cardinality(DoneAt(s, q)) - 1
          ELSE Cardinality(DoneAt(s, q))
  BY DoneFinite, FS_RemoveElement
<1> QED
  BY <1>4, <1>5, <1>6, DoneFinite

-----------------------------------------------------------------------------
(* The inductive invariant; WithinThreads follows from it.                 *)
Ind == TypeOK /\ InFlightExact /\ NoOrphanEntry

LEMMA Bounds ==
    /\ {MaxThreads, LockedFor, Refresh, MaxDue} \subseteq Nat \ {0}
    /\ Forever \in Nat /\ LockedFor < Forever /\ Refresh < Forever /\ MaxDue < Forever
    /\ None = -1 /\ Gone = -1
BY ManagerAssumptions DEF Forever, None, Gone

LEMMA CountTypes ==
    ASSUME TypeOK, NEW q \in Queues
    PROVE  Running(q) \in Nat /\ Reports(q) \in Nat
<1>1. Cardinality(Starting(spawned, q)) \in Nat
  BY StartingMember DEF TypeOK
<1>2. Cardinality(Delivering(storeLock, q)) \in Nat
  BY DeliveringFinite
<1>3. Reports(q) \in Nat
  BY DoneFinite DEF TypeOK, Reports
<1> QED
  BY <1>1, <1>2, <1>3 DEF Running

LEMMA IndImplies == Ind => ManagerInv
<1> SUFFICES ASSUME Ind PROVE WithinThreads
  BY DEF Ind, ManagerInv
<1>1. ASSUME NEW q \in Queues PROVE Running(q) <= MaxThreads
  <2>1. Running(q) \in Nat /\ Reports(q) \in Nat
    BY CountTypes DEF Ind
  <2>2. inFlight[q] >= Running(q) + Reports(q) + panics[q]
    BY DEF Ind, InFlightExact
  <2>3. inFlight[q] \in 0..MaxThreads /\ panics[q] \in Nat
    BY ManagerAssumptions DEF Ind, TypeOK
  <2> QED
    BY <2>1, <2>2, <2>3, ManagerAssumptions
<1> QED
  BY <1>1 DEF WithinThreads

LEMMA EventTypes ==
    /\ \A m \in Msgs, st \in {"completed", "deferred", "locked"} :
          /\ Report(m, st) \in Events
          /\ Report(m, st).type = "done" /\ Report(m, st).msg = m
    /\ \A t \in {"refresh", "pause", "resume", "reload", "stop"} :
          Request(t) \in Events /\ Request(t).type = t
    /\ \A e \in Events : e.type = "done" => e.msg \in Msgs
<1>1. ASSUME NEW e \in Events, e.type = "done" PROVE e.msg \in Msgs
  <2>1. CASE \E m \in Msgs, st \in {"completed", "deferred", "locked"} : e = Report(m, st)
    BY <2>1 DEF Report
  <2>2. CASE \E t \in {"refresh", "pause", "resume", "reload", "stop"} : e = Request(t)
    BY <1>1, <2>2 DEF Request
  <2> QED
    BY <2>1, <2>2 DEF Events
<1>2. \A m \in Msgs, st \in {"completed", "deferred", "locked"} :
          /\ Report(m, st) \in Events
          /\ Report(m, st).type = "done" /\ Report(m, st).msg = m
  BY DEF Events, Report
<1>3. \A t \in {"refresh", "pause", "resume", "reload", "stop"} :
          Request(t) \in Events /\ Request(t).type = t
  BY DEF Events, Request
<1> QED
  BY <1>1, <1>2, <1>3

(* A report that stays in the channel when the first event is received.    *)
LEMMA ReportStays ==
    ASSUME NEW s \in Seq(Events), s # <<>>, NEW m,
           Head(s).type = "done" => Head(s).msg # m,
           \E i \in 1..Len(s) : s[i].type = "done" /\ s[i].msg = m
    PROVE  \E i \in 1..Len(Tail(s)) : Tail(s)[i].type = "done" /\ Tail(s)[i].msg = m
<1>1. /\ Len(s) \in Nat \ {0}
      /\ Len(Tail(s)) = Len(s) - 1
      /\ \A i \in 1..(Len(s) - 1) : Tail(s)[i] = s[i + 1]
      /\ Head(s) = s[1]
  OBVIOUS
<1>2. PICK i \in 1..Len(s) : s[i].type = "done" /\ s[i].msg = m
  OBVIOUS
<1>3. i # 1
  BY <1>1, <1>2
<1>4. i - 1 \in 1..Len(Tail(s)) /\ Tail(s)[i - 1] = s[i]
  BY <1>1, <1>3
<1> QED
  BY <1>2, <1>4

(* The reports of the channel are still there when an event is sent.       *)
LEMMA ReportSent ==
    ASSUME NEW s \in Seq(Events), NEW e \in Events, NEW m,
           \/ e.type = "done" /\ e.msg = m
           \/ \E i \in 1..Len(s) : s[i].type = "done" /\ s[i].msg = m
    PROVE  \E i \in 1..Len(Append(s, e)) :
               Append(s, e)[i].type = "done" /\ Append(s, e)[i].msg = m
<1>1. /\ Len(s) \in Nat
      /\ Len(Append(s, e)) = Len(s) + 1
      /\ \A i \in 1..Len(s) : Append(s, e)[i] = s[i]
      /\ Append(s, e)[Len(s) + 1] = e
  OBVIOUS
<1>2. CASE e.type = "done" /\ e.msg = m
  BY <1>1, <1>2
<1>3. CASE \E i \in 1..Len(s) : s[i].type = "done" /\ s[i].msg = m
  BY <1>1, <1>3
<1> QED
  BY <1>2, <1>3

(* NoOrphanEntry for one message.                                          *)
Kept(m) ==
    \/ locked[m] # Forever
    \/ spawned[m] > 0
    \/ storeLock[m] = "here"
    \/ \E i \in 1..Len(chan) : chan[i].type = "done" /\ chan[i].msg = m
    \/ panics[QueueOf[m]] > 0
    \/ closed

LEMMA OrphanKept == NoOrphanEntry <=> \A m \in Msgs : Kept(m)
BY DEF NoOrphanEntry, Kept

-----------------------------------------------------------------------------
(* The manager's steps *)

LEMMA HandleDoneKeeps == Ind /\ HandleDone => Ind'
<1> SUFFICES ASSUME Ind, HandleDone PROVE Ind'
  OBVIOUS
<1> DEFINE e == Head(chan)
           q0 == QueueOf[e.msg]
<1>1. chan \in Seq(Events) /\ chan # <<>> /\ e \in Events /\ e.type = "done"
  BY DEF Ind, TypeOK, HandleDone, Received
<1>2. e.msg \in Msgs /\ q0 \in Queues
  BY <1>1, EventTypes, ManagerAssumptions
<1>3. /\ inFlight' = [inFlight EXCEPT ![q0] = @ - 1]
      /\ chan' = Tail(chan) /\ pc' = "drain"
      /\ UNCHANGED <<due, storeLock, maxInFlight, paused, closed, spawned, panics, requests>>
  BY DEF HandleDone, HandleCompleted, HandleDeferred, HandleLocked, Handle, Freed
<1>4. \E v \in {None, LockedFor} : locked' = [locked EXCEPT ![e.msg] = v]
  BY DEF HandleDone, HandleCompleted, HandleDeferred, HandleLocked
<1>5. refreshIn' \in 0..Forever
  <2>1. CASE UNCHANGED refreshIn
    BY <2>1 DEF Ind, TypeOK
  <2>2. CASE refreshIn' = Min({refreshIn, LockedFor})
    <3>1. refreshIn \in 0..Forever /\ refreshIn \in Int /\ LockedFor \in Int
      BY Bounds DEF Ind, TypeOK
    <3>2. refreshIn' = IF refreshIn <= LockedFor THEN refreshIn ELSE LockedFor
      BY <2>2, <3>1, MinOfTwo
    <3> QED
      BY <3>1, <3>2, Bounds
  <2> QED
    BY <2>1, <2>2 DEF HandleDone, HandleCompleted, HandleDeferred, HandleLocked
<1>6. refresh' \in BOOLEAN
  BY DEF HandleDone, HandleCompleted, HandleDeferred, HandleLocked, Handle, Ind, TypeOK
<1> HIDE DEF e, q0
<1>7. ASSUME NEW q \in Queues
      PROVE  /\ Running(q)' = Running(q)
             /\ Reports(q)' = Reports(q) - IF q = q0 THEN 1 ELSE 0
             /\ inFlight'[q] = inFlight[q] - IF q = q0 THEN 1 ELSE 0
  <2>1. Running(q)' = Running(q)
    BY <1>3 DEF Running
  <2>2. Reports(q)' = Reports(q) - IF q = q0 THEN 1 ELSE 0
    BY <1>1, <1>3, TailCounts DEF Reports, e, q0
  <2>3. inFlight'[q] = inFlight[q] - IF q = q0 THEN 1 ELSE 0
    BY <1>3 DEF Ind, TypeOK
  <2> QED
    BY <2>1, <2>2, <2>3
<1>8. ASSUME NEW q \in Queues
      PROVE  /\ Running(q) \in Nat /\ Reports(q) \in Nat /\ Reports(q)' \in Nat
             /\ panics[q] \in Nat /\ inFlight[q] \in 0..MaxThreads
  <2>1. Reports(q)' \in Nat
    <3>1. Tail(chan) \in Seq(Events)
      BY <1>1
    <3>2. Cardinality(DoneAt(Tail(chan), q)) \in Nat
      BY <3>1, DoneFinite
    <3> QED
      BY <1>3, <3>2 DEF Reports
  <2>2. panics[q] \in Nat /\ inFlight[q] \in 0..MaxThreads
    BY ManagerAssumptions DEF Ind, TypeOK
  <2> QED
    BY CountTypes, <2>1, <2>2 DEF Ind
<1>9. \A q \in Queues : /\ inFlight[q] >= Running(q) + Reports(q) + panics[q]
                        /\ ~closed => inFlight[q] = Running(q) + Reports(q) + panics[q]
  BY DEF Ind, InFlightExact
<1>10. InFlightExact'
  <2>1. ASSUME NEW q \in Queues
        PROVE  /\ inFlight'[q] >= Running(q)' + Reports(q)' + panics'[q]
               /\ ~closed' => inFlight'[q] = Running(q)' + Reports(q)' + panics'[q]
    <3>1. panics'[q] = panics[q] /\ closed' = closed
      BY <1>3
    <3> QED
      BY <1>7, <1>8, <1>9, <3>1
  <2> QED
    BY <2>1 DEF InFlightExact
<1>11. inFlight' \in [Queues -> 0..MaxThreads]
  <2>1. ASSUME NEW q \in Queues PROVE inFlight'[q] \in 0..MaxThreads
    BY <1>7, <1>8, <1>9, Bounds
  <2>2. inFlight' = [q \in Queues |-> inFlight'[q]]
    BY <1>3 DEF Ind, TypeOK
  <2> QED
    BY <2>1, <2>2
<1>12. locked' \in [Msgs -> None..Forever]
  BY <1>2, <1>4, Bounds DEF Ind, TypeOK
<1>13. TypeOK'
  <2>1. chan' \in Seq(Events)
    BY <1>1, <1>3
  <2> QED
    BY <1>3, <1>5, <1>6, <1>11, <1>12, <2>1 DEF Ind, TypeOK, Gone, None, Forever
<1>14. ASSUME NEW m \in Msgs PROVE Kept(m)'
  <2>0. Kept(m)
    BY OrphanKept DEF Ind
  <2>1. CASE m = e.msg
    <3>1. locked'[m] # Forever
      BY <1>2, <1>4, <2>1, Bounds DEF Ind, TypeOK
    <3> QED
      BY <3>1 DEF Kept, Forever
  <2>2. CASE m # e.msg
    <3>1. locked'[m] = locked[m]
      BY <1>2, <1>4, <2>2 DEF Ind, TypeOK
    <3>2. CASE \E i \in 1..Len(chan) : chan[i].type = "done" /\ chan[i].msg = m
      <4>1. \E i \in 1..Len(Tail(chan)) : Tail(chan)[i].type = "done" /\ Tail(chan)[i].msg = m
        BY <1>1, <2>2, <3>2, ReportStays DEF e
      <4> QED
        BY <1>3, <4>1 DEF Kept
    <3>3. CASE ~\E i \in 1..Len(chan) : chan[i].type = "done" /\ chan[i].msg = m
      BY <1>3, <2>0, <3>1, <3>3 DEF Kept, Forever
    <3> QED
      BY <3>2, <3>3
  <2> QED
    BY <2>1, <2>2
<1> QED
  BY <1>10, <1>13, <1>14, OrphanKept DEF Ind, NoOrphanEntry, Kept

LEMMA HandleRequestKeeps == Ind /\ HandleRequest => Ind'
<1> SUFFICES ASSUME Ind, HandleRequest PROVE Ind'
  OBVIOUS
<1> DEFINE e == Head(chan)
<1>1. chan \in Seq(Events) /\ chan # <<>> /\ e \in Events /\ e.type # "done"
  <2>1. chan # <<>> /\ e.type \in {"refresh", "pause", "resume", "reload", "stop"}
    BY DEF HandleRequest, HandleRefresh, HandlePaused, HandleReload, HandleStop, Received
  <2>2. chan \in Seq(Events)
    BY DEF Ind, TypeOK
  <2>3. e \in Events
    BY <2>1, <2>2
  <2> QED
    BY <2>1, <2>2, <2>3
<1>2. /\ chan' = Tail(chan) /\ pc' = "drain"
      /\ UNCHANGED <<due, storeLock, refreshIn, locked, inFlight, spawned, panics, requests>>
  BY DEF HandleRequest, HandleRefresh, HandlePaused, HandleReload, HandleStop, Handle
<1>3. {refresh', paused', closed'} \subseteq BOOLEAN /\ (closed => closed')
  <2>1. {refresh, paused, closed} \subseteq BOOLEAN
    BY DEF Ind, TypeOK
  <2>2. CASE HandleRefresh
    BY <2>1, <2>2 DEF HandleRefresh, Handle
  <2>3. CASE HandlePaused
    BY <2>1, <2>3 DEF HandlePaused, Handle
  <2>4. CASE HandleReload
    BY <2>1, <2>4 DEF HandleReload, Handle
  <2>5. CASE HandleStop
    BY <2>1, <2>5 DEF HandleStop, Handle
  <2> QED
    BY <2>2, <2>3, <2>4, <2>5 DEF HandleRequest
<1>4. maxInFlight' \in [Queues -> 1..MaxThreads]
  BY DEF HandleRequest, HandleRefresh, HandlePaused, HandleReload, HandleStop, Ind, TypeOK
<1>5. TypeOK'
  <2>1. chan' \in Seq(Events)
    BY <1>1, <1>2
  <2> QED
    BY <1>2, <1>3, <1>4, <2>1 DEF Ind, TypeOK, Gone, None, Forever
<1> HIDE DEF e
<1>6. ASSUME NEW q \in Queues
      PROVE  /\ inFlight'[q] >= Running(q)' + Reports(q)' + panics'[q]
             /\ ~closed' => inFlight'[q] = Running(q)' + Reports(q)' + panics'[q]
  <2>1. Running(q)' = Running(q)
    BY <1>2 DEF Running
  <2>2. Cardinality(DoneAt(Tail(chan), q)) = Cardinality(DoneAt(chan, q)) - 0
    BY <1>1, TailCounts DEF e
  <2>3. Reports(q)' = Reports(q)
    BY <1>1, <1>2, <2>2, DoneFinite DEF Reports
  <2>4. inFlight'[q] = inFlight[q] /\ panics'[q] = panics[q]
    BY <1>2
  <2>5. /\ inFlight[q] >= Running(q) + Reports(q) + panics[q]
        /\ ~closed => inFlight[q] = Running(q) + Reports(q) + panics[q]
    BY DEF Ind, InFlightExact
  <2> QED
    BY <1>3, <2>1, <2>3, <2>4, <2>5
<1>7. ASSUME NEW m \in Msgs PROVE Kept(m)'
  <2>0. Kept(m)
    BY OrphanKept DEF Ind
  <2>1. CASE \E i \in 1..Len(chan) : chan[i].type = "done" /\ chan[i].msg = m
    <3>1. \E i \in 1..Len(Tail(chan)) : Tail(chan)[i].type = "done" /\ Tail(chan)[i].msg = m
      BY <1>1, <2>1, ReportStays DEF e
    <3> QED
      BY <1>2, <3>1 DEF Kept
  <2>2. CASE ~\E i \in 1..Len(chan) : chan[i].type = "done" /\ chan[i].msg = m
    BY <1>2, <1>3, <2>0, <2>2 DEF Kept, Forever
  <2> QED
    BY <2>1, <2>2
<1>8. InFlightExact'
  BY <1>6 DEF InFlightExact
<1> QED
  BY <1>5, <1>7, <1>8, OrphanKept DEF Ind, NoOrphanEntry, Kept

(* A scan never spawns more workers than a queue has threads left.         *)
LEMMA ScanKeeps ==
    ASSUME NEW spawn \in SUBSET Msgs, NEW failed \in BOOLEAN, Ind, Scan(spawn, failed)
    PROVE  Ind'
<1>1. PICK seen \in Seen(failed) :
          /\ Allowed(spawn, Taken(seen))
          /\ locked' = [m \in Msgs |-> IF m \in spawn THEN Forever
                                       ELSE IF m \in Waiting(seen) THEN locked[m]
                                       ELSE None]
          /\ refreshIn' = NextRefresh(seen)
  BY DEF Scan
<1>2. /\ spawned' = [m \in Msgs |-> spawned[m] + IF m \in spawn THEN 1 ELSE 0]
      /\ inFlight' = [q \in Queues |-> inFlight[q] + Cardinality(spawn \cap Of(q))]
      /\ pc' = "wait" /\ refresh' = FALSE
      /\ UNCHANGED <<due, storeLock, chan, maxInFlight, paused, closed, panics>>
      /\ failed => requests < MaxRequests
      /\ requests' = requests + IF failed THEN 1 ELSE 0
  BY DEF Scan
<1>3. requests' \in 0..MaxRequests
  BY <1>2, ManagerAssumptions DEF Ind, TypeOK
<1>4. ASSUME NEW q \in Queues
      PROVE  /\ Cardinality(spawn \cap Of(q)) \in Nat
             /\ inFlight[q] + Cardinality(spawn \cap Of(q)) \in 0..MaxThreads
  <2> DEFINE room == maxInFlight[q] - inFlight[q]
             c == Cardinality(Taken(seen) \cap Of(q))
  <2>1. Cardinality(spawn \cap Of(q)) = Min({c, Max({0, room})})
    BY <1>1 DEF Allowed
  <2>2. inFlight[q] \in 0..MaxThreads /\ maxInFlight[q] \in 1..MaxThreads /\ MaxThreads \in Nat
    BY Bounds DEF Ind, TypeOK
  <2>3. c \in Nat
    <3>1. IsFiniteSet(Msgs) /\ Taken(seen) \cap Of(q) \in SUBSET Msgs
      BY ManagerAssumptions DEF Of
    <3> QED
      BY <3>1, FS_Subset, FS_CardinalityType
  <2>4. Cardinality(spawn \cap Of(q)) \in Nat
    <3>1. IsFiniteSet(Msgs) /\ spawn \cap Of(q) \in SUBSET Msgs
      BY ManagerAssumptions DEF Of
    <3> QED
      BY <3>1, FS_Subset, FS_CardinalityType
  <2> HIDE DEF c
  <2>5. room \in Int
    BY <2>2
  <2> HIDE DEF room
  <2>6. Max({0, room}) = IF 0 <= room THEN room ELSE 0
    BY <2>5, MaxOfTwo
  <2>7. Min({c, Max({0, room})}) <= IF 0 <= room THEN room ELSE 0
    <3>1. Max({0, room}) \in Int
      BY <2>5, <2>6
    <3>2. Min({c, Max({0, room})}) = IF c <= Max({0, room}) THEN c ELSE Max({0, room})
      BY <2>3, <3>1, MinOfTwo
    <3> QED
      BY <2>3, <2>5, <2>6, <3>2
  <2> QED
    BY <2>1, <2>2, <2>4, <2>7 DEF room
<1>5. inFlight' \in [Queues -> 0..MaxThreads]
  BY <1>2, <1>4
<1>6. /\ \A q \in Queues : Running(q) \in Nat /\ Reports(q) \in Nat
      /\ \A q \in Queues : panics[q] \in Nat
      /\ \A q \in Queues : /\ inFlight[q] >= Running(q) + Reports(q) + panics[q]
                           /\ ~closed => inFlight[q] = Running(q) + Reports(q) + panics[q]
  BY CountTypes, ManagerAssumptions DEF Ind, TypeOK, InFlightExact
(* A worker that has not tried its lock is counted by in_flight, so that   *)
(* there was room for one more.                                            *)
<1>7. spawned' \in [Msgs -> 0..MaxThreads]
  <2>1. ASSUME NEW m \in Msgs
        PROVE  spawned[m] + (IF m \in spawn THEN 1 ELSE 0) \in 0..MaxThreads
    <3>1. spawned[m] \in 0..MaxThreads /\ MaxThreads \in Nat
      BY Bounds DEF Ind, TypeOK
    <3>2. CASE m \notin spawn
      BY <3>1, <3>2
    <3>3. CASE m \in spawn
      <4> DEFINE q == QueueOf[m]
                 S == Starting(spawned, q)
                 Mine == {m} \X (1..spawned[m])
      <4>1. q \in Queues
        BY ManagerAssumptions
      <4>2. IsFiniteSet(S) /\ Cardinality(S) \in Nat
        BY <4>1, StartingMember DEF Ind, TypeOK
      <4>3. Mine \in SUBSET S
        BY DEF Starting, Of
      <4>4. Cardinality(Mine) = spawned[m]
        <5>1. IsFiniteSet({m}) /\ Cardinality({m}) = 1
          BY FS_Singleton
        <5>2. IsFiniteSet(1..spawned[m]) /\ Cardinality(1..spawned[m]) = spawned[m]
          <6>1. spawned[m] \in Int /\ spawned[m] >= 0
            BY <3>1
          <6>2. /\ IsFiniteSet(1..spawned[m])
                /\ Cardinality(1..spawned[m]) =
                      IF 1 > spawned[m] THEN 0 ELSE spawned[m] - 1 + 1
            BY <6>1, FS_Interval
          <6> QED
            BY <6>1, <6>2
        <5>3. Cardinality({m} \X (1..spawned[m])) = Cardinality({m}) * Cardinality(1..spawned[m])
          BY <5>1, <5>2, FS_Product, Zenon
        <5>4. spawned[m] \in Int
          BY <3>1
        <5> QED
          BY <5>1, <5>2, <5>3, <5>4
      <4> HIDE DEF S, Mine
      <4>5. spawned[m] <= Cardinality(S)
        BY <4>2, <4>3, <4>4, FS_Subset
      <4>6. Cardinality(S) <= Running(q)
        <5>1. Cardinality(Delivering(storeLock, q)) \in Nat
          BY <4>1, DeliveringFinite
        <5> QED
          BY <4>2, <5>1 DEF Running, S
      <4> HIDE DEF q
      <4>7. Running(q) <= inFlight[q]
        <5>1. inFlight[q] \in Int
          BY <4>1, Bounds DEF Ind, TypeOK
        <5> QED
          BY <1>6, <4>1, <5>1
      <4>8. Cardinality(spawn \cap Of(q)) >= 1
        <5>1. m \in spawn \cap Of(q)
          BY <3>3 DEF Of, q
        <5>2. IsFiniteSet(Msgs) /\ spawn \cap Of(q) \in SUBSET Msgs
          BY ManagerAssumptions DEF Of
        <5>3. IsFiniteSet(spawn \cap Of(q))
          BY <5>2, FS_Subset
        <5>4. Cardinality(spawn \cap Of(q)) # 0
          BY <5>1, <5>3, FS_EmptySet
        <5>5. Cardinality(spawn \cap Of(q)) \in Nat
          BY <5>3, FS_CardinalityType
        <5> QED
          BY <5>4, <5>5
      <4>9. inFlight[q] + Cardinality(spawn \cap Of(q)) \in 0..MaxThreads
        BY <1>4, <4>1
      <4>10. inFlight[q] \in Nat /\ Running(q) \in Nat /\ Cardinality(spawn \cap Of(q)) \in Nat
        BY <1>4, <1>6, <4>1 DEF Ind, TypeOK
      <4> QED
        BY <3>1, <3>3, <4>2, <4>5, <4>6, <4>7, <4>8, <4>9, <4>10
    <3> QED
      BY <3>2, <3>3
  <2> QED
    BY <1>2, <2>1
<1>8. locked' \in [Msgs -> None..Forever]
  BY <1>1, Bounds DEF Ind, TypeOK
<1>9. refreshIn' \in 0..Forever
  <2> DEFINE T == {Refresh} \cup {due[m] : m \in seen \ Due} \cup {locked[m] : m \in Waiting(seen)}
  <2>1. seen \subseteq Msgs /\ \A m \in seen \ Due : due[m] # Gone
    <3>1. CASE failed
      BY <3>1 DEF Seen, Due
    <3>2. CASE ~failed
      BY <3>2 DEF Seen, Due
    <3> QED
      BY <3>1, <3>2
  <2>2. \A m \in seen \ Due : due[m] \in 0..Forever
    BY <2>1, Bounds DEF Ind, TypeOK
  <2>3. \A m \in Waiting(seen) : locked[m] \in 0..Forever
    <3>1. \A m \in Waiting(seen) : m \in Msgs /\ ~(locked[m] <= 0)
      BY <2>1 DEF Waiting, Taken, Touched
    <3> QED
      BY <3>1, Bounds DEF Ind, TypeOK
  <2>4. Refresh \in 0..Forever
    BY Bounds
  <2>5. T \subseteq 0..Forever /\ T # {}
    BY <2>2, <2>3, <2>4
  <2>6. T \subseteq Nat
    BY <2>5, Bounds
  <2>7. refreshIn' = Min(T)
    BY <1>1 DEF NextRefresh
  <2> HIDE DEF T
  <2> QED
    BY <2>5, <2>6, <2>7, MinOfNats
<1>10. TypeOK'
  BY <1>2, <1>3, <1>5, <1>7, <1>8, <1>9 DEF Ind, TypeOK, Gone, None, Forever
<1>11. ASSUME NEW q \in Queues
       PROVE  /\ inFlight'[q] >= Running(q)' + Reports(q)' + panics'[q]
              /\ ~closed' => inFlight'[q] = Running(q)' + Reports(q)' + panics'[q]
  <2> DEFINE n == Cardinality(spawn \cap Of(q))
  <2>1. Cardinality(Starting(spawned', q)) = Cardinality(Starting(spawned, q)) + n
    <3>1. spawned \in [Msgs -> 0..MaxThreads]
      BY DEF Ind, TypeOK
    <3>2. \A m \in Msgs : spawned'[m] = spawned[m] + IF m \in spawn THEN 1 ELSE 0
      BY <1>2
    <3> QED
      BY <3>1, <3>2, <1>7, SpawnCounts
  <2>2. Cardinality(Starting(spawned, q)) \in Nat /\ Cardinality(Delivering(storeLock, q)) \in Nat
    BY StartingMember, DeliveringFinite DEF Ind, TypeOK
  <2>3. n \in Nat
    BY <1>4
  <2> HIDE DEF n
  <2>4. Running(q)' = Running(q) + n
    BY <1>2, <2>1, <2>2, <2>3 DEF Running
  <2>5. Reports(q)' = Reports(q) /\ panics'[q] = panics[q] /\ closed' = closed
    BY <1>2 DEF Reports
  <2>6. inFlight'[q] = inFlight[q] + n
    BY <1>2 DEF n
  <2>7. inFlight[q] \in Int
    BY Bounds DEF Ind, TypeOK
  <2> QED
    BY <1>6, <2>3, <2>4, <2>5, <2>6, <2>7
<1>12. ASSUME NEW m \in Msgs PROVE Kept(m)'
  <2>0. Kept(m)
    BY OrphanKept DEF Ind
  <2>1. spawned[m] \in Nat
    BY Bounds DEF Ind, TypeOK
  <2>2. CASE m \in spawn
    BY <1>2, <2>1, <2>2 DEF Kept
  <2>3. CASE m \notin spawn
    <3>1. spawned'[m] = spawned[m]
      BY <1>2, <2>1, <2>3
    <3>2. locked'[m] = locked[m] \/ locked'[m] = None
      BY <1>1, <2>3
    <3>3. None # Forever
      BY Bounds
    <3> QED
      BY <1>2, <2>0, <3>1, <3>2, <3>3 DEF Kept, Forever
  <2> QED
    BY <2>2, <2>3
<1>13. InFlightExact'
  BY <1>11 DEF InFlightExact
<1> QED
  BY <1>10, <1>12, <1>13, OrphanKept DEF Ind, NoOrphanEntry, Kept

(* A step that changes no worker, report or table of the manager.          *)
LEMMA QuietKeeps ==
    ASSUME Ind, TypeOK', \A m \in Msgs : locked'[m] = Forever => locked[m] = Forever,
           UNCHANGED <<chan, inFlight, closed, spawned, panics>>,
           \A m \in Msgs : storeLock'[m] = "here" <=> storeLock[m] = "here"
    PROVE  Ind'
<1>1. ASSUME NEW q \in Queues
      PROVE  Running(q)' = Running(q) /\ Reports(q)' = Reports(q)
  <2>1. Delivering(storeLock', q) = Delivering(storeLock, q)
    BY DEF Delivering, Of
  <2> QED
    BY <2>1 DEF Running, Reports
<1>2. InFlightExact'
  <2>1. ASSUME NEW q \in Queues
        PROVE  /\ inFlight'[q] >= Running(q)' + Reports(q)' + panics'[q]
               /\ ~closed' => inFlight'[q] = Running(q)' + Reports(q)' + panics'[q]
    <3>1. /\ inFlight[q] >= Running(q) + Reports(q) + panics[q]
          /\ ~closed => inFlight[q] = Running(q) + Reports(q) + panics[q]
      BY DEF Ind, InFlightExact
    <3>2. inFlight'[q] = inFlight[q] /\ panics'[q] = panics[q] /\ closed' = closed
      OBVIOUS
    <3> QED
      BY <1>1, <3>1, <3>2
  <2> QED
    BY <2>1 DEF InFlightExact
<1>3. ASSUME NEW m \in Msgs PROVE Kept(m)'
  <2>0. Kept(m)
    BY OrphanKept DEF Ind
  <2> QED
    BY <2>0 DEF Kept, Forever
<1> QED
  BY <1>2, <1>3, OrphanKept DEF Ind, NoOrphanEntry, Kept

LEMMA EndTurnKeeps == Ind /\ EndTurn => Ind'
<1> SUFFICES ASSUME Ind, EndTurn PROVE Ind'
  OBVIOUS
<1>1. /\ pc' = "wait" /\ refresh' = FALSE
      /\ refreshIn' = refreshIn \/ refreshIn' = Forever
      /\ UNCHANGED <<due, storeLock, chan, locked, inFlight, maxInFlight, paused,
                     closed, spawned, panics, requests>>
  BY DEF EndTurn
<1>2. TypeOK'
  <2>1. refreshIn' \in 0..Forever
    BY <1>1, Bounds DEF Ind, TypeOK
  <2> QED
    BY <1>1, <2>1 DEF Ind, TypeOK, Gone, None, Forever
<1> QED
  BY <1>1, <1>2, QuietKeeps

LEMMA StoppedKeeps == Ind /\ Stopped => Ind'
<1> SUFFICES ASSUME Ind, Stopped PROVE Ind'
  OBVIOUS
<1>1. /\ pc' = "stopped"
      /\ UNCHANGED <<due, storeLock, chan, refresh, refreshIn, locked, inFlight,
                     maxInFlight, paused, closed, spawned, panics, requests>>
  BY DEF Stopped
<1>2. TypeOK'
  BY <1>1 DEF Ind, TypeOK, Gone, None, Forever
<1> QED
  BY <1>1, <1>2, QuietKeeps

LEMMA TickKeeps == Ind /\ Tick => Ind'
<1> SUFFICES ASSUME Ind, Tick PROVE Ind'
  OBVIOUS
<1>1. /\ due' = [m \in Msgs |-> Down(due[m])]
      /\ locked' = [m \in Msgs |-> Down(locked[m])]
      /\ refreshIn' = Down(refreshIn)
      /\ UNCHANGED <<storeLock, pc, chan, refresh, inFlight, maxInFlight, paused,
                     closed, spawned, panics, requests>>
  BY DEF Tick
<1>2. due' \in [Msgs -> Gone..MaxDue]
  <2>1. \A m \in Msgs : due[m] \in Gone..MaxDue
    BY DEF Ind, TypeOK
  <2>2. \A m \in Msgs : Down(due[m]) \in Gone..MaxDue
    BY <2>1, Bounds DEF Down
  <2> QED
    BY <1>1, <2>2
<1>3. locked' \in [Msgs -> None..Forever]
      /\ \A m \in Msgs : locked'[m] = Forever => locked[m] = Forever
  <2>1. \A m \in Msgs : locked[m] \in None..Forever
    BY DEF Ind, TypeOK
  <2>2. \A m \in Msgs : /\ Down(locked[m]) \in None..Forever
                        /\ Down(locked[m]) = Forever => locked[m] = Forever
    BY <2>1, Bounds DEF Down
  <2> QED
    BY <1>1, <2>2
<1>4. refreshIn' \in 0..Forever
  <2>1. refreshIn \in 0..Forever
    BY DEF Ind, TypeOK
  <2> QED
    BY <1>1, <2>1, Bounds DEF Down
<1>5. TypeOK'
  BY <1>1, <1>2, <1>3, <1>4 DEF Ind, TypeOK, Gone, None, Forever
<1> QED
  BY <1>1, <1>3, <1>5, QuietKeeps

-----------------------------------------------------------------------------
(* The workers' steps *)

(* What sending an event does to the reports in the channel.               *)
LEMMA SendCounts ==
    ASSUME Ind, NEW e \in Events, Send(e)
    PROVE  /\ chan' \in Seq(Events)
           /\ \A q \in Queues :
                 Reports(q)' = Reports(q)
                    + IF ~closed /\ e.type = "done" /\ QueueOf[e.msg] = q THEN 1 ELSE 0
           /\ \A m : (\E i \in 1..Len(chan) : chan[i].type = "done" /\ chan[i].msg = m) =>
                     (\E i \in 1..Len(chan)' : chan'[i].type = "done" /\ chan'[i].msg = m)
           /\ ~closed /\ e.type = "done" =>
                 \E i \in 1..Len(chan)' : chan'[i].type = "done" /\ chan'[i].msg = e.msg
<1>1. chan \in Seq(Events) /\ closed \in BOOLEAN /\ \A q \in Queues : Reports(q) \in Nat
  BY CountTypes DEF Ind, TypeOK
<1>2. CASE closed /\ UNCHANGED chan
  BY <1>1, <1>2 DEF Reports
<1>3. CASE ~closed /\ chan' = Append(chan, e)
  <2>1. chan' \in Seq(Events)
    BY <1>1, <1>3
  <2>2. \A q \in Queues : Cardinality(DoneAt(chan', q)) = Cardinality(DoneAt(chan, q))
                    + IF e.type = "done" /\ QueueOf[e.msg] = q THEN 1 ELSE 0
    BY <1>1, <1>3, AppendCounts
  <2>3. \A q \in Queues : Reports(q)' = Reports(q)
                    + IF ~closed /\ e.type = "done" /\ QueueOf[e.msg] = q THEN 1 ELSE 0
    BY <1>3, <2>2 DEF Reports
  <2>4. ASSUME NEW m, \E i \in 1..Len(chan) : chan[i].type = "done" /\ chan[i].msg = m
        PROVE  \E i \in 1..Len(chan)' : chan'[i].type = "done" /\ chan'[i].msg = m
    <3>1. \E i \in 1..Len(Append(chan, e)) :
              Append(chan, e)[i].type = "done" /\ Append(chan, e)[i].msg = m
      BY <1>1, <2>4, ReportSent
    <3> QED
      BY <1>3, <3>1
  <2>5. ASSUME e.type = "done"
        PROVE  \E i \in 1..Len(chan)' : chan'[i].type = "done" /\ chan'[i].msg = e.msg
    <3>1. \E i \in 1..Len(Append(chan, e)) :
              Append(chan, e)[i].type = "done" /\ Append(chan, e)[i].msg = e.msg
      BY <1>1, <2>5, ReportSent
    <3> QED
      BY <1>3, <3>1
  <2> QED
    BY <2>1, <2>3, <2>4, <2>5
<1> QED
  BY <1>2, <1>3 DEF Send

(* What the inductive invariant says of one queue.                         *)
LEMMA Balance ==
    ASSUME Ind, NEW q \in Queues
    PROVE  /\ Running(q) \in Nat /\ Reports(q) \in Nat /\ panics[q] \in Nat
           /\ inFlight[q] \in Int
           /\ inFlight[q] >= Running(q) + Reports(q) + panics[q]
           /\ ~closed => inFlight[q] = Running(q) + Reports(q) + panics[q]
<1>1. Running(q) \in Nat /\ Reports(q) \in Nat
  BY CountTypes DEF Ind
<1>2. panics[q] \in Nat /\ inFlight[q] \in Int
  BY ManagerAssumptions DEF Ind, TypeOK
<1>3. /\ inFlight[q] >= Running(q) + Reports(q) + panics[q]
      /\ ~closed => inFlight[q] = Running(q) + Reports(q) + panics[q]
  BY DEF Ind, InFlightExact
<1> QED
  BY <1>1, <1>2, <1>3

LEMMA TryLockKeeps == ASSUME NEW m0 \in Msgs, Ind, TryLock(m0) PROVE Ind'
<1> DEFINE q0 == QueueOf[m0]
           e == Report(m0, "locked")
<1>0. q0 \in Queues /\ e \in Events /\ e.type = "done" /\ e.msg = m0
  BY EventTypes, ManagerAssumptions
<1>1. /\ spawned[m0] > 0
      /\ spawned' = [spawned EXCEPT ![m0] = @ - 1]
      /\ UNCHANGED <<due, pc, refresh, refreshIn, locked, inFlight, maxInFlight, paused,
                     closed, panics, requests>>
  BY DEF TryLock, manager
<1>2. /\ spawned \in [Msgs -> 0..MaxThreads]
      /\ storeLock \in [Msgs -> {"free", "here", "there"}]
      /\ closed \in BOOLEAN
  BY DEF Ind, TypeOK
<1>3. spawned' \in [Msgs -> 0..MaxThreads]
  BY <1>1, <1>2, Bounds
<1>4. \A q \in Queues : /\ Running(q) \in Nat /\ Reports(q) \in Nat /\ panics[q] \in Nat
                        /\ inFlight[q] \in Int
                        /\ inFlight[q] >= Running(q) + Reports(q) + panics[q]
                        /\ ~closed => inFlight[q] = Running(q) + Reports(q) + panics[q]
  BY Balance
<1>5. ASSUME NEW q \in Queues
      PROVE  /\ Cardinality(Starting(spawned', q)) =
                    Cardinality(Starting(spawned, q)) - IF q0 = q THEN 1 ELSE 0
             /\ Cardinality(Starting(spawned, q)) \in Nat
             /\ Cardinality(Delivering(storeLock, q)) \in Nat
  BY <1>1, <1>2, TryLockCounts, StartingMember, DeliveringFinite
<1> HIDE DEF q0, e
<1>6. CASE /\ storeLock[m0] = "free"
           /\ storeLock' = [storeLock EXCEPT ![m0] = "here"]
           /\ UNCHANGED chan
  <2>1. TypeOK'
    BY <1>1, <1>2, <1>3, <1>6 DEF Ind, TypeOK, Gone, None, Forever
  <2>2. ASSUME NEW q \in Queues
        PROVE  Running(q)' = Running(q) /\ Reports(q)' = Reports(q)
    <3>1. Cardinality(Delivering(storeLock', q)) =
              Cardinality(Delivering(storeLock, q)) + IF q0 = q THEN 1 ELSE 0
      <4>1. Cardinality(Delivering(storeLock', q)) =
                Cardinality(Delivering(storeLock, q))
                    + (IF QueueOf[m0] = q /\ "here" = "here" THEN 1 ELSE 0)
                    - (IF QueueOf[m0] = q /\ storeLock[m0] = "here" THEN 1 ELSE 0)
        BY <1>2, <1>6, LockCounts
      <4> QED
        BY <1>5, <1>6, <4>1 DEF q0
    <3> QED
      BY <1>5, <1>6, <3>1 DEF Running, Reports
  <2>3. InFlightExact'
    <3>1. ASSUME NEW q \in Queues
          PROVE  /\ inFlight'[q] >= Running(q)' + Reports(q)' + panics'[q]
                 /\ ~closed' => inFlight'[q] = Running(q)' + Reports(q)' + panics'[q]
      BY <1>1, <1>4, <2>2
    <3> QED
      BY <3>1 DEF InFlightExact
  <2>4. ASSUME NEW m \in Msgs PROVE Kept(m)'
    <3>0. Kept(m)
      BY OrphanKept DEF Ind
    <3>1. CASE m = m0
      <4>1. storeLock'[m] = "here"
        BY <1>2, <1>6, <3>1
      <4> QED
        BY <4>1 DEF Kept
    <3>2. CASE m # m0
      <4>1. spawned'[m] = spawned[m] /\ storeLock'[m] = storeLock[m]
        BY <1>1, <1>2, <1>6, <3>2
      <4> QED
        BY <1>1, <1>6, <3>0, <4>1 DEF Kept, Forever
    <3> QED
      BY <3>1, <3>2
  <2> QED
    BY <2>1, <2>3, <2>4, OrphanKept DEF Ind, NoOrphanEntry, Kept
<1>7. CASE Send(e) /\ UNCHANGED storeLock
  <2>0. /\ chan' \in Seq(Events)
        /\ \A q \in Queues : Reports(q)' = Reports(q) + IF ~closed /\ q0 = q THEN 1 ELSE 0
        /\ \A m : (\E i \in 1..Len(chan) : chan[i].type = "done" /\ chan[i].msg = m) =>
                  (\E i \in 1..Len(chan)' : chan'[i].type = "done" /\ chan'[i].msg = m)
        /\ ~closed => \E i \in 1..Len(chan)' : chan'[i].type = "done" /\ chan'[i].msg = m0
    BY <1>0, <1>7, SendCounts DEF q0
  <2>1. TypeOK'
    BY <1>1, <1>2, <1>3, <1>7, <2>0 DEF Ind, TypeOK, Gone, None, Forever
  <2>2. ASSUME NEW q \in Queues
        PROVE  Running(q)' = Running(q) - IF q0 = q THEN 1 ELSE 0
    BY <1>5, <1>7 DEF Running
  <2>3. InFlightExact'
    <3>1. ASSUME NEW q \in Queues
          PROVE  /\ inFlight'[q] >= Running(q)' + Reports(q)' + panics'[q]
                 /\ ~closed' => inFlight'[q] = Running(q)' + Reports(q)' + panics'[q]
      <4>1. Reports(q)' = Reports(q) + IF ~closed /\ q0 = q THEN 1 ELSE 0
        BY <2>0
      <4>2. inFlight'[q] = inFlight[q] /\ panics'[q] = panics[q] /\ closed' = closed
        BY <1>1
      <4> QED
        BY <1>4, <2>2, <4>1, <4>2
    <3> QED
      BY <3>1 DEF InFlightExact
  <2>4. ASSUME NEW m \in Msgs PROVE Kept(m)'
    <3>0. Kept(m)
      BY OrphanKept DEF Ind
    <3>1. CASE m = m0
      BY <1>1, <2>0, <3>1 DEF Kept
    <3>2. CASE m # m0
      <4>1. spawned'[m] = spawned[m] /\ storeLock'[m] = storeLock[m]
        BY <1>1, <1>2, <1>7, <3>2
      <4> QED
        BY <1>1, <2>0, <3>0, <4>1 DEF Kept, Forever
    <3> QED
      BY <3>1, <3>2
  <2> QED
    BY <2>1, <2>3, <2>4, OrphanKept DEF Ind, NoOrphanEntry, Kept
<1> QED
  BY <1>6, <1>7 DEF TryLock, e

(* A worker that delivered m0 reports it, or reports to nobody.            *)
LEMMA DeliverKeeps == ASSUME NEW m0 \in Msgs, Ind, Deliver(m0) PROVE Ind'
<1> DEFINE q0 == QueueOf[m0]
<1>0. PICK e \in {Report(m0, "completed"), Report(m0, "deferred")} : Send(e)
  BY DEF Deliver
<1>1. q0 \in Queues /\ e \in Events /\ e.type = "done" /\ e.msg = m0
  BY EventTypes, ManagerAssumptions
<1>2. /\ storeLock[m0] = "here"
      /\ storeLock' = [storeLock EXCEPT ![m0] = "free"]
      /\ UNCHANGED <<pc, refresh, refreshIn, locked, inFlight, maxInFlight, paused,
                     closed, spawned, panics, requests>>
  BY DEF Deliver, manager
<1>3. storeLock \in [Msgs -> {"free", "here", "there"}] /\ closed \in BOOLEAN
  BY DEF Ind, TypeOK
<1>4. due' \in [Msgs -> Gone..MaxDue]
  <2>1. \E d \in {Gone} \cup 1..MaxDue : due' = [due EXCEPT ![m0] = d]
    BY DEF Deliver
  <2>2. {Gone} \cup 1..MaxDue \subseteq Gone..MaxDue
    BY Bounds
  <2> QED
    BY <2>1, <2>2 DEF Ind, TypeOK
<1>5. \A q \in Queues : /\ Running(q) \in Nat /\ Reports(q) \in Nat /\ panics[q] \in Nat
                        /\ inFlight[q] \in Int
                        /\ inFlight[q] >= Running(q) + Reports(q) + panics[q]
                        /\ ~closed => inFlight[q] = Running(q) + Reports(q) + panics[q]
  BY Balance
<1> HIDE DEF q0
<1>6. /\ chan' \in Seq(Events)
      /\ \A q \in Queues : Reports(q)' = Reports(q) + IF ~closed /\ q0 = q THEN 1 ELSE 0
      /\ \A m : (\E i \in 1..Len(chan) : chan[i].type = "done" /\ chan[i].msg = m) =>
                (\E i \in 1..Len(chan)' : chan'[i].type = "done" /\ chan'[i].msg = m)
      /\ ~closed => \E i \in 1..Len(chan)' : chan'[i].type = "done" /\ chan'[i].msg = m0
  BY <1>0, <1>1, SendCounts DEF q0
<1>7. TypeOK'
  BY <1>2, <1>3, <1>4, <1>6 DEF Ind, TypeOK, Gone, None, Forever
<1>8. ASSUME NEW q \in Queues
      PROVE  Running(q)' = Running(q) - IF q0 = q THEN 1 ELSE 0
  <2>1. Cardinality(Delivering(storeLock', q)) =
            Cardinality(Delivering(storeLock, q))
                + (IF QueueOf[m0] = q /\ "free" = "here" THEN 1 ELSE 0)
                - (IF QueueOf[m0] = q /\ storeLock[m0] = "here" THEN 1 ELSE 0)
    BY <1>2, <1>3, LockCounts
  <2>2. Cardinality(Starting(spawned, q)) \in Nat /\ Cardinality(Delivering(storeLock, q)) \in Nat
    BY StartingMember, DeliveringFinite DEF Ind, TypeOK
  <2>3. Cardinality(Delivering(storeLock', q)) =
            Cardinality(Delivering(storeLock, q)) - IF q0 = q THEN 1 ELSE 0
    BY <1>2, <2>1, <2>2 DEF q0
  <2> QED
    BY <1>2, <2>2, <2>3 DEF Running
<1>9. InFlightExact'
  <2>1. ASSUME NEW q \in Queues
        PROVE  /\ inFlight'[q] >= Running(q)' + Reports(q)' + panics'[q]
               /\ ~closed' => inFlight'[q] = Running(q)' + Reports(q)' + panics'[q]
    BY <1>2, <1>3, <1>5, <1>6, <1>8
  <2> QED
    BY <2>1 DEF InFlightExact
<1>10. ASSUME NEW m \in Msgs PROVE Kept(m)'
  <2>0. Kept(m)
    BY OrphanKept DEF Ind
  <2>1. CASE m = m0
    BY <1>2, <1>6, <2>1 DEF Kept
  <2>2. CASE m # m0
    <3>1. storeLock'[m] = storeLock[m]
      BY <1>2, <1>3, <2>2
    <3> QED
      BY <1>2, <1>6, <2>0, <3>1 DEF Kept, Forever
  <2> QED
    BY <2>1, <2>2
<1> QED
  BY <1>7, <1>9, <1>10, OrphanKept DEF Ind, NoOrphanEntry, Kept

LEMMA PanicKeeps == ASSUME NEW m0 \in Msgs, Ind, Panic(m0) PROVE Ind'
<1> DEFINE q0 == QueueOf[m0]
<1>1. q0 \in Queues
  BY ManagerAssumptions
<1>2. /\ storeLock[m0] = "here"
      /\ storeLock' = [storeLock EXCEPT ![m0] = "there"]
      /\ panics' = [panics EXCEPT ![q0] = @ + 1]
      /\ requests < MaxRequests /\ requests' = requests + 1
      /\ UNCHANGED <<due, chan, pc, refresh, refreshIn, locked, inFlight, maxInFlight,
                     paused, closed, spawned>>
  BY DEF Panic, manager
<1> HIDE DEF q0
<1>3. /\ storeLock \in [Msgs -> {"free", "here", "there"}]
      /\ panics \in [Queues -> Nat]
  BY DEF Ind, TypeOK
<1>4. ASSUME NEW q \in Queues
      PROVE  /\ Running(q) \in Nat /\ Reports(q) \in Nat /\ panics[q] \in Nat
             /\ inFlight[q] \in Int
             /\ inFlight[q] >= Running(q) + Reports(q) + panics[q]
             /\ ~closed => inFlight[q] = Running(q) + Reports(q) + panics[q]
  BY Balance
<1>5. ASSUME NEW q \in Queues
      PROVE  /\ Running(q)' = Running(q) - IF q0 = q THEN 1 ELSE 0
             /\ panics'[q] = panics[q] + IF q0 = q THEN 1 ELSE 0
  <2>1. Cardinality(Delivering(storeLock', q)) =
            Cardinality(Delivering(storeLock, q))
                + (IF QueueOf[m0] = q /\ "there" = "here" THEN 1 ELSE 0)
                - (IF QueueOf[m0] = q /\ storeLock[m0] = "here" THEN 1 ELSE 0)
    <3>1. storeLock' = [storeLock EXCEPT ![m0] = "there"]
      BY <1>2
    <3>2. storeLock \in [Msgs -> {"free", "here", "there"}]
      BY <1>3
    <3> QED
      BY <3>1, <3>2, LockCounts
  <2>2. Cardinality(Starting(spawned, q)) \in Nat /\ Cardinality(Delivering(storeLock, q)) \in Nat
    BY StartingMember, DeliveringFinite DEF Ind, TypeOK
  <2>3. Cardinality(Delivering(storeLock', q)) =
            Cardinality(Delivering(storeLock, q)) - IF q0 = q THEN 1 ELSE 0
    BY <1>2, <2>1, <2>2 DEF q0
  <2>4. Running(q)' = Running(q) - IF q0 = q THEN 1 ELSE 0
    BY <1>2, <2>2, <2>3 DEF Running
  <2>5. panics'[q] = panics[q] + IF q0 = q THEN 1 ELSE 0
    BY <1>2, <1>3, <1>4
  <2> QED
    BY <2>4, <2>5
<1>6. InFlightExact'
  <2>1. ASSUME NEW q \in Queues
        PROVE  /\ inFlight'[q] >= Running(q)' + Reports(q)' + panics'[q]
               /\ ~closed' => inFlight'[q] = Running(q)' + Reports(q)' + panics'[q]
    <3>1. Reports(q)' = Reports(q) /\ inFlight'[q] = inFlight[q] /\ closed' = closed
      BY <1>2 DEF Reports
    <3> QED
      BY <1>4, <1>5, <3>1
  <2> QED
    BY <2>1 DEF InFlightExact
<1>7. TypeOK'
  <2>1. panics' \in [Queues -> Nat]
    BY <1>1, <1>2, <1>3
  <2>2. requests' \in 0..MaxRequests
    BY <1>2, ManagerAssumptions DEF Ind, TypeOK
  <2> QED
    BY <1>2, <1>3, <2>1, <2>2 DEF Ind, TypeOK, Gone, None, Forever
<1>8. ASSUME NEW m \in Msgs PROVE Kept(m)'
  <2>0. Kept(m)
    BY OrphanKept DEF Ind
  <2>1. CASE m = m0
    <3>1. panics'[QueueOf[m]] = panics[QueueOf[m]] + 1 /\ panics[QueueOf[m]] \in Nat
      BY <1>1, <1>4, <1>5, <2>1 DEF q0
    <3> QED
      BY <3>1 DEF Kept
  <2>2. CASE m # m0
    <3>1. storeLock'[m] = storeLock[m]
      BY <1>2, <1>3, <2>2
    <3>2. QueueOf[m] \in Queues
      BY ManagerAssumptions
    <3>3. panics[QueueOf[m]] > 0 => panics'[QueueOf[m]] > 0
      BY <1>4, <1>5, <3>2
    <3> QED
      BY <1>2, <2>0, <3>1, <3>3 DEF Kept, Forever
  <2> QED
    BY <2>1, <2>2
<1> QED
  BY <1>6, <1>7, <1>8, OrphanKept DEF Ind, NoOrphanEntry, Kept

-----------------------------------------------------------------------------
(* The other nodes and the rest of the server *)

LEMMA OtherNodeKeeps ==
    ASSUME NEW m0 \in Msgs, Ind, OtherNodeLocks(m0) \/ OtherNodeUnlocks(m0)
    PROVE  Ind'
<1>1. /\ storeLock[m0] # "here"
      /\ \E v \in {"free", "there"} : storeLock' = [storeLock EXCEPT ![m0] = v]
      /\ UNCHANGED <<chan, pc, refresh, refreshIn, locked, inFlight, maxInFlight,
                     paused, closed, spawned, panics, requests>>
  BY DEF OtherNodeLocks, OtherNodeUnlocks, manager
<1>2. storeLock \in [Msgs -> {"free", "here", "there"}] /\ due \in [Msgs -> Gone..MaxDue]
  BY DEF Ind, TypeOK
<1>3. due' \in [Msgs -> Gone..MaxDue]
  <2>1. due' = due \/ \E d \in {Gone, due[m0], MaxDue} : due' = [due EXCEPT ![m0] = d]
    BY DEF OtherNodeLocks, OtherNodeUnlocks
  <2>2. {Gone, due[m0], MaxDue} \subseteq Gone..MaxDue
    BY <1>2, Bounds
  <2> QED
    BY <1>2, <2>1, <2>2
<1>4. storeLock' \in [Msgs -> {"free", "here", "there"}]
      /\ \A m \in Msgs : storeLock'[m] = "here" <=> storeLock[m] = "here"
  BY <1>1, <1>2
<1>5. TypeOK'
  BY <1>1, <1>3, <1>4 DEF Ind, TypeOK, Gone, None, Forever
<1> QED
  BY <1>1, <1>4, <1>5, QuietKeeps

(* A request is sent, or a message arrives, and no worker is concerned.    *)
LEMMA AskKeeps ==
    ASSUME Ind, NEW t \in {"refresh", "pause", "resume", "reload", "stop"},
           Send(Request(t)) \/ UNCHANGED chan,
           requests < MaxRequests, requests' = requests + 1,
           due' \in [Msgs -> Gone..MaxDue],
           UNCHANGED <<storeLock, manager, spawned, panics>>
    PROVE  Ind'
<1>0. UNCHANGED <<storeLock, pc, refresh, refreshIn, locked, inFlight, maxInFlight,
                  paused, closed, spawned, panics>>
  BY DEF manager
<1>1. Request(t) \in Events /\ Request(t).type # "done"
  BY EventTypes
<1>2. /\ chan' \in Seq(Events)
      /\ \A q \in Queues : Reports(q)' = Reports(q)
      /\ \A m : (\E i \in 1..Len(chan) : chan[i].type = "done" /\ chan[i].msg = m) =>
                (\E i \in 1..Len(chan)' : chan'[i].type = "done" /\ chan'[i].msg = m)
  <2>1. CASE UNCHANGED chan
    BY <2>1 DEF Ind, TypeOK, Reports
  <2>2. CASE Send(Request(t))
    <3>1. \A q \in Queues : Reports(q) \in Nat
      BY Balance
    <3> QED
      BY <1>1, <2>2, <3>1, SendCounts
  <2> QED
    BY <2>1, <2>2
<1>3. TypeOK'
  <2>1. requests' \in 0..MaxRequests
    BY ManagerAssumptions DEF Ind, TypeOK
  <2> QED
    BY <1>0, <1>2, <2>1 DEF Ind, TypeOK, Gone, None, Forever
<1>4. InFlightExact'
  <2>1. ASSUME NEW q \in Queues
        PROVE  /\ inFlight'[q] >= Running(q)' + Reports(q)' + panics'[q]
               /\ ~closed' => inFlight'[q] = Running(q)' + Reports(q)' + panics'[q]
    <3>1. Running(q)' = Running(q) /\ Reports(q)' = Reports(q)
      BY <1>0, <1>2 DEF Running
    <3>2. inFlight'[q] = inFlight[q] /\ panics'[q] = panics[q] /\ closed' = closed
      BY <1>0
    <3> QED
      BY Balance, <3>1, <3>2
  <2> QED
    BY <2>1 DEF InFlightExact
<1>5. ASSUME NEW m \in Msgs PROVE Kept(m)'
  <2>0. Kept(m)
    BY OrphanKept DEF Ind
  <2> QED
    BY <1>0, <1>2, <2>0 DEF Kept, Forever
<1> QED
  BY <1>3, <1>4, <1>5, OrphanKept DEF Ind, NoOrphanEntry, Kept

LEMMA ArriveKeeps == ASSUME NEW m0 \in Msgs, Ind, Arrive(m0) PROVE Ind'
<1>1. due' \in [Msgs -> Gone..MaxDue]
  <2>1. 0 \in Gone..MaxDue
    BY Bounds
  <2> QED
    BY <2>1 DEF Arrive, Ind, TypeOK
<1>2. /\ Send(Request("refresh")) \/ UNCHANGED chan
      /\ requests < MaxRequests /\ requests' = requests + 1
      /\ UNCHANGED <<storeLock, manager, spawned, panics>>
  BY DEF Arrive
<1> QED
  BY <1>1, <1>2, AskKeeps

-----------------------------------------------------------------------------
LEMMA InitInd == Init => Ind
<1> SUFFICES ASSUME Init PROVE Ind
  OBVIOUS
<1> USE DEF Init
<1>1. TypeOK
  <2>1. chan \in Seq(Events)
    OBVIOUS
  <2>2. 1 \in 0..Forever /\ 0 \in Gone..MaxDue /\ None \in None..Forever
    BY Bounds
  <2>3. 0 \in 0..MaxThreads /\ MaxThreads \in 1..MaxThreads /\ 0 \in 0..MaxRequests
    BY ManagerAssumptions
  <2> QED
    BY <2>1, <2>2, <2>3 DEF TypeOK
<1>2. ASSUME NEW q \in Queues PROVE inFlight[q] = 0 /\ Running(q) = 0 /\ Reports(q) = 0 /\ panics[q] = 0
  <2>1. Starting(spawned, q) = {} /\ Delivering(storeLock, q) = {} /\ DoneAt(chan, q) = {}
    BY DEF Starting, Delivering, DoneAt, Of
  <2>2. Cardinality({}) = 0
    BY FS_EmptySet
  <2>3. Running(q) = 0 + 0 /\ Reports(q) = 0
    BY <2>1, <2>2, Zenon DEF Running, Reports
  <2>4. inFlight[q] = 0 /\ panics[q] = 0
    OBVIOUS
  <2> QED
    BY <2>3, <2>4
<1>3. NoOrphanEntry
  BY Bounds DEF NoOrphanEntry
<1> QED
  BY <1>1, <1>2, <1>3 DEF Ind, InFlightExact

LEMMA NextInd == Ind /\ [Next]_vars => Ind'
<1> SUFFICES ASSUME Ind, [Next]_vars PROVE Ind'
  OBVIOUS
<1>1. CASE HandleDone
  BY <1>1, HandleDoneKeeps
<1>2. CASE HandleRequest
  BY <1>2, HandleRequestKeeps
<1>3. CASE \E spawn \in SUBSET Msgs, failed \in BOOLEAN : Scan(spawn, failed)
  BY <1>3, ScanKeeps
<1>4. CASE EndTurn
  BY <1>4, EndTurnKeeps
<1>5. CASE Stopped
  BY <1>5, StoppedKeeps
<1>6. ASSUME NEW m \in Msgs, TryLock(m) PROVE Ind'
  BY <1>6, TryLockKeeps
<1>7. ASSUME NEW m \in Msgs, Deliver(m) PROVE Ind'
  BY <1>7, DeliverKeeps
<1>8. ASSUME NEW m \in Msgs, Panic(m) PROVE Ind'
  BY <1>8, PanicKeeps
<1>9. ASSUME NEW m \in Msgs, Arrive(m) PROVE Ind'
  BY <1>9, ArriveKeeps
<1>10. ASSUME NEW m \in Msgs, OtherNodeLocks(m) \/ OtherNodeUnlocks(m) PROVE Ind'
  BY <1>10, OtherNodeKeeps
<1>11. ASSUME NEW t \in {"refresh", "pause", "resume", "reload", "stop"}, Ask(t) PROVE Ind'
  <2>1. /\ Send(Request(t)) /\ requests < MaxRequests /\ requests' = requests + 1
        /\ UNCHANGED <<storeLock, manager, spawned, panics>>
        /\ due' \in [Msgs -> Gone..MaxDue]
    BY <1>11 DEF Ask, Ind, TypeOK
  <2> QED
    BY <2>1, AskKeeps
<1>12. CASE Tick
  BY <1>12, TickKeeps
<1>13. CASE UNCHANGED vars
  <2>1. UNCHANGED <<due, storeLock, pc, chan, refresh, refreshIn, locked, inFlight,
                    maxInFlight, paused, closed, spawned, panics, requests>>
    BY <1>13 DEF vars
  <2>2. TypeOK'
    BY <2>1 DEF Ind, TypeOK, Gone, None, Forever
  <2> QED
    BY <2>1, <2>2, QuietKeeps
<1> QED
  BY <1>1, <1>2, <1>3, <1>4, <1>5, <1>6, <1>7, <1>8, <1>9, <1>10, <1>11, <1>12, <1>13
     DEF Next

(* In every reachable state in_flight of each virtual queue counts its     *)
(* workers, reports and panics exactly (until the channel is closed), no   *)
(* queue runs more workers than it has threads whatever reloads come, and  *)
(* no INFINITE_LOCK entry outlives the worker that would remove it.        *)
THEOREM ManagerConsistent == Spec => []ManagerInv
<1>1. Spec => []Ind
  BY InitInd, NextInd, PTL DEF Spec
<1> QED
  BY <1>1, IndImplies, PTL

=============================================================================
