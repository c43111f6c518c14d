-------------------------- MODULE EdgeSessionProofs --------------------------
(***************************************************************************)
(* A control session of the edge tunnel, for every cap on connections,     *)
(* every pause line and every number of connections and DATA frames.  Ind  *)
(* is inductive; EdgeInv, MacErrsAfterPause and the action property        *)
(* VmErrsOnCrossing follow from it.                                        *)
(***************************************************************************)
EXTENDS EdgeSession, FiniteSetTheorems, FunctionTheorems, SequenceTheorems, TLAPS

MacFrames == [type : {"open", "data", "close"}, id : Ids] \cup {Quota}
VmFrames == [type : {"openOk", "openFail", "data", "close"}, id : Ids]

-----------------------------------------------------------------------------
(* Channels: what a read and a send leave of the frames under way.         *)

(* t is s without its first frame. *)
Popped(s, t) ==
    /\ 1 \in DOMAIN s /\ s[1] = Head(s)
    /\ \A i \in DOMAIN s : i \in Nat /\ (i = 1 \/ (i - 1 \in DOMAIN t /\ t[i - 1] = s[i]))
    /\ \A i \in DOMAIN t : i \in Nat /\ i >= 1 /\ i + 1 \in DOMAIN s /\ t[i] = s[i + 1]

(* t is s followed by frames of F. *)
Pushed(s, t, F) ==
    /\ \A i \in DOMAIN s : i \in Nat /\ i \in DOMAIN t /\ t[i] = s[i]
    /\ \A j \in DOMAIN t : j \in Nat /\ (j \in DOMAIN s \/ (t[j] \in F /\ \A i \in DOMAIN s : i < j))

(* t is s followed by the frame f. *)
Pushed1(s, t, f) ==
    /\ Pushed(s, t, {f})
    /\ \E j \in DOMAIN t : j \notin DOMAIN s /\ t[j] = f
    /\ \A i, j \in DOMAIN t : i \notin DOMAIN s /\ j \notin DOMAIN s => i = j

LEMMA TailPops ==
    ASSUME NEW S, NEW s \in Seq(S), s # <<>>
    PROVE  Tail(s) \in Seq(S) /\ Head(s) \in S /\ Popped(s, Tail(s))
<1>1. Len(s) \in Nat /\ DOMAIN s = 1..Len(s) /\ Len(s) # 0
  BY LenProperties, EmptySeq
<1>2. Tail(s) \in Seq(S) /\ Head(s) \in S /\ s[1] = Head(s)
  BY <1>1
<1>3. DOMAIN Tail(s) = 1..(Len(s) - 1) /\ \A i \in 1..(Len(s) - 1) : Tail(s)[i] = s[i + 1]
  BY <1>1
<1> QED
  BY <1>1, <1>2, <1>3 DEF Popped

LEMMA AppendPushes ==
    ASSUME NEW S, NEW s \in Seq(S), NEW f \in S
    PROVE  Append(s, f) \in Seq(S) /\ Pushed1(s, Append(s, f), f)
<1>1. Len(s) \in Nat /\ DOMAIN s = 1..Len(s)
  BY LenProperties
<1>2. Append(s, f) \in Seq(S) /\ DOMAIN Append(s, f) = 1..(Len(s) + 1)
      /\ Append(s, f)[Len(s) + 1] = f /\ \A i \in 1..Len(s) : Append(s, f)[i] = s[i]
  BY <1>1
<1> QED
  BY <1>1, <1>2 DEF Pushed, Pushed1

LEMMA ConcatPushes ==
    ASSUME NEW S, NEW s \in Seq(S), NEW r \in Seq(S), NEW F, \A i \in DOMAIN r : r[i] \in F
    PROVE  s \o r \in Seq(S) /\ Pushed(s, s \o r, F)
<1>1. /\ Len(s) \in Nat /\ DOMAIN s = 1..Len(s)
      /\ Len(r) \in Nat /\ DOMAIN r = 1..Len(r)
  BY LenProperties
<1>2. /\ s \o r \in Seq(S) /\ DOMAIN (s \o r) = 1..(Len(s) + Len(r))
      /\ \A i \in 1..Len(s) : (s \o r)[i] = s[i]
      /\ \A i \in (Len(s) + 1)..(Len(s) + Len(r)) : (s \o r)[i] = r[i - Len(s)]
  BY <1>1, ConcatProperties
<1> QED
  BY <1>1, <1>2 DEF Pushed

LEMMA ConcatOne ==
    ASSUME NEW S, NEW s \in Seq(S), NEW f \in S
    PROVE  s \o <<f>> = Append(s, f)
  OBVIOUS

(* The frames of pause: every element of a finite set, in some order. *)
LEMMA SetToSeqElements ==
    ASSUME NEW S, IsFiniteSet(S)
    PROVE  Cardinality(S) \in Nat /\ \A i \in 1..Cardinality(S) : SetToSeq(S)[i] \in S
<1>1. Cardinality(S) \in Nat /\ ExistsBijection(1..Cardinality(S), S)
  BY FS_CardinalityType
<1>2. PICK f \in [1..Cardinality(S) -> S] : IsInjective(f)
  BY <1>1 DEF ExistsBijection, Bijection, Injection, IsInjective
<1>3. SetToSeq(S) \in [1..Cardinality(S) -> S]
  BY <1>2 DEF SetToSeq
<1> QED
  BY <1>1, <1>3

-----------------------------------------------------------------------------
(* The inductive invariant.                                                *)

(* The OPENs under way, frame by frame. *)
Opens ==
    /\ conn = "up" =>
          /\ \A i \in DOMAIN toMac : IsOpen(toMac[i]) => macNext <= toMac[i].id /\ toMac[i].id < vmNext
          /\ \A n \in Ids : macNext <= n /\ n < vmNext =>
                \E i \in DOMAIN toMac : IsOpen(toMac[i]) /\ toMac[i].id = n
    /\ \A i, j \in DOMAIN toMac :
          i < j /\ IsOpen(toMac[i]) /\ IsOpen(toMac[j]) => toMac[i].id < toMac[j].id

(* Who waits has an OPEN or an answer under way. *)
Waits ==
    conn = "up" /\ reader = "run" =>
        /\ waiting \subseteq vmOpen
        /\ \A id \in Ids :
              id \in waiting <=> \/ macNext <= id /\ id < vmNext
                                 \/ \E i \in DOMAIN toVm : IsAnswer(toVm[i]) /\ toVm[i].id = id

Ind ==
    /\ TypeOK /\ Opens /\ Waits /\ OvershootBounded
    /\ AnswersFirst /\ UplinksStarted /\ MacServes /\ VmServes

-----------------------------------------------------------------------------
(* What the actions have in common.                                        *)

(* Ids and what is made of them. *)
LEMMA IdSets ==
    /\ MaxOpens \in Nat /\ PauseAt \in Nat /\ MaxData \in Nat /\ Caps \subseteq Nat
    /\ Ids \subseteq Nat /\ 0 \notin Ids /\ IsFiniteSet(Ids)
<1>1. MaxOpens \in Nat /\ PauseAt \in Nat /\ MaxData \in Nat /\ Caps \subseteq Nat
  BY EdgeAssumptions
<1> QED
  BY <1>1, FS_Interval DEF Ids

LEMMA IdsFinite ==
    ASSUME NEW S \in SUBSET Ids
    PROVE  IsFiniteSet(S) /\ Cardinality(S) \in Nat
  BY IdSets, FS_Subset, FS_CardinalityType

LEMMA FewerIds ==
    ASSUME NEW S \in SUBSET Ids, NEW T \in SUBSET S
    PROVE  Cardinality(T) \in Nat /\ Cardinality(S) \in Nat /\ Cardinality(T) <= Cardinality(S)
  BY IdsFinite, FS_Subset, FS_CardinalityType

LEMMA OneMoreId ==
    ASSUME NEW S \in SUBSET Ids, NEW id \in Ids
    PROVE  /\ Cardinality(S) \in Nat /\ Cardinality(S \cup {id}) \in Nat
           /\ Cardinality(S \cup {id}) <= Cardinality(S) + 1
           /\ id \notin S => Cardinality(S \cup {id}) = Cardinality(S) + 1
<1>1. IsFiniteSet(S) /\ Cardinality(S) \in Nat
  BY IdsFinite
<1>2. Cardinality(S \cup {id}) = IF id \in S THEN Cardinality(S) ELSE Cardinality(S) + 1
  BY <1>1, FS_AddElement
<1> QED
  BY <1>1, <1>2

(* The frames under way are frames. *)
LEMMA FrameTypes ==
    ASSUME TypeOK
    PROVE  /\ toMac \in Seq(MacFrames) /\ toVm \in Seq(VmFrames)
           /\ \A i \in DOMAIN toMac :
                 /\ i \in Nat /\ i >= 1 /\ toMac[i].type \in {"open", "data", "close", "quota"}
                 /\ toMac[i].type # "quota" => toMac[i].id \in Ids /\ toMac[i].id \in Nat
           /\ \A i \in DOMAIN toVm :
                 /\ i \in Nat /\ i >= 1 /\ toVm[i].type \in {"openOk", "openFail", "data", "close"}
                 /\ toVm[i].id \in Ids /\ toVm[i].id \in Nat
                 /\ toVm[i] = Frame(toVm[i].type, toVm[i].id)
<1>1. toMac \in Seq(MacFrames) /\ toVm \in Seq(VmFrames)
  BY DEF TypeOK, MacFrames, VmFrames
<1>2. \A i \in DOMAIN toMac : i \in Nat /\ i >= 1 /\ toMac[i] \in MacFrames
  BY <1>1, LenProperties
<1>3. \A i \in DOMAIN toVm : i \in Nat /\ i >= 1 /\ toVm[i] \in VmFrames
  BY <1>1, LenProperties
<1>4. \A f \in MacFrames : /\ f.type \in {"open", "data", "close", "quota"}
                           /\ f.type # "quota" => f.id \in Ids
  BY DEF MacFrames, Quota, Frame
<1>5. \A f \in VmFrames : /\ f.type \in {"openOk", "openFail", "data", "close"} /\ f.id \in Ids
                          /\ f = Frame(f.type, f.id)
  BY DEF VmFrames, Frame
<1>6. \A i \in DOMAIN toMac :
         /\ i \in Nat /\ i >= 1 /\ toMac[i].type \in {"open", "data", "close", "quota"}
         /\ toMac[i].type # "quota" => toMac[i].id \in Ids /\ toMac[i].id \in Nat
  BY <1>2, <1>4, IdSets
<1>7. \A i \in DOMAIN toVm :
         /\ i \in Nat /\ i >= 1 /\ toVm[i].type \in {"openOk", "openFail", "data", "close"}
         /\ toVm[i].id \in Ids /\ toVm[i].id \in Nat
         /\ toVm[i] = Frame(toVm[i].type, toVm[i].id)
  BY <1>3, <1>5, IdSets
<1> QED
  BY <1>1, <1>6, <1>7

(* Ctrl::send of one frame. *)
LEMMA SentToMac ==
    ASSUME TypeOK, NEW f \in MacFrames, toMac' = Sent(toMac, <<f>>)
    PROVE  /\ toMac' \in Seq(MacFrames)
           /\ conn = "up" => Pushed1(toMac, toMac', f)
           /\ conn # "up" => toMac' = toMac
<1>1. toMac \in Seq(MacFrames)
  BY FrameTypes
<1> QED
  BY <1>1, ConcatOne, AppendPushes DEF Sent

LEMMA SentToVm ==
    ASSUME TypeOK, NEW f \in VmFrames, toVm' = Sent(toVm, <<f>>)
    PROVE  /\ toVm' \in Seq(VmFrames)
           /\ conn = "up" => Pushed1(toVm, toVm', f)
           /\ conn # "up" => toVm' = toVm
<1>1. toVm \in Seq(VmFrames)
  BY FrameTypes
<1> QED
  BY <1>1, ConcatOne, AppendPushes DEF Sent

(* Parts of the invariant that no variable of theirs disturbs. *)
LEMMA Kept ==
    ASSUME Ind
    PROVE  /\ UNCHANGED <<toMac, macNext, vmNext>> /\ conn' \in {conn, "shut"} => Opens'
           /\ UNCHANGED <<waiting, vmOpen, macNext, vmNext, toVm>> /\ conn' \in {conn, "shut"}
              /\ (reader' = "run" => reader = "run") => Waits'
           /\ UNCHANGED <<tx, vmUp>> => OvershootBounded'
           /\ UNCHANGED <<macNext, toVm, macUp, vmUp>> => AnswersFirst'
           /\ UNCHANGED <<macNext, vmNext, macWriters, macOpen, macUp, vmUp, toMac, waiting, writers>>
              => UplinksStarted'
           /\ UNCHANGED <<tx, vmUp, macOpen, toMac, toVm>> => MacServes'
           /\ UNCHANGED <<toVm, macUp, vmUp, vmOpen, writers>> /\ conn' \in {conn, "shut"}
              /\ (reader' = "run" => reader = "run") /\ (~stop' => ~stop) => VmServes'
<1>1. UNCHANGED <<toMac, macNext, vmNext>> /\ conn' \in {conn, "shut"} => Opens'
  BY DEF Ind, Opens
<1>2. UNCHANGED <<waiting, vmOpen, macNext, vmNext, toVm>> /\ conn' \in {conn, "shut"}
      /\ (reader' = "run" => reader = "run") => Waits'
  BY DEF Ind, Waits
<1>3. UNCHANGED <<tx, vmUp>> => OvershootBounded'
  BY DEF Ind, OvershootBounded
<1>4. UNCHANGED <<macNext, toVm, macUp, vmUp>> => AnswersFirst'
  BY DEF Ind, AnswersFirst
<1>7. UNCHANGED <<macNext, vmNext, macWriters, macOpen, macUp, vmUp, toMac, waiting, writers>>
      => UplinksStarted'
  BY DEF Ind, UplinksStarted
<1>5. UNCHANGED <<tx, vmUp, macOpen, toMac, toVm>> => MacServes'
  BY DEF Ind, MacServes, DataAllowed
<1>6. UNCHANGED <<toVm, macUp, vmUp, vmOpen, writers>> /\ conn' \in {conn, "shut"}
      /\ (reader' = "run" => reader = "run") /\ (~stop' => ~stop) => VmServes'
  BY DEF Ind, VmServes
<1> QED
  BY <1>1, <1>2, <1>3, <1>4, <1>5, <1>6, <1>7

(* An uplink that has ended stays ended; what ends counts for one frame.   *)
LEMMA EndedUplinks ==
    ASSUME TypeOK, TypeOK', OvershootBounded,
           \A id \in Ids : vmUp[id] = "done" => vmUp'[id] = "done",
           \/ tx' = tx
           \/ tx' <= PauseAt
           \/ tx' = tx + 1 /\ \E id \in Ids : vmUp[id] # "done" /\ vmUp'[id] = "done"
    PROVE  OvershootBounded'
<1> DEFINE D == {id \in Ids : vmUp[id] = "done"}
           E == {id \in Ids : vmUp'[id] = "done"}
<1>1. D \in SUBSET Ids /\ E \in SUBSET Ids /\ D \in SUBSET E
  OBVIOUS
<1>2. Cardinality(D) \in Nat /\ Cardinality(E) \in Nat /\ Cardinality(D) <= Cardinality(E)
  BY <1>1, FewerIds
<1>3. ASSUME NEW id \in Ids, vmUp[id] # "done", vmUp'[id] = "done"
      PROVE  Cardinality(D) + 1 <= Cardinality(E)
  <2>1. id \notin D /\ D \cup {id} \in SUBSET E
    BY <1>3
  <2>2. Cardinality(D \cup {id}) = Cardinality(D) + 1
    BY <1>1, <2>1, OneMoreId
  <2>3. Cardinality(D \cup {id}) <= Cardinality(E)
    BY <1>1, <2>1, FewerIds
  <2> QED
    BY <2>2, <2>3
<1>4. tx <= PauseAt + Cardinality(D)
  BY DEF OvershootBounded
<1>5. tx \in Nat /\ tx' \in Nat /\ PauseAt \in Nat
  BY IdSets DEF TypeOK
<1>6. tx' <= PauseAt + Cardinality(E)
  <2> HIDE DEF D, E
  <2> QED
    BY <1>2, <1>3, <1>4, <1>5
<1> QED
  BY <1>6 DEF OvershootBounded

-----------------------------------------------------------------------------
(* Threads that neither read nor send: the checks of the loops, the end of *)
(* a file, the ping threads.                                               *)

LEMMA StepChecks ==
    ASSUME Ind, AcceptCheck \/ AcceptFull \/ VmStops \/ VmEof \/ VmDead \/ MacDead
    PROVE  Ind'
<1>1. TypeOK'
  BY DEF Ind, TypeOK, AcceptCheck, AcceptFull, VmStops, VmEof, VmDead, MacDead, vmVars, macVars
<1>2. /\ UNCHANGED <<toMac, toVm, vmNext, vmOpen, waiting, writers, vmUp, tx, macNext, macOpen, macWriters, macUp>>
      /\ conn' \in {conn, "shut"} /\ (reader' = "run" => reader = "run") /\ (~stop' => ~stop)
  BY DEF AcceptCheck, AcceptFull, VmStops, VmEof, VmDead, MacDead, vmVars, macVars
<1> QED
  BY <1>1, <1>2, Kept DEF Ind

LEMMA StepUpCheck ==
    ASSUME Ind, NEW id \in Ids, UpCheck(id) \/ UpEof(id)
    PROVE  Ind'
<1> USE DEF Ind
<1>1. /\ vmUp[id] \in {"check", "read"}
      /\ vmUp' \in [Ids -> {"none", "check", "read", "note", "closing", "done"}]
      /\ vmUp'[id] \in {"done", "read", "closing"}
      /\ \A k \in Ids \ {id} : vmUp'[k] = vmUp[k]
  BY DEF TypeOK, UpCheck, UpEof
<1>2. /\ UNCHANGED <<conn, toMac, toVm, vmNext, vmOpen, waiting, writers, stop, reader, tx, macNext, macOpen,
                     macWriters, macUp, macClosed, macRun, maxConns, acceptor, sent>>
      /\ vmClosed' \in SUBSET Ids
  BY DEF TypeOK, UpCheck, UpEof, macVars
<1>3. TypeOK'
  BY <1>1, <1>2 DEF TypeOK
<1>4. Opens' /\ Waits'
  BY <1>2, Kept
<1>5. OvershootBounded'
  BY <1>1, <1>2, <1>3, EndedUplinks
<1>9. AnswersFirst'
  BY <1>1, <1>2, FrameTypes DEF AnswersFirst, IsAnswer
<1>6. UplinksStarted'
  BY <1>1, <1>2, FrameTypes DEF UplinksStarted, IsTraffic
<1>7. MacServes'
  BY <1>1, <1>2, FrameTypes DEF MacServes, IsTraffic, DataAllowed
<1>8. VmServes'
  BY <1>1, <1>2, FrameTypes DEF VmServes, IsTraffic
<1> QED
  BY <1>3, <1>4, <1>5, <1>6, <1>7, <1>8, <1>9

LEMMA StepMacCheck ==
    ASSUME Ind, NEW id \in Ids, MacCheck(id)
    PROVE  Ind'
<1> USE DEF Ind
<1>1. /\ macUp[id] = "check"
      /\ macUp' \in [Ids -> {"none", "check", "read", "done"}]
      /\ macUp'[id] \in {"done", "read"}
      /\ \A k \in Ids \ {id} : macUp'[k] = macUp[k]
  BY DEF TypeOK, MacCheck
<1>2. UNCHANGED <<conn, toMac, toVm, vmNext, vmOpen, waiting, writers, stop, reader, tx, macNext, macOpen,
                  macWriters, vmUp, vmClosed, macClosed, macRun, maxConns, acceptor, sent>>
  BY DEF MacCheck, vmVars
<1>3. TypeOK'
  BY <1>1, <1>2 DEF TypeOK
<1>4. Opens' /\ Waits' /\ OvershootBounded' /\ MacServes'
  BY <1>2, Kept
<1>9. AnswersFirst'
  BY <1>1, <1>2, FrameTypes DEF AnswersFirst, IsAnswer
<1>5. UplinksStarted'
  BY <1>1, <1>2, FrameTypes DEF UplinksStarted, IsTraffic
<1>6. VmServes'
  BY <1>1, <1>2, FrameTypes DEF VmServes, IsTraffic
<1> QED
  BY <1>3, <1>4, <1>5, <1>6, <1>9

-----------------------------------------------------------------------------
(* The sends of the VM.                                                    *)

(* Frames other than OPEN do not disturb the OPENs. *)
LEMMA OpensPushed ==
    ASSUME Ind, NEW F, \A f \in F : ~IsOpen(f), Pushed(toMac, toMac', F),
           UNCHANGED <<conn, macNext, vmNext>>
    PROVE  Opens'
<1>1. \A i \in DOMAIN toMac : i \in DOMAIN toMac' /\ toMac'[i] = toMac[i]
  BY DEF Pushed
<1>2. \A j \in DOMAIN toMac' : IsOpen(toMac'[j]) => j \in DOMAIN toMac
  BY DEF Pushed
<1> QED
  BY <1>1, <1>2 DEF Ind, Opens

(* accept_loop: an id is given out and announced. *)
LEMMA StepAccept ==
    ASSUME Ind, Accept
    PROVE  Ind'
<1> USE DEF Ind
<1> DEFINE f == Frame("open", vmNext)
<1>1. /\ vmNext \in Ids /\ vmNext \in Nat /\ macNext \in Nat /\ macNext <= vmNext
      /\ vmNext' = vmNext + 1 /\ vmOpen' = vmOpen \cup {vmNext}
      /\ waiting' = waiting \cup {vmNext} /\ Cardinality(vmOpen) < maxConns
      /\ UNCHANGED <<conn, toVm, writers, vmClosed, stop, reader, vmUp, tx, maxConns, macNext, macOpen,
                     macWriters, macClosed, macUp, macRun, sent>>
  BY IdSets DEF Accept, macVars, TypeOK, UplinksStarted
<1>2. f \in MacFrames /\ f.type = "open" /\ f.id = vmNext
  BY <1>1 DEF MacFrames, Frame
<1>3. toMac' = Sent(toMac, <<f>>)
  BY DEF Accept
<1>4. /\ toMac' \in Seq(MacFrames)
      /\ conn = "up" => Pushed1(toMac, toMac', f)
      /\ conn # "up" => toMac' = toMac
  <2> HIDE DEF f
  <2> QED
    BY <1>2, <1>3, SentToMac
<1>5. vmUp[vmNext] = "none" /\ macUp[vmNext] = "none"
  BY <1>1 DEF UplinksStarted
<1> HIDE DEF f
<1>6. TypeOK'
  <2>1. Cardinality(vmOpen') <= maxConns' /\ vmOpen' \in SUBSET Ids
    <3>1. vmOpen \in SUBSET Ids /\ maxConns \in Nat
      BY IdSets DEF TypeOK
    <3> QED
      BY <1>1, <3>1, OneMoreId
  <2>2. vmNext' \in 1..(MaxOpens + 1) /\ waiting' \in SUBSET Ids /\ acceptor' \in {"check", "ended"}
    BY <1>1, IdSets DEF TypeOK, Ids, Accept
  <2> QED
    BY <1>1, <1>4, <2>1, <2>2 DEF TypeOK, MacFrames
<1>7. Opens'
  <2>1. CASE conn = "up"
    <3>1. \A i \in DOMAIN toMac : i \in Nat /\ i \in DOMAIN toMac' /\ toMac'[i] = toMac[i]
      BY <1>4, <2>1 DEF Pushed1, Pushed
    <3>2. \A j \in DOMAIN toMac' : j \in Nat /\ (j \in DOMAIN toMac \/
             (toMac'[j] = f /\ (\A i \in DOMAIN toMac : i < j)
                /\ \A k \in DOMAIN toMac' : k \notin DOMAIN toMac => k = j))
      BY <1>4, <2>1 DEF Pushed1, Pushed
    <3>3. \E j \in DOMAIN toMac' : toMac'[j] = f
      BY <1>4, <2>1 DEF Pushed1
    <3>4. \A i \in DOMAIN toMac : IsOpen(toMac[i]) =>
             macNext <= toMac[i].id /\ toMac[i].id < vmNext /\ toMac[i].id \in Nat
      BY <2>1, FrameTypes DEF Opens, IsOpen
    <3>5. \A i \in DOMAIN toMac' : IsOpen(toMac'[i]) =>
             macNext <= toMac'[i].id /\ toMac'[i].id < vmNext + 1 /\ toMac'[i].id \in Nat
      BY <1>1, <1>2, <3>1, <3>2, <3>4
    <3>6. \A n \in Ids : macNext <= n /\ n < vmNext + 1 =>
             \E i \in DOMAIN toMac' : IsOpen(toMac'[i]) /\ toMac'[i].id = n
      <4> TAKE n \in Ids
      <4>1. CASE n = vmNext
        BY <1>2, <3>3, <4>1 DEF IsOpen
      <4>2. CASE n < vmNext
        BY <2>1, <3>1, <4>2 DEF Opens
      <4> QED
        BY <1>1, <4>1, <4>2, IdSets
    <3>7. ASSUME NEW i \in DOMAIN toMac', NEW j \in DOMAIN toMac', i < j,
                 IsOpen(toMac'[i]), IsOpen(toMac'[j])
          PROVE  toMac'[i].id < toMac'[j].id
      <4>1. i \in DOMAIN toMac
        BY <3>1, <3>2, <3>7
      <4>2. CASE j \in DOMAIN toMac
        BY <3>1, <3>7, <4>1, <4>2 DEF Opens
      <4>3. CASE j \notin DOMAIN toMac
        BY <1>2, <3>1, <3>2, <3>4, <3>7, <4>1, <4>3
      <4> QED
        BY <4>2, <4>3
    <3> QED
      BY <1>1, <3>5, <3>6, <3>7 DEF Opens
  <2>2. CASE conn # "up"
    BY <1>1, <1>4, <2>2 DEF Opens
  <2> QED
    BY <2>1, <2>2
<1>8. Waits'
  BY <1>1, FrameTypes, IdSets DEF Waits, AnswersFirst, IsAnswer
<1>9. OvershootBounded' /\ AnswersFirst'
  BY <1>1, Kept
<1>10. UplinksStarted'
  <2>1. \A i \in DOMAIN toMac' : IsTraffic(toMac'[i]) => vmUp[toMac'[i].id] # "none"
    BY <1>2, <1>4 DEF UplinksStarted, IsTraffic, Pushed1, Pushed
  <2> QED
    BY <1>1, <1>5, <2>1 DEF UplinksStarted
<1>11. MacServes'
  <2>1. CASE conn = "up"
    <3>1. Pushed(toMac, toMac', {f}) /\ f.type = "open"
      BY <1>2, <1>4, <2>1 DEF Pushed1
    <3> QED
      BY <1>1, <3>1 DEF MacServes, IsTraffic, DataAllowed, Pushed
  <2>2. CASE conn # "up"
    BY <1>1, <1>4, <2>2, Kept
  <2> QED
    BY <2>1, <2>2
<1>12. VmServes'
  BY <1>1 DEF VmServes
<1> QED
  BY <1>6, <1>7, <1>8, <1>9, <1>10, <1>11, <1>12

(* uplink: the CLOSE or the DATA that the VM sends for an id. *)
LEMMA StepUpSend ==
    ASSUME Ind, NEW id \in Ids, UpData(id) \/ UpClose(id)
    PROVE  Ind'
<1> USE DEF Ind
<1>1. PICK f \in MacFrames :
         /\ toMac' = Sent(toMac, <<f>>) /\ f.id = id
         /\ \/ vmUp[id] = "read" /\ f.type = "data" /\ vmUp'[id] \in {"note", "done"} /\ vmOpen' = vmOpen
            \/ vmUp[id] = "closing" /\ f.type = "close" /\ vmUp'[id] = "done" /\ vmOpen' = vmOpen \ {id}
  <2>1. CASE UpData(id)
    <3>1. Frame("data", id) \in MacFrames /\ Frame("data", id).id = id /\ Frame("data", id).type = "data"
      BY DEF MacFrames, Frame
    <3> QED
      BY <2>1, <3>1 DEF UpData, TypeOK
  <2>2. CASE UpClose(id)
    <3>1. Frame("close", id) \in MacFrames /\ Frame("close", id).id = id /\ Frame("close", id).type = "close"
      BY DEF MacFrames, Frame
    <3> QED
      BY <2>2, <3>1 DEF UpClose, TypeOK
  <2> QED
    BY <2>1, <2>2
<1>2. /\ vmUp' \in [Ids -> {"none", "check", "read", "note", "closing", "done"}]
      /\ \A k \in Ids \ {id} : vmUp'[k] = vmUp[k]
      /\ UNCHANGED <<conn, toVm, vmNext, waiting, writers, vmClosed, stop, reader, acceptor, tx, maxConns, macNext,
                     macOpen, macWriters, macClosed, macUp, macRun>>
      /\ sent' \in Nat
  BY DEF UpData, UpClose, TypeOK, macVars
<1>3. /\ toMac' \in Seq(MacFrames)
      /\ conn = "up" => Pushed1(toMac, toMac', f)
      /\ conn # "up" => toMac' = toMac
  BY <1>1, SentToMac
<1>4. id < macNext /\ id \notin waiting
  BY <1>1 DEF UplinksStarted
<1>5. TypeOK'
  <2>1. vmOpen' \in SUBSET vmOpen /\ vmOpen \in SUBSET Ids
    BY <1>1 DEF TypeOK
  <2>2. Cardinality(vmOpen') <= Cardinality(vmOpen) /\ Cardinality(vmOpen') \in Nat /\ Cardinality(vmOpen) \in Nat
    BY <2>1, FewerIds
  <2>3. Cardinality(vmOpen') <= maxConns
    BY <2>2, IdSets DEF TypeOK
  <2> QED
    BY <1>2, <1>3, <2>1, <2>3 DEF TypeOK, MacFrames
<1>6. Opens'
  <2>1. CASE conn = "up"
    BY <1>1, <1>2, <1>3, <2>1, OpensPushed DEF Pushed1, IsOpen
  <2>2. CASE conn # "up"
    BY <1>2, <1>3, <2>2, Kept
  <2> QED
    BY <2>1, <2>2
<1>7. Waits'
  BY <1>1, <1>2, <1>4 DEF Waits
<1>8. OvershootBounded'
  BY <1>1, <1>2, <1>5, EndedUplinks
<1>9. AnswersFirst'
  BY <1>1, <1>2, FrameTypes DEF AnswersFirst
<1>10. UplinksStarted'
  <2>1. \A i \in DOMAIN toMac' : IsTraffic(toMac'[i]) =>
           toMac'[i].id = id \/ (i \in DOMAIN toMac /\ toMac'[i] = toMac[i])
    BY <1>1, <1>3 DEF Pushed1, Pushed
  <2>2. \A i \in DOMAIN toMac : IsTraffic(toMac[i]) => toMac[i].id \in Ids /\ vmUp[toMac[i].id] # "none"
    BY FrameTypes DEF UplinksStarted, IsTraffic
  <2>3. \A k \in Ids : vmUp'[k] # "none" <=> vmUp[k] # "none"
    BY <1>1, <1>2
  <2>4. \A i \in DOMAIN toMac' : IsTraffic(toMac'[i]) => vmUp'[toMac'[i].id] # "none"
    BY <1>1, <2>1, <2>2, <2>3
  <2> QED
    BY <1>2, <2>3, <2>4 DEF UplinksStarted
<1>11. MacServes'
  <2> SUFFICES ASSUME DataAllowed(tx) PROVE MacServes'
    BY <1>2 DEF MacServes, DataAllowed
  <2>1. id \in macOpen /\ \A i \in DOMAIN toMac : toMac[i].type = "close" => toMac[i].id # id
    BY <1>1 DEF MacServes
  <2>2. CASE conn = "up"
    <3>1. \A i \in DOMAIN toMac : i \in Nat /\ i \in DOMAIN toMac' /\ toMac'[i] = toMac[i]
      BY <1>3, <2>2 DEF Pushed1, Pushed
    <3>2. \A j \in DOMAIN toMac' : j \in Nat /\ (j \in DOMAIN toMac \/
             (toMac'[j] = f /\ (\A i \in DOMAIN toMac : i < j)
                /\ \A k \in DOMAIN toMac' : k \notin DOMAIN toMac => k = j))
      BY <1>3, <2>2 DEF Pushed1, Pushed
    <3>3. ASSUME NEW k \in Ids, vmUp'[k] \in {"check", "read", "note", "closing"},
                 NEW i \in DOMAIN toMac', toMac'[i].type = "close"
          PROVE  toMac'[i].id # k
      <4>1. vmUp[k] \in {"check", "read", "note", "closing"}
        BY <1>1, <1>2, <3>3
      <4>2. CASE i \in DOMAIN toMac
        BY <3>1, <3>3, <4>1, <4>2 DEF MacServes
      <4>3. CASE i \notin DOMAIN toMac
        BY <1>1, <3>2, <3>3, <4>3
      <4> QED
        BY <4>2, <4>3
    <3>4. \A k \in Ids : vmUp'[k] \in {"check", "read", "note", "closing"} => k \in macOpen
      BY <1>1, <1>2 DEF MacServes
    <3>5. ASSUME NEW j \in DOMAIN toMac', IsTraffic(toMac'[j])
          PROVE  /\ toMac'[j].id \in macOpen
                 /\ \A i \in DOMAIN toMac' : i < j /\ toMac'[i].type = "close" => toMac'[i].id # toMac'[j].id
      <4>1. CASE j \in DOMAIN toMac
        BY <3>1, <3>2, <3>5, <4>1 DEF MacServes
      <4>2. CASE j \notin DOMAIN toMac
        BY <1>1, <2>1, <3>1, <3>2, <4>2
      <4> QED
        BY <4>1, <4>2
    <3> QED
      BY <1>2, <3>3, <3>4, <3>5 DEF MacServes
  <2>3. CASE conn # "up"
    BY <1>1, <1>2, <1>3, <2>3 DEF MacServes
  <2> QED
    BY <2>2, <2>3
<1>12. VmServes'
  <2>1. \A k \in Ids : /\ vmUp[k] = "done" => vmUp'[k] = "done"
                       /\ k \in vmOpen => k \in vmOpen' \/ vmUp'[k] = "done"
    BY <1>1, <1>2
  <2> QED
    BY <1>2, <2>1 DEF VmServes
<1> QED
  BY <1>5, <1>6, <1>7, <1>8, <1>9, <1>10, <1>11, <1>12

-----------------------------------------------------------------------------
(* The meter and the pause.                                                *)

(* What pause announces: the CLOSE of sockets that are spliced, and QUOTA. *)
PauseFrames == {Quota} \cup {Frame("close", id) : id \in writers}

LEMMA PauseLeaves ==
    ASSUME Ind, Pause
    PROVE  /\ toMac' \in Seq(MacFrames) /\ Pushed(toMac, toMac', PauseFrames)
           /\ stop' = TRUE /\ writers' \in SUBSET writers /\ vmClosed' \in SUBSET Ids
           /\ vmOpen' \in SUBSET vmOpen /\ vmOpen \ vmOpen' \subseteq writers
<1> USE DEF Ind
<1>1. stop \in BOOLEAN /\ vmClosed \in SUBSET Ids /\ writers \in SUBSET Ids /\ toMac \in Seq(MacFrames)
  BY FrameTypes DEF TypeOK
<1>2. CASE stop
  <2>1. UNCHANGED <<toMac, vmOpen, writers, vmClosed, stop>>
    BY <1>2 DEF Pause
  <2>2. \A i \in DOMAIN toMac : i \in Nat
    BY FrameTypes
  <2> QED
    BY <1>1, <1>2, <2>1, <2>2 DEF Pushed
<1>3. CASE ~stop
  <2> DEFINE live == writers \cap vmOpen
             S == live \ vmClosed
             closes == [i \in 1..Cardinality(S) |-> Frame("close", SetToSeq(S)[i])]
             r == Append(closes, Quota)
  <2>1. /\ stop' = TRUE /\ vmOpen' = vmOpen \ live /\ writers' = writers \ live
        /\ vmClosed' = vmClosed \cup live /\ toMac' = Sent(toMac, r)
    BY <1>3 DEF Pause
  <2>2. S \in SUBSET Ids /\ S \in SUBSET writers
    BY <1>1
  <2>3. Cardinality(S) \in Nat /\ \A i \in 1..Cardinality(S) : SetToSeq(S)[i] \in S
    <3> HIDE DEF S
    <3> QED
      BY <2>2, IdsFinite, SetToSeqElements
  <2>4. closes \in Seq(MacFrames) /\ \A i \in DOMAIN closes : closes[i] \in PauseFrames
    <3>1. \A k \in S : Frame("close", k) \in MacFrames /\ Frame("close", k) \in PauseFrames
      BY <2>2 DEF MacFrames, Frame, PauseFrames
    <3>2. \A i \in 1..Cardinality(S) : closes[i] \in MacFrames /\ closes[i] \in PauseFrames
      BY <2>3, <3>1
    <3> HIDE DEF S
    <3>3. closes \in [1..Cardinality(S) -> MacFrames]
      BY <3>2
    <3>4. closes \in Seq(MacFrames)
      BY <2>3, <3>3
    <3> QED
      BY <3>2, <3>4
  <2>5. Quota \in MacFrames /\ Quota \in PauseFrames
    BY DEF MacFrames, PauseFrames
  <2>6. r \in Seq(MacFrames) /\ \A i \in DOMAIN r : r[i] \in PauseFrames
    <3> HIDE DEF closes
    <3>1. r \in Seq(MacFrames) /\ Pushed1(closes, r, Quota)
      BY <2>4, <2>5, AppendPushes
    <3> QED
      BY <2>4, <2>5, <3>1 DEF Pushed1, Pushed
  <2>7. toMac' \in Seq(MacFrames) /\ Pushed(toMac, toMac', PauseFrames)
    <3> HIDE DEF r
    <3>1. CASE conn = "up"
      <4>1. toMac' = toMac \o r
        BY <2>1, <3>1 DEF Sent
      <4> QED
        BY <1>1, <2>6, <4>1, ConcatPushes
    <3>2. CASE conn # "up"
      <4>1. toMac' = toMac
        BY <2>1, <3>2 DEF Sent
      <4>2. \A i \in DOMAIN toMac : i \in Nat
        BY FrameTypes
      <4> QED
        BY <1>1, <4>1, <4>2 DEF Pushed
    <3> QED
      BY <3>1, <3>2
  <2> QED
    BY <1>1, <2>1, <2>7
<1> QED
  BY <1>1, <1>2, <1>3

(* Once the line is reached the session ends, so that the pause owes the   *)
(* Mac and the VM no more than the order of the OPENs and the waiting.     *)
LEMMA PauseKeeps ==
    ASSUME Ind, Pause, ~DataAllowed(tx'), tx' \in Nat,
           vmUp' \in [Ids -> {"none", "check", "read", "note", "closing", "done"}],
           \A id \in Ids : /\ vmUp'[id] = "none" <=> vmUp[id] = "none"
                           /\ vmUp[id] = "done" => vmUp'[id] = "done",
           UNCHANGED <<maxConns, conn, vmNext, waiting, reader, acceptor, macNext, macOpen, macWriters, macClosed,
                       macUp, macRun, sent>>
    PROVE  /\ Opens' /\ MacServes' /\ UplinksStarted'
           /\ UNCHANGED toVm => TypeOK' /\ Waits' /\ AnswersFirst' /\ VmServes'
           /\ toVm' \in Seq(VmFrames) => TypeOK'
           /\ waiting \subseteq vmOpen => waiting \subseteq vmOpen'
<1> USE DEF Ind
<1>1. /\ toMac' \in Seq(MacFrames) /\ Pushed(toMac, toMac', PauseFrames)
      /\ stop' = TRUE /\ writers' \in SUBSET writers /\ vmClosed' \in SUBSET Ids
      /\ vmOpen' \in SUBSET vmOpen /\ vmOpen \ vmOpen' \subseteq writers
  BY PauseLeaves
<1>2. \A f \in PauseFrames : ~IsOpen(f) /\ (IsTraffic(f) => f.id \in writers)
  BY DEF PauseFrames, Quota, Frame, IsOpen, IsTraffic
<1>3. Opens'
  BY <1>1, <1>2, OpensPushed
<1>4. MacServes'
  BY DEF MacServes
<1>5. writers \in SUBSET Ids /\ \A id \in writers : vmUp'[id] # "none" /\ id \notin waiting
  BY DEF TypeOK, UplinksStarted
<1>6. waiting \subseteq vmOpen => waiting \subseteq vmOpen'
  BY <1>1, <1>5
<1>7. UplinksStarted'
  <2>1. \A i \in DOMAIN toMac : IsTraffic(toMac[i]) => toMac[i].id \in Ids /\ vmUp[toMac[i].id] # "none"
    BY FrameTypes DEF UplinksStarted, IsTraffic
  <2>2. \A i \in DOMAIN toMac' : IsTraffic(toMac'[i]) => vmUp'[toMac'[i].id] # "none"
    BY <1>1, <1>2, <1>5, <2>1 DEF Pushed
  <2> QED
    BY <1>1, <2>2 DEF UplinksStarted
<1>8. toVm' \in Seq(VmFrames) => TypeOK'
  <2>1. vmOpen \in SUBSET Ids
    BY DEF TypeOK
  <2>2. Cardinality(vmOpen') <= Cardinality(vmOpen) /\ Cardinality(vmOpen') \in Nat /\ Cardinality(vmOpen) \in Nat
    BY <1>1, <2>1, FewerIds
  <2>3. Cardinality(vmOpen') <= maxConns
    BY <2>2, IdSets DEF TypeOK
  <2> QED
    BY <1>1, <2>1, <2>3 DEF TypeOK, MacFrames, VmFrames
<1>9. ASSUME UNCHANGED toVm PROVE TypeOK' /\ Waits' /\ AnswersFirst' /\ VmServes'
  <2>1. TypeOK'
    BY <1>8, <1>9, FrameTypes
  <2>2. Waits'
    BY <1>6, <1>9 DEF Waits
  <2>3. AnswersFirst'
    BY <1>9, FrameTypes DEF AnswersFirst
  <2>4. VmServes'
    BY <1>1, <1>9 DEF VmServes
  <2> QED
    BY <2>1, <2>2, <2>3, <2>4
<1> QED
  BY <1>3, <1>4, <1>6, <1>7, <1>8, <1>9

(* Meter::note_tx after a frame to the Mac. *)
LEMMA StepUpNote ==
    ASSUME Ind, NEW id \in Ids, UpNote(id)
    PROVE  Ind'
<1> USE DEF Ind
<1>1. /\ vmUp[id] = "note" /\ tx' = tx + 1 /\ tx \in Nat /\ tx' \in Nat
      /\ vmUp' \in [Ids -> {"none", "check", "read", "note", "closing", "done"}]
      /\ vmUp'[id] = IF DataAllowed(tx') THEN "check" ELSE "done"
      /\ \A k \in Ids \ {id} : vmUp'[k] = vmUp[k]
      /\ UNCHANGED <<maxConns, conn, toVm, vmNext, waiting, reader, acceptor, macNext, macOpen, macWriters, macClosed,
                     macUp, macRun, sent>>
  BY DEF UpNote, NoteTx, macVars, TypeOK
<1>2. CASE DataAllowed(tx')
  <2>1. UNCHANGED <<toMac, vmOpen, writers, vmClosed, stop>>
    BY <1>1, <1>2 DEF UpNote, NoteTx
  <2>2. DataAllowed(tx) /\ tx' <= PauseAt
    BY <1>1, <1>2, IdSets DEF DataAllowed
  <2>3. vmUp'[id] = "check"
    BY <1>1, <1>2
  <2>4. TypeOK'
    BY <1>1, <2>1 DEF TypeOK
  <2>5. Opens' /\ Waits'
    BY <1>1, <2>1, Kept
  <2>6. OvershootBounded'
    BY <1>1, <2>2, <2>4, EndedUplinks
  <2>7. AnswersFirst'
    BY <1>1, <2>3, FrameTypes DEF AnswersFirst
  <2>8. UplinksStarted'
    BY <1>1, <2>1, <2>3, FrameTypes DEF UplinksStarted, IsTraffic
  <2>9. MacServes'
    BY <1>1, <2>1, <2>2 DEF MacServes
  <2>10. VmServes'
    BY <1>1, <2>1, <2>3 DEF VmServes
  <2> QED
    BY <2>4, <2>5, <2>6, <2>7, <2>8, <2>9, <2>10
<1>3. CASE ~DataAllowed(tx')
  <2>1. Pause
    BY <1>1, <1>3 DEF UpNote, NoteTx
  <2>2. /\ \A k \in Ids : /\ vmUp'[k] = "none" <=> vmUp[k] = "none"
                          /\ vmUp[k] = "done" => vmUp'[k] = "done"
        /\ vmUp'[id] = "done"
    BY <1>1, <1>3
  <2>3. TypeOK' /\ Opens' /\ Waits' /\ AnswersFirst' /\ UplinksStarted' /\ MacServes' /\ VmServes'
    BY <1>1, <1>3, <2>1, <2>2, PauseKeeps
  <2>4. OvershootBounded'
    BY <1>1, <2>2, <2>3, EndedUplinks
  <2> QED
    BY <2>3, <2>4
<1> QED
  BY <1>2, <1>3

-----------------------------------------------------------------------------
(* The session thread of the VM.                                           *)

(* The frame that is read, and the ones that stay. *)
LEMMA VmTakes ==
    ASSUME Ind, NEW type, VmFrame(type)
    PROVE  /\ Popped(toVm, toVm') /\ toVm' \in Seq(VmFrames)
           /\ toVm[1] = Head(toVm) /\ Head(toVm).type = type /\ Head(toVm).id \in Ids /\ Head(toVm).id < macNext
           /\ conn = "up" /\ reader = "run"
           /\ UNCHANGED <<conn, vmNext, acceptor, maxConns, macNext, macOpen, macWriters, macClosed, macUp, macRun, sent>>
<1>1. toVm \in Seq(VmFrames)
  BY FrameTypes DEF Ind
<1>2. toVm # <<>> /\ toVm' = Tail(toVm)
  BY DEF VmFrame
<1>3. Tail(toVm) \in Seq(VmFrames) /\ Popped(toVm, Tail(toVm))
  BY <1>1, <1>2, TailPops
<1>4. Popped(toVm, toVm') /\ toVm' \in Seq(VmFrames)
  BY <1>2, <1>3
<1>5. 1 \in DOMAIN toVm /\ toVm[1] = Head(toVm)
  BY <1>4 DEF Popped
<1>6. toVm[1].id \in Ids /\ toVm[1].id < macNext
  BY <1>5, FrameTypes DEF Ind, AnswersFirst
<1> QED
  BY <1>4, <1>5, <1>6 DEF VmFrame, macVars

(* The frames that stay keep their order; those for an id follow its       *)
(* answer, and a CLOSE is the last of its id.                              *)
LEMMA VmKeepsOrder ==
    ASSUME Ind, NEW type, VmFrame(type),
           \A i \in DOMAIN toVm' : IsAnswer(toVm'[i]) => vmUp'[toVm'[i].id] = "none"
    PROVE  /\ AnswersFirst'
           /\ \A i \in DOMAIN toVm' : toVm'[i].type = "close" =>
                 /\ macUp'[toVm'[i].id] = "done"
                 /\ \A j \in DOMAIN toVm' : i < j => toVm'[i].id # toVm'[j].id
<1>1. \A i \in DOMAIN toVm' : i \in Nat /\ i + 1 \in DOMAIN toVm /\ toVm'[i] = toVm[i + 1]
  BY VmTakes DEF Popped
<1>2. UNCHANGED <<macNext, macUp>>
  BY VmTakes
<1>3. \A i, j \in DOMAIN toVm' : i < j => i + 1 < j + 1
  BY <1>1
<1>4. AnswersFirst'
  BY <1>1, <1>2, <1>3 DEF Ind, AnswersFirst
<1>5. \A i \in DOMAIN toVm' : toVm'[i].type = "close" => macUp'[toVm'[i].id] = "done"
  BY <1>1, <1>2 DEF Ind, VmServes
<1>6. \A i, j \in DOMAIN toVm' : toVm'[i].type = "close" /\ i < j => toVm'[i].id # toVm'[j].id
  BY <1>1, <1>3 DEF Ind, VmServes
<1> QED
  BY <1>4, <1>5, <1>6

(* The steps that start no uplink. *)
LEMMA VmKeepsOrderOnly ==
    ASSUME Ind, NEW type, VmFrame(type), UNCHANGED vmUp
    PROVE  /\ AnswersFirst'
           /\ \A i \in DOMAIN toVm' : toVm'[i].type = "close" =>
                 /\ macUp'[toVm'[i].id] = "done"
                 /\ \A j \in DOMAIN toVm' : i < j => toVm'[i].id # toVm'[j].id
<1>1. \A i \in DOMAIN toVm' : i \in Nat /\ i + 1 \in DOMAIN toVm /\ toVm'[i] = toVm[i + 1]
  BY VmTakes DEF Popped
<1>2. \A i \in DOMAIN toVm' : IsAnswer(toVm'[i]) => vmUp'[toVm'[i].id] = "none"
  BY <1>1 DEF Ind, AnswersFirst
<1> QED
  BY <1>2, VmKeepsOrder

(* An error of on_vm_frame ends the loop. *)
LEMMA StepVmFails ==
    ASSUME Ind, NEW type, VmFrame(type), NEW cause, VmFails(cause)
    PROVE  Ind'
<1> USE DEF Ind
<1>1. /\ Popped(toVm, toVm') /\ toVm' \in Seq(VmFrames)
      /\ UNCHANGED <<conn, vmNext, acceptor, maxConns, macNext, macOpen, macWriters, macClosed, macUp, macRun, sent>>
  BY VmTakes
<1>2. reader' = "error" /\ UNCHANGED <<toMac, vmOpen, waiting, writers, vmClosed, stop, vmUp, tx>>
  BY DEF VmFails
<1>3. TypeOK'
  BY <1>1, <1>2 DEF TypeOK, VmFrames
<1>4. Opens' /\ OvershootBounded' /\ UplinksStarted'
  BY <1>1, <1>2, Kept
<1>5. Waits'
  BY <1>2 DEF Waits
<1>6. AnswersFirst' /\ VmServes'
  BY <1>2, VmKeepsOrderOnly DEF VmServes
<1>7. MacServes'
  BY <1>1, <1>2 DEF MacServes, Popped
<1> QED
  BY <1>3, <1>4, <1>5, <1>6, <1>7

(* While the session runs an answer finds its socket. *)
LEMMA AnswerFindsSocket ==
    ASSUME Ind, NEW type \in {"openOk", "openFail"}, VmFrame(type)
    PROVE  /\ Head(toVm).id \in vmOpen /\ Head(toVm).id \in waiting
           /\ \A i \in DOMAIN toVm' : IsAnswer(toVm'[i]) => toVm'[i].id # Head(toVm).id
<1>1. 1 \in DOMAIN toVm /\ toVm[1] = Head(toVm)
  BY VmTakes DEF Popped
<1>2. IsAnswer(toVm[1]) /\ Head(toVm).id \in Ids /\ conn = "up" /\ reader = "run"
  BY <1>1, VmTakes DEF IsAnswer
<1>3. Head(toVm).id \in vmOpen /\ Head(toVm).id \in waiting
  BY <1>1, <1>2 DEF Ind, Waits
<1>4. \A i \in DOMAIN toVm' : i \in Nat /\ i >= 1 /\ i + 1 \in DOMAIN toVm /\ toVm'[i] = toVm[i + 1]
  BY VmTakes DEF Popped
<1>5. \A i \in DOMAIN toVm' : IsAnswer(toVm'[i]) => toVm'[i].id # toVm[1].id
  <2> TAKE i \in DOMAIN toVm'
  <2>1. 1 < i + 1
    BY <1>4
  <2> QED
    BY <1>1, <1>4, <2>1 DEF Ind, AnswersFirst
<1> QED
  BY <1>1, <1>3, <1>5

(* Which ids wait for an answer, once one answer was read. *)
LEMMA AnswerRead ==
    ASSUME Ind, NEW type, VmFrame(type), UNCHANGED <<conn, reader>>,
           waiting' = IF type \in {"openOk", "openFail"} THEN waiting \ {Head(toVm).id} ELSE waiting,
           waiting' \subseteq vmOpen'
    PROVE  Waits'
<1>1. /\ 1 \in DOMAIN toVm /\ toVm[1] = Head(toVm) /\ toVm[1].type = type
      /\ \A i \in DOMAIN toVm : i \in Nat /\ (i = 1 \/ (i - 1 \in DOMAIN toVm' /\ toVm'[i - 1] = toVm[i]))
      /\ \A i \in DOMAIN toVm' : i \in Nat /\ i >= 1 /\ i + 1 \in DOMAIN toVm /\ toVm'[i] = toVm[i + 1]
  BY VmTakes DEF Popped
<1>2. conn = "up" /\ reader = "run" /\ toVm[1].id < macNext /\ UNCHANGED <<macNext, vmNext>>
  BY <1>1, VmTakes
<1>3. macNext \in Nat /\ vmNext \in Nat /\ toVm[1].id \in Nat
  BY <1>1, FrameTypes, IdSets DEF Ind, TypeOK
<1> DEFINE Answer(s, id) == \E i \in DOMAIN s : IsAnswer(s[i]) /\ s[i].id = id
<1>4. \A id \in Ids : id \in waiting <=> (macNext <= id /\ id < vmNext) \/ Answer(toVm, id)
  BY <1>2 DEF Ind, Waits
<1>5. CASE type \in {"openOk", "openFail"}
  <2>1. \A i \in DOMAIN toVm' : IsAnswer(toVm'[i]) => toVm'[i].id # toVm[1].id
    BY <1>1, <1>5, AnswerFindsSocket
  <2>2. \A id \in Ids : Answer(toVm', id) <=> Answer(toVm, id) /\ id # toVm[1].id
    <3> TAKE id \in Ids
    <3>1. Answer(toVm', id) => Answer(toVm, id) /\ id # toVm[1].id
      BY <1>1, <2>1
    <3>2. Answer(toVm, id) /\ id # toVm[1].id => Answer(toVm', id)
      BY <1>1
    <3> QED
      BY <3>1, <3>2
  <2>3. waiting' = waiting \ {toVm[1].id}
    BY <1>1, <1>5
  <2>4. \A id \in Ids : id \in waiting' <=> (macNext <= id /\ id < vmNext) \/ Answer(toVm', id)
    BY <1>2, <1>3, <1>4, <2>2, <2>3
  <2> QED
    BY <1>2, <2>4 DEF Waits
<1>6. CASE type \notin {"openOk", "openFail"}
  <2>1. ~IsAnswer(toVm[1])
    BY <1>1, <1>6 DEF IsAnswer
  <2>2. \A id \in Ids : Answer(toVm', id) <=> Answer(toVm, id)
    <3> TAKE id \in Ids
    <3>1. Answer(toVm', id) => Answer(toVm, id)
      BY <1>1
    <3>2. Answer(toVm, id) => Answer(toVm', id)
      BY <1>1, <2>1
    <3> QED
      BY <3>1, <3>2
  <2>3. waiting' = waiting
    BY <1>6
  <2> QED
    BY <1>2, <1>4, <2>2, <2>3 DEF Waits
<1> QED
  BY <1>5, <1>6

(* The types, when the VM closes ids. *)
LEMMA FewerOpen ==
    ASSUME TypeOK, vmOpen' \in SUBSET vmOpen,
           waiting' \in SUBSET Ids, writers' \in SUBSET Ids, vmClosed' \in SUBSET Ids, toVm' \in Seq(VmFrames),
           UNCHANGED <<maxConns, conn, toMac, vmNext, stop, reader, acceptor, vmUp, tx, macNext, macOpen, macWriters,
                       macClosed, macUp, macRun, sent>>
    PROVE  TypeOK'
<1>1. vmOpen \in SUBSET Ids
  BY DEF TypeOK
<1>2. Cardinality(vmOpen') <= Cardinality(vmOpen) /\ Cardinality(vmOpen') \in Nat /\ Cardinality(vmOpen) \in Nat
  BY <1>1, FewerIds
<1>3. Cardinality(vmOpen') <= maxConns
  BY <1>2, IdSets DEF TypeOK
<1> QED
  BY <1>1, <1>3 DEF TypeOK, VmFrames

(* What the VM serves once a frame was read and no socket came or went.    *)
LEMMA VmServesRest ==
    ASSUME Ind, NEW type, VmFrame(type), stop' = stop,
           NEW id \in Ids, id # Head(toVm).id \/ type = "data", ~stop,
           vmUp[id] = "done" => vmUp'[id] = "done",
           id \in vmOpen \cap writers => id \in vmOpen' \cap writers'
    PROVE  \/ /\ macUp'[id] \notin {"check", "read"}
              /\ \A i \in DOMAIN toVm' : IsTraffic(toVm'[i]) => toVm'[i].id # id
           \/ \E i \in DOMAIN toVm' : toVm'[i] = Frame("openOk", id)
           \/ vmUp'[id] = "done"
           \/ id \in vmOpen' \cap writers'
<1>1. /\ 1 \in DOMAIN toVm /\ toVm[1] = Head(toVm) /\ toVm[1].type = type
      /\ \A i \in DOMAIN toVm : i \in Nat /\ (i = 1 \/ (i - 1 \in DOMAIN toVm' /\ toVm'[i - 1] = toVm[i]))
      /\ \A i \in DOMAIN toVm' : i \in Nat /\ i >= 1 /\ i + 1 \in DOMAIN toVm /\ toVm'[i] = toVm[i + 1]
  BY VmTakes DEF Popped
<1>2. conn = "up" /\ reader = "run" /\ UNCHANGED macUp
  BY VmTakes
<1>3. toVm[1] # Frame("openOk", id)
  BY <1>1 DEF Frame
<1>4. \/ /\ macUp[id] \notin {"check", "read"}
         /\ \A i \in DOMAIN toVm : IsTraffic(toVm[i]) => toVm[i].id # id
      \/ \E i \in DOMAIN toVm : toVm[i] = Frame("openOk", id)
      \/ vmUp[id] = "done"
      \/ id \in vmOpen \cap writers
  BY <1>2 DEF Ind, VmServes
<1>5. CASE macUp[id] \notin {"check", "read"} /\ \A i \in DOMAIN toVm : IsTraffic(toVm[i]) => toVm[i].id # id
  BY <1>1, <1>2, <1>5
<1>6. CASE \E i \in DOMAIN toVm : toVm[i] = Frame("openOk", id)
  BY <1>1, <1>3, <1>6
<1> QED
  BY <1>4, <1>5, <1>6

(* OPEN_OK: the socket is spliced and its uplink starts. *)
LEMMA StepOpenOk ==
    ASSUME Ind, OnOpenOk
    PROVE  Ind'
<1> USE DEF Ind
<1> DEFINE h == Head(toVm).id
<1>1. VmFrame("openOk")
  BY DEF OnOpenOk
<1>2. /\ Popped(toVm, toVm') /\ toVm' \in Seq(VmFrames) /\ toVm[1] = Head(toVm)
      /\ Head(toVm).type = "openOk" /\ h \in Ids /\ h < macNext /\ conn = "up" /\ reader = "run"
      /\ UNCHANGED <<conn, vmNext, acceptor, maxConns, macNext, macOpen, macWriters, macClosed, macUp, macRun, sent>>
  BY <1>1, VmTakes
<1>3. /\ h \in vmOpen /\ h \in waiting
      /\ \A i \in DOMAIN toVm' : IsAnswer(toVm'[i]) => toVm'[i].id # h
  BY <1>1, AnswerFindsSocket
<1>4. /\ waiting' = waiting \ {h} /\ writers' = writers \cup {h}
      /\ vmUp' \in [Ids -> {"none", "check", "read", "note", "closing", "done"}]
      /\ vmUp'[h] = "check" /\ \A k \in Ids \ {h} : vmUp'[k] = vmUp[k]
      /\ UNCHANGED <<toMac, vmOpen, vmClosed, stop, reader, tx>>
  BY <1>2, <1>3 DEF OnOpenOk, TypeOK
<1>5. vmUp[h] = "none" /\ 1 \in DOMAIN toVm
  BY <1>2, <1>3 DEF UplinksStarted, Popped
<1>6. \A i \in DOMAIN toVm' : i \in Nat /\ i >= 1 /\ i + 1 \in DOMAIN toVm /\ toVm'[i] = toVm[i + 1]
  BY <1>2 DEF Popped
<1> HIDE DEF h
<1>7. TypeOK'
  BY <1>2, <1>4 DEF TypeOK, VmFrames
<1>8. Opens'
  BY <1>2, <1>4, Kept
<1>9. Waits'
  <2>1. waiting' \subseteq vmOpen'
    BY <1>2, <1>4 DEF Waits
  <2> QED
    BY <1>1, <1>2, <1>4, <2>1, AnswerRead DEF h
<1>10. OvershootBounded'
  BY <1>2, <1>4, <1>5, <1>7, EndedUplinks
<1>11. /\ AnswersFirst'
       /\ \A i \in DOMAIN toVm' : toVm'[i].type = "close" =>
             /\ macUp'[toVm'[i].id] = "done"
             /\ \A j \in DOMAIN toVm' : i < j => toVm'[i].id # toVm'[j].id
  <2>1. \A i \in DOMAIN toVm' : IsAnswer(toVm'[i]) => vmUp'[toVm'[i].id] = "none"
    BY <1>3, <1>4, <1>6, FrameTypes DEF AnswersFirst
  <2> QED
    BY <1>1, <2>1, VmKeepsOrder
<1>12. UplinksStarted'
  BY <1>2, <1>4, <1>5, FrameTypes DEF UplinksStarted, IsTraffic
<1>13. MacServes'
  <2>1. DataAllowed(tx) => h \in macOpen
    BY <1>2, <1>5 DEF MacServes, h
  <2>2. \A i \in DOMAIN toMac : IsTraffic(toMac[i]) => toMac[i].id # h
    BY <1>5 DEF UplinksStarted
  <2> QED
    BY <1>2, <1>4, <1>6, <2>1, <2>2 DEF MacServes, DataAllowed, IsTraffic
<1>14. VmServes'
  <2> SUFFICES ASSUME ~stop, NEW id \in Ids
               PROVE  \/ /\ macUp'[id] \notin {"check", "read"}
                         /\ \A i \in DOMAIN toVm' : IsTraffic(toVm'[i]) => toVm'[i].id # id
                      \/ \E i \in DOMAIN toVm' : toVm'[i] = Frame("openOk", id)
                      \/ vmUp'[id] = "done"
                      \/ id \in vmOpen' \cap writers'
    BY <1>4, <1>11 DEF VmServes
  <2>1. CASE id = h
    BY <1>3, <1>4, <2>1
  <2>2. CASE id # h
    <3>1. vmUp'[id] = vmUp[id] /\ (id \in vmOpen \cap writers => id \in vmOpen' \cap writers')
      BY <1>4, <2>2
    <3> QED
      BY <1>1, <1>4, <2>2, <3>1, VmServesRest DEF h
  <2> QED
    BY <2>1, <2>2
<1> QED
  BY <1>7, <1>8, <1>9, <1>10, <1>11, <1>12, <1>13, <1>14

(* OPEN_FAIL: the socket is dropped and the id closed. *)
LEMMA StepOpenFail ==
    ASSUME Ind, OnOpenFail
    PROVE  Ind'
<1> USE DEF Ind
<1> DEFINE h == Head(toVm).id
<1>1. VmFrame("openFail")
  BY DEF OnOpenFail
<1>2. /\ Popped(toVm, toVm') /\ toVm' \in Seq(VmFrames) /\ toVm[1] = Head(toVm)
      /\ Head(toVm).type = "openFail" /\ h \in Ids /\ conn = "up" /\ reader = "run"
      /\ UNCHANGED <<conn, vmNext, acceptor, maxConns, macNext, macOpen, macWriters, macClosed, macUp, macRun, sent>>
  BY <1>1, VmTakes
<1>3. h \in vmOpen /\ h \in waiting
  BY <1>1, AnswerFindsSocket
<1>4. /\ waiting' = waiting \ {h} /\ vmOpen' = vmOpen \ {h}
      /\ UNCHANGED <<toMac, writers, vmClosed, stop, reader, vmUp, tx>>
  BY <1>3 DEF OnOpenFail
<1>5. \A i \in DOMAIN toVm' : i \in Nat /\ i >= 1 /\ i + 1 \in DOMAIN toVm /\ toVm'[i] = toVm[i + 1]
  BY <1>2 DEF Popped
<1>6. 1 \in DOMAIN toVm /\ macUp[h] = "none"
  BY <1>2 DEF AnswersFirst, Popped
<1> HIDE DEF h
<1>7. TypeOK'
  <2>1. waiting' \in SUBSET Ids /\ writers' \in SUBSET Ids /\ vmClosed' \in SUBSET Ids /\ vmOpen' \in SUBSET vmOpen
    BY <1>4 DEF TypeOK
  <2> QED
    BY <1>2, <1>4, <2>1, FewerOpen
<1>8. Opens' /\ OvershootBounded'
  BY <1>2, <1>4, Kept
<1>9. Waits'
  <2>1. waiting' \subseteq vmOpen'
    BY <1>2, <1>4 DEF Waits
  <2> QED
    BY <1>1, <1>2, <1>4, <2>1, AnswerRead DEF h
<1>10. /\ AnswersFirst'
       /\ \A i \in DOMAIN toVm' : toVm'[i].type = "close" =>
             /\ macUp'[toVm'[i].id] = "done"
             /\ \A j \in DOMAIN toVm' : i < j => toVm'[i].id # toVm'[j].id
  BY <1>1, <1>4, VmKeepsOrderOnly
<1>11. UplinksStarted'
  BY <1>2, <1>4 DEF UplinksStarted
<1>12. MacServes'
  BY <1>2, <1>4, <1>5 DEF MacServes
<1>13. VmServes'
  <2> SUFFICES ASSUME ~stop, NEW id \in Ids
               PROVE  \/ /\ macUp'[id] \notin {"check", "read"}
                         /\ \A i \in DOMAIN toVm' : IsTraffic(toVm'[i]) => toVm'[i].id # id
                      \/ \E i \in DOMAIN toVm' : toVm'[i] = Frame("openOk", id)
                      \/ vmUp'[id] = "done"
                      \/ id \in vmOpen' \cap writers'
    BY <1>4, <1>10 DEF VmServes
  <2>1. CASE id = h
    <3>1. \A i \in DOMAIN toVm : IsTraffic(toVm[i]) => toVm[i].id # h
      BY <1>6 DEF AnswersFirst, IsTraffic
    <3> QED
      BY <1>2, <1>5, <1>6, <2>1, <3>1
  <2>2. CASE id # h
    <3>1. vmUp'[id] = vmUp[id] /\ (id \in vmOpen \cap writers => id \in vmOpen' \cap writers')
      BY <1>4, <2>2
    <3> QED
      BY <1>1, <1>4, <2>2, <3>1, VmServesRest DEF h
  <2> QED
    BY <2>1, <2>2
<1> QED
  BY <1>7, <1>8, <1>9, <1>10, <1>11, <1>12, <1>13

(* CLOSE: the Mac says no more of the id, and nobody waits for it. *)
LEMMA StepCloseAtVm ==
    ASSUME Ind, OnCloseAtVm
    PROVE  Ind'
<1> USE DEF Ind
<1> DEFINE h == Head(toVm).id
<1>1. VmFrame("close")
  BY DEF OnCloseAtVm
<1>2. CASE h \notin vmOpen
  <2>1. VmFails("vmBadConn")
    BY <1>2 DEF OnCloseAtVm
  <2> QED
    BY <1>1, <2>1, StepVmFails
<1>3. CASE h \in vmOpen
  <2>1. /\ Popped(toVm, toVm') /\ toVm' \in Seq(VmFrames) /\ toVm[1] = Head(toVm)
        /\ Head(toVm).type = "close" /\ h \in Ids /\ h < macNext /\ conn = "up" /\ reader = "run"
        /\ UNCHANGED <<conn, vmNext, acceptor, maxConns, macNext, macOpen, macWriters, macClosed, macUp, macRun, sent>>
    BY <1>1, VmTakes
  <2>2. /\ vmOpen' = vmOpen \ {h} /\ writers' = writers \ {h} /\ waiting' = waiting \ {h}
        /\ vmClosed' \in SUBSET (vmClosed \cup {h}) /\ UNCHANGED <<toMac, stop, reader, vmUp, tx>>
    BY <1>3 DEF OnCloseAtVm
  <2>3. \A i \in DOMAIN toVm' : i \in Nat /\ i >= 1 /\ 1 < i + 1 /\ i + 1 \in DOMAIN toVm /\ toVm'[i] = toVm[i + 1]
    BY <2>1 DEF Popped
  <2>4. /\ 1 \in DOMAIN toVm /\ macUp[h] = "done"
        /\ \A i \in DOMAIN toVm' : toVm'[i].id # h
    BY <2>1, <2>3 DEF VmServes, Popped
  <2>5. h \notin waiting
    <3>1. \A i \in DOMAIN toVm : IsAnswer(toVm[i]) => toVm[i].id # h
      <4> TAKE i \in DOMAIN toVm
      <4>1. CASE i = 1
        BY <2>1, <4>1 DEF IsAnswer
      <4>2. CASE i # 1
        BY <2>1, <2>4, <4>2 DEF Popped
      <4> QED
        BY <4>1, <4>2
    <3>2. ~(macNext <= h)
      <4> HIDE DEF h
      <4>1. macNext \in Nat
        BY IdSets DEF TypeOK
      <4>2. h \in Nat
        BY <2>1, IdSets
      <4> QED
        BY <2>1, <4>1, <4>2
    <3> QED
      BY <2>1, <3>1, <3>2 DEF Waits
  <2> HIDE DEF h
  <2>6. TypeOK'
    <3>1. waiting' \in SUBSET Ids /\ writers' \in SUBSET Ids /\ vmClosed' \in SUBSET Ids /\ vmOpen' \in SUBSET vmOpen
      BY <2>1, <2>2 DEF TypeOK
    <3> QED
      BY <2>1, <2>2, <3>1, FewerOpen
  <2>7. Opens' /\ OvershootBounded'
    BY <2>1, <2>2, Kept
  <2>8. Waits'
    <3>1. waiting' = waiting /\ waiting' \subseteq vmOpen'
      BY <2>1, <2>2, <2>5 DEF Waits
    <3> QED
      BY <1>1, <2>1, <2>2, <3>1, AnswerRead
  <2>9. /\ AnswersFirst'
        /\ \A i \in DOMAIN toVm' : toVm'[i].type = "close" =>
              /\ macUp'[toVm'[i].id] = "done"
              /\ \A j \in DOMAIN toVm' : i < j => toVm'[i].id # toVm'[j].id
    BY <1>1, <2>2, VmKeepsOrderOnly
  <2>10. UplinksStarted'
    BY <2>1, <2>2 DEF UplinksStarted
  <2>11. MacServes'
    BY <2>1, <2>2, <2>3 DEF MacServes
  <2>12. VmServes'
    <3> SUFFICES ASSUME ~stop, NEW id \in Ids
                 PROVE  \/ /\ macUp'[id] \notin {"check", "read"}
                           /\ \A i \in DOMAIN toVm' : IsTraffic(toVm'[i]) => toVm'[i].id # id
                        \/ \E i \in DOMAIN toVm' : toVm'[i] = Frame("openOk", id)
                        \/ vmUp'[id] = "done"
                        \/ id \in vmOpen' \cap writers'
      BY <2>2, <2>9 DEF VmServes
    <3>1. CASE id = h
      BY <2>1, <2>4, <3>1
    <3>2. CASE id # h
      <4>1. vmUp'[id] = vmUp[id] /\ (id \in vmOpen \cap writers => id \in vmOpen' \cap writers')
        BY <2>2, <3>2
      <4> QED
        BY <1>1, <2>2, <3>2, <4>1, VmServesRest DEF h
    <3> QED
      BY <3>1, <3>2
  <2> QED
    BY <2>6, <2>7, <2>8, <2>9, <2>10, <2>11, <2>12
<1> QED
  BY <1>2, <1>3

(* DATA: counted and written, or the pause. *)
LEMMA StepDataAtVm ==
    ASSUME Ind, OnDataAtVm
    PROVE  Ind'
<1> USE DEF Ind
<1>1. VmFrame("data")
  BY DEF OnDataAtVm
<1>2. /\ Popped(toVm, toVm') /\ toVm' \in Seq(VmFrames) /\ conn = "up" /\ reader = "run"
      /\ UNCHANGED <<conn, vmNext, acceptor, maxConns, macNext, macOpen, macWriters, macClosed, macUp, macRun, sent>>
  BY <1>1, VmTakes
<1>3. tx \in Nat /\ vmUp \in [Ids -> {"none", "check", "read", "note", "closing", "done"}] /\ tx + 1 \in Nat
  BY DEF TypeOK
<1>4. CASE VmFails("vmBadConn") \/ VmFails("write")
  BY <1>1, <1>4, StepVmFails
<1>5. CASE Pause /\ ~DataAllowed(tx') /\ UNCHANGED <<waiting, reader, vmUp>>
           /\ (tx' = tx \/ (DataAllowed(tx) /\ tx' = tx + 1))
  <2>1. tx' \in Nat /\ (tx' = tx \/ tx' <= PauseAt)
    BY <1>3, <1>5, IdSets DEF DataAllowed
  <2>2. /\ Opens' /\ MacServes' /\ UplinksStarted' /\ TypeOK'
        /\ waiting \subseteq vmOpen => waiting \subseteq vmOpen'
    BY <1>2, <1>3, <1>5, <2>1, PauseKeeps
  <2>3. OvershootBounded'
    BY <1>5, <2>1, <2>2, EndedUplinks
  <2>4. waiting' = waiting /\ waiting' \subseteq vmOpen'
    BY <1>2, <1>5, <2>2 DEF Waits
  <2>5. Waits'
    BY <1>1, <1>2, <1>5, <2>4, AnswerRead
  <2>6. stop' = TRUE
    BY <1>5, PauseLeaves
  <2>7. AnswersFirst' /\ VmServes'
    BY <1>1, <1>5, <2>6, VmKeepsOrderOnly DEF VmServes
  <2> QED
    BY <2>2, <2>3, <2>5, <2>7
<1>6. CASE /\ DataAllowed(tx') /\ tx' = tx + 1
           /\ UNCHANGED <<toMac, vmOpen, writers, vmClosed, stop, waiting, reader, vmUp>>
  <2>1. tx' \in Nat /\ tx' <= PauseAt /\ DataAllowed(tx)
    BY <1>3, <1>6, IdSets DEF DataAllowed
  <2>2. TypeOK'
    BY <1>2, <1>6, <2>1 DEF TypeOK, VmFrames
  <2>3. Opens' /\ UplinksStarted'
    BY <1>2, <1>6, Kept
  <2>4. OvershootBounded'
    BY <1>6, <2>1, <2>2, EndedUplinks
  <2>5. Waits'
    <3>1. waiting' = waiting /\ waiting' \subseteq vmOpen'
      BY <1>2, <1>6 DEF Waits
    <3> QED
      BY <1>1, <1>2, <1>6, <3>1, AnswerRead
  <2>6. MacServes'
    BY <1>2, <1>6, <2>1 DEF MacServes, Popped
  <2>7. /\ AnswersFirst'
        /\ \A i \in DOMAIN toVm' : toVm'[i].type = "close" =>
              /\ macUp'[toVm'[i].id] = "done"
              /\ \A j \in DOMAIN toVm' : i < j => toVm'[i].id # toVm'[j].id
    BY <1>1, <1>6, VmKeepsOrderOnly
  <2>8. VmServes'
    <3> SUFFICES ASSUME ~stop, NEW id \in Ids
                 PROVE  \/ /\ macUp'[id] \notin {"check", "read"}
                           /\ \A i \in DOMAIN toVm' : IsTraffic(toVm'[i]) => toVm'[i].id # id
                        \/ \E i \in DOMAIN toVm' : toVm'[i] = Frame("openOk", id)
                        \/ vmUp'[id] = "done"
                        \/ id \in vmOpen' \cap writers'
      BY <1>6, <2>7 DEF VmServes
    <3> QED
      BY <1>1, <1>6, VmServesRest
  <2> QED
    BY <2>2, <2>3, <2>4, <2>5, <2>6, <2>7, <2>8
<1>7. \/ VmFails("vmBadConn") \/ VmFails("write")
      \/ Pause /\ ~DataAllowed(tx') /\ UNCHANGED <<waiting, reader, vmUp>>
         /\ (tx' = tx \/ (DataAllowed(tx) /\ tx' = tx + 1))
      \/ /\ DataAllowed(tx') /\ tx' = tx + 1
         /\ UNCHANGED <<toMac, vmOpen, writers, vmClosed, stop, waiting, reader, vmUp>>
  <2>1. CASE ~DataAllowed(tx)
    <3>1. Pause /\ UNCHANGED <<waiting, reader, vmUp, tx>>
      BY <2>1 DEF OnDataAtVm
    <3>2. ~DataAllowed(tx')
      BY <2>1, <3>1
    <3> QED
      BY <3>1, <3>2
  <2>2. CASE DataAllowed(tx)
    <3>1. \/ VmFails("vmBadConn") \/ VmFails("write")
          \/ NoteTx /\ UNCHANGED <<waiting, reader, vmUp>>
      BY <2>2 DEF OnDataAtVm
    <3>2. CASE NoteTx /\ UNCHANGED <<waiting, reader, vmUp>>
      <4>1. tx' = tx + 1
        BY <3>2 DEF NoteTx
      <4>2. CASE DataAllowed(tx + 1)
        <5>1. UNCHANGED <<toMac, vmOpen, writers, vmClosed, stop>>
          BY <3>2, <4>2 DEF NoteTx
        <5> QED
          BY <3>2, <4>1, <4>2, <5>1
      <4>3. CASE ~DataAllowed(tx + 1)
        <5>1. Pause
          BY <3>2, <4>3 DEF NoteTx
        <5> QED
          BY <2>2, <3>2, <4>1, <4>3, <5>1
      <4> QED
        BY <4>2, <4>3
    <3> QED
      BY <3>1, <3>2
  <2> QED
    BY <2>1, <2>2
<1> QED
  BY <1>4, <1>5, <1>6, <1>7

-----------------------------------------------------------------------------
(* The Mac.                                                                *)

(* The frame that is read, and the ones that stay. *)
LEMMA MacTakes ==
    ASSUME Ind, NEW type, MacFrame(type)
    PROVE  /\ Popped(toMac, toMac') /\ toMac' \in Seq(MacFrames)
           /\ toMac[1] = Head(toMac) /\ Head(toMac).type = type
           /\ type # "quota" => Head(toMac).id \in Ids
           /\ conn = "up"
           /\ UNCHANGED <<maxConns, vmNext, vmOpen, waiting, writers, vmClosed, stop, reader, acceptor, vmUp, tx, sent>>
<1>1. toMac \in Seq(MacFrames)
  BY FrameTypes DEF Ind
<1>2. toMac # <<>> /\ toMac' = Tail(toMac)
  BY DEF MacFrame
<1>3. Tail(toMac) \in Seq(MacFrames) /\ Popped(toMac, Tail(toMac))
  BY <1>1, <1>2, TailPops
<1>4. Popped(toMac, toMac') /\ toMac' \in Seq(MacFrames)
  BY <1>2, <1>3
<1>5. 1 \in DOMAIN toMac /\ toMac[1] = Head(toMac)
  BY <1>4 DEF Popped
<1>6. toMac[1].type # "quota" => toMac[1].id \in Ids
  BY <1>5, FrameTypes DEF Ind
<1> QED
  BY <1>4, <1>5, <1>6 DEF MacFrame, vmVars

(* A frame that is no OPEN leaves the OPENs; so does the end of the        *)
(* connection.  The frames that stay were served before.                   *)
LEMMA MacKeeps ==
    ASSUME Ind, NEW type, MacFrame(type), macNext' = macNext,
           (type # "open" /\ conn' = conn) \/ conn' = "shut"
    PROVE  /\ Opens'
           /\ \A i \in DOMAIN toMac' : IsTraffic(toMac'[i]) => vmUp'[toMac'[i].id] # "none"
           /\ macOpen' = macOpen /\ UNCHANGED toVm => MacServes'
<1>1. /\ 1 \in DOMAIN toMac /\ toMac[1].type = type
      /\ \A i \in DOMAIN toMac : i \in Nat /\ (i = 1 \/ (i - 1 \in DOMAIN toMac' /\ toMac'[i - 1] = toMac[i]))
      /\ \A i \in DOMAIN toMac' : i \in Nat /\ i >= 1 /\ i + 1 \in DOMAIN toMac /\ toMac'[i] = toMac[i + 1]
      /\ UNCHANGED <<vmNext, vmUp, tx>> /\ conn = "up"
  BY MacTakes DEF Popped
<1>2. \A i, j \in DOMAIN toMac' : i < j => i + 1 < j + 1
  BY <1>1
<1>3. \A i, j \in DOMAIN toMac' : i < j /\ IsOpen(toMac'[i]) /\ IsOpen(toMac'[j]) => toMac'[i].id < toMac'[j].id
  BY <1>1, <1>2 DEF Ind, Opens
<1>4. Opens'
  <2>1. CASE conn' = "shut"
    BY <1>3, <2>1 DEF Opens
  <2>2. CASE type # "open" /\ conn' = conn
    <3>1. \A i \in DOMAIN toMac' : IsOpen(toMac'[i]) => macNext <= toMac'[i].id /\ toMac'[i].id < vmNext
      BY <1>1 DEF Ind, Opens
    <3>2. ~IsOpen(toMac[1])
      BY <1>1, <2>2 DEF IsOpen
    <3>3. \A n \in Ids : macNext <= n /\ n < vmNext => \E i \in DOMAIN toMac' : IsOpen(toMac'[i]) /\ toMac'[i].id = n
      <4> SUFFICES ASSUME NEW n \in Ids, macNext <= n, n < vmNext
                   PROVE  \E i \in DOMAIN toMac' : IsOpen(toMac'[i]) /\ toMac'[i].id = n
        OBVIOUS
      <4>1. PICK i \in DOMAIN toMac : IsOpen(toMac[i]) /\ toMac[i].id = n
        BY <1>1 DEF Ind, Opens
      <4>2. i - 1 \in DOMAIN toMac' /\ toMac'[i - 1] = toMac[i]
        BY <1>1, <3>2, <4>1
      <4> QED
        BY <4>1, <4>2
    <3> QED
      BY <1>1, <1>3, <2>2, <3>1, <3>3 DEF Opens
  <2> QED
    BY <2>1, <2>2
<1>5. \A i \in DOMAIN toMac' : IsTraffic(toMac'[i]) => vmUp'[toMac'[i].id] # "none"
  BY <1>1 DEF Ind, UplinksStarted
<1>6. macOpen' = macOpen /\ UNCHANGED toVm => MacServes'
  BY <1>1, <1>2 DEF Ind, MacServes, DataAllowed
<1> QED
  BY <1>4, <1>5, <1>6

(* An error of serve_mac ends the process and the connection. *)
LEMMA StepMacExits ==
    ASSUME Ind, NEW type, MacFrame(type), NEW cause, MacExits(cause)
    PROVE  Ind'
<1> USE DEF Ind
<1>1. /\ toMac' \in Seq(MacFrames)
      /\ UNCHANGED <<maxConns, vmNext, vmOpen, waiting, writers, vmClosed, stop, reader, acceptor, vmUp, tx, sent>>
  BY MacTakes
<1>2. macRun' = FALSE /\ conn' = "shut" /\ UNCHANGED <<toVm, macNext, macOpen, macWriters, macClosed, macUp>>
  BY DEF MacExits
<1>3. TypeOK'
  BY <1>1, <1>2 DEF TypeOK, MacFrames
<1>4. /\ Opens' /\ MacServes'
      /\ \A i \in DOMAIN toMac' : IsTraffic(toMac'[i]) => vmUp'[toMac'[i].id] # "none"
  BY <1>2, MacKeeps
<1>5. UplinksStarted'
  BY <1>1, <1>2, <1>4 DEF UplinksStarted
<1>6. Waits' /\ OvershootBounded' /\ AnswersFirst' /\ VmServes'
  BY <1>1, <1>2, Kept
<1> QED
  BY <1>3, <1>4, <1>5, <1>6

(* DATA and QUOTA change nothing but the channel. *)
LEMMA StepDataAtMac ==
    ASSUME Ind, OnDataAtMac \/ OnQuota
    PROVE  Ind'
<1> USE DEF Ind
<1>1. PICK type \in {"data", "quota"} :
         MacFrame(type) /\ (\/ UNCHANGED <<conn, toVm, macVars, why>>
                            \/ MacExits("macBadConn") \/ MacExits("write"))
  BY DEF OnDataAtMac, OnQuota
<1>2. CASE MacExits("macBadConn") \/ MacExits("write")
  BY <1>1, <1>2, StepMacExits
<1>3. CASE UNCHANGED <<conn, toVm, macVars, why>>
  <2>1. /\ toMac' \in Seq(MacFrames)
        /\ UNCHANGED <<maxConns, vmNext, vmOpen, waiting, writers, vmClosed, stop, reader, acceptor, vmUp, tx, sent>>
    BY <1>1, MacTakes
  <2>2. UNCHANGED <<conn, toVm, macNext, macOpen, macWriters, macClosed, macUp, macRun>>
    BY <1>3 DEF macVars
  <2>3. TypeOK'
    BY <2>1, <2>2 DEF TypeOK, MacFrames
  <2>4. /\ Opens' /\ MacServes'
        /\ \A i \in DOMAIN toMac' : IsTraffic(toMac'[i]) => vmUp'[toMac'[i].id] # "none"
    BY <1>1, <2>2, MacKeeps
  <2>5. UplinksStarted'
    BY <2>1, <2>2, <2>4 DEF UplinksStarted
  <2>6. Waits' /\ OvershootBounded' /\ AnswersFirst' /\ VmServes'
    BY <2>1, <2>2, Kept
  <2> QED
    BY <2>3, <2>4, <2>5, <2>6
<1> QED
  BY <1>1, <1>2, <1>3

(* CLOSE: below the pause line it is the last frame for its id, whose      *)
(* uplink has ended.                                                       *)
LEMMA StepCloseAtMac ==
    ASSUME Ind, OnCloseAtMac
    PROVE  Ind'
<1> USE DEF Ind
<1> DEFINE h == Head(toMac).id
<1>1. MacFrame("close")
  BY DEF OnCloseAtMac
<1>2. CASE h \notin macOpen
  <2>1. MacExits("macBadConn")
    BY <1>2 DEF OnCloseAtMac
  <2> QED
    BY <1>1, <2>1, StepMacExits
<1>3. CASE h \in macOpen
  <2>1. /\ Popped(toMac, toMac') /\ toMac' \in Seq(MacFrames) /\ toMac[1] = Head(toMac) /\ h \in Ids
        /\ Head(toMac).type = "close"
        /\ UNCHANGED <<maxConns, vmNext, vmOpen, waiting, writers, vmClosed, stop, reader, acceptor, vmUp, tx, sent>>
    BY <1>1, MacTakes
  <2>2. /\ macOpen' = macOpen \ {h} /\ macWriters' = macWriters \ {h} /\ macClosed' \in SUBSET (macClosed \cup {h})
        /\ UNCHANGED <<conn, toVm, macNext, macUp, macRun>>
    BY <1>3 DEF OnCloseAtMac
  <2>3. /\ 1 \in DOMAIN toMac /\ IsTraffic(toMac[1])
        /\ \A i \in DOMAIN toMac' : i \in Nat /\ 1 < i + 1 /\ i + 1 \in DOMAIN toMac /\ toMac'[i] = toMac[i + 1]
        /\ \A i, j \in DOMAIN toMac' : i < j => i + 1 < j + 1
    BY <2>1 DEF Popped, IsTraffic
  <2>4. vmUp[h] # "none"
    BY <2>1, <2>3 DEF UplinksStarted
  <2> HIDE DEF h
  <2>5. TypeOK'
    <3>1. macOpen \in SUBSET Ids /\ macOpen' \in SUBSET macOpen /\ macWriters' \in SUBSET Ids /\ macClosed' \in SUBSET Ids
      BY <2>1, <2>2 DEF TypeOK
    <3>2. Cardinality(macOpen') <= Cardinality(macOpen) /\ Cardinality(macOpen') \in Nat
          /\ Cardinality(macOpen) \in Nat
      BY <3>1, FewerIds
    <3>3. Cardinality(macOpen') <= maxConns
      BY <3>2, IdSets DEF TypeOK
    <3> QED
      BY <2>1, <2>2, <3>1, <3>3 DEF TypeOK, MacFrames
  <2>6. /\ Opens'
        /\ \A i \in DOMAIN toMac' : IsTraffic(toMac'[i]) => vmUp'[toMac'[i].id] # "none"
    BY <1>1, <2>2, MacKeeps
  <2>7. UplinksStarted'
    BY <2>1, <2>2, <2>6 DEF UplinksStarted
  <2>8. Waits' /\ OvershootBounded' /\ AnswersFirst' /\ VmServes'
    BY <2>1, <2>2, Kept
  <2>9. MacServes'
    <3> SUFFICES ASSUME DataAllowed(tx) PROVE MacServes'
      BY <2>1 DEF MacServes
    <3>1. \A i \in DOMAIN toMac' : IsTraffic(toMac'[i]) => toMac'[i].id # h
      BY <2>1, <2>3 DEF MacServes, h
    <3>2. vmUp[h] \notin {"check", "read", "note", "closing"}
      BY <2>1, <2>3 DEF MacServes, h
    <3>3. \A i \in DOMAIN toVm : toVm[i].type = "openOk" => toVm[i].id # h
      BY <2>4 DEF AnswersFirst, IsAnswer
    <3>4. \A id \in Ids : vmUp'[id] \in {"check", "read", "note", "closing"} =>
             /\ id \in macOpen'
             /\ \A i \in DOMAIN toMac' : toMac'[i].type = "close" => toMac'[i].id # id
      BY <2>1, <2>2, <2>3, <3>2 DEF MacServes
    <3>5. \A i \in DOMAIN toVm' : toVm'[i].type = "openOk" => toVm'[i].id \in macOpen'
      BY <2>2, <3>3 DEF MacServes
    <3>6. \A j \in DOMAIN toMac' : IsTraffic(toMac'[j]) =>
             /\ toMac'[j].id \in macOpen'
             /\ \A i \in DOMAIN toMac' : i < j /\ toMac'[i].type = "close" => toMac'[i].id # toMac'[j].id
      BY <2>2, <2>3, <3>1 DEF MacServes
    <3> QED
      BY <3>4, <3>5, <3>6 DEF MacServes
  <2> QED
    BY <2>5, <2>6, <2>7, <2>8, <2>9
<1> QED
  BY <1>2, <1>3

(* IdWindow::admit finds the id it expects. *)
LEMMA OpenIsNext ==
    ASSUME Ind, MacFrame("open")
    PROVE  /\ Head(toMac).id = macNext /\ macNext < vmNext /\ macNext \in Ids
           /\ \A i \in DOMAIN toMac' : IsOpen(toMac'[i]) => toMac'[i].id > macNext
<1>1. /\ 1 \in DOMAIN toMac /\ toMac[1] = Head(toMac) /\ toMac[1].type = "open" /\ toMac[1].id \in Ids
      /\ conn = "up"
      /\ \A i \in DOMAIN toMac' : i \in Nat /\ 1 < i + 1 /\ i + 1 \in DOMAIN toMac /\ toMac'[i] = toMac[i + 1]
  BY MacTakes DEF Popped
<1>2. macNext <= toMac[1].id /\ toMac[1].id < vmNext
  BY <1>1 DEF Ind, Opens, IsOpen
<1>3. macNext \in Nat /\ vmNext \in Nat /\ toMac[1].id \in Nat /\ macNext >= 1
  <2>1. macNext \in Nat /\ vmNext \in Nat /\ macNext >= 1
    BY IdSets DEF Ind, TypeOK
  <2> QED
    BY <1>1, <2>1, IdSets
<1>4. macNext \in Ids /\ macNext < vmNext
  BY <1>1, <1>2, <1>3, IdSets DEF Ids
<1>5. PICK i \in DOMAIN toMac : IsOpen(toMac[i]) /\ toMac[i].id = macNext
  BY <1>1, <1>3, <1>4 DEF Ind, Opens
<1>6. i = 1
  <2> SUFFICES ASSUME i # 1 PROVE FALSE
    OBVIOUS
  <2>1. 1 < i
    BY FrameTypes DEF Ind
  <2>2. toMac[1].id < macNext
    BY <1>1, <1>5, <2>1 DEF Ind, Opens, IsOpen
  <2> QED
    BY <1>2, <1>3, <2>2
<1>7. toMac[1].id = macNext
  BY <1>5, <1>6
<1>8. ASSUME NEW k \in DOMAIN toMac', IsOpen(toMac'[k])
      PROVE  toMac'[k].id > macNext
  <2>1. k + 1 \in DOMAIN toMac /\ 1 < k + 1 /\ toMac'[k] = toMac[k + 1]
    BY <1>1
  <2>2. toMac[1].id < toMac[k + 1].id
    BY <1>1, <1>8, <2>1 DEF Ind, Opens, IsOpen
  <2>3. toMac[k + 1].id \in Nat
    BY <1>8, <2>1, FrameTypes DEF Ind, IsOpen
  <2> QED
    BY <1>3, <1>7, <2>1, <2>2, <2>3
<1> QED
  BY <1>1, <1>4, <1>7, <1>8

(* open_on_mac: an answer for the id that was announced next. *)
LEMMA StepOpen ==
    ASSUME Ind, OnOpen
    PROVE  Ind'
<1> USE DEF Ind
<1> DEFINE n == macNext
<1>1. MacFrame("open")
  BY DEF OnOpen
<1>2. /\ Head(toMac).id = n /\ n < vmNext /\ n \in Ids /\ n \in Nat /\ vmNext \in Nat
      /\ \A i \in DOMAIN toMac' : IsOpen(toMac'[i]) => toMac'[i].id > n
  <2>1. vmNext \in Nat
    BY IdSets DEF TypeOK
  <2> QED
    BY <1>1, <2>1, OpenIsNext, IdSets
<1>3. CASE MacExits("write")
  BY <1>1, <1>3, StepMacExits
<1>4. CASE /\ macNext' = n + 1 /\ (Refused(n) \/ (~AtCap /\ Dialled(n)))
           /\ UNCHANGED <<conn, macClosed, macRun, why>>
  <2>1. /\ Popped(toMac, toMac') /\ toMac' \in Seq(MacFrames) /\ toMac[1] = Head(toMac) /\ conn = "up"
        /\ Head(toMac).type = "open"
        /\ UNCHANGED <<maxConns, vmNext, vmOpen, waiting, writers, vmClosed, stop, reader, acceptor, vmUp, tx, sent>>
    BY <1>1, MacTakes
  <2>2. macUp[n] = "none" /\ vmUp[n] = "none"
    BY <1>2 DEF UplinksStarted
  <2>3. PICK f \in VmFrames :
           /\ toVm' = Append(toVm, f) /\ f.id = n
           /\ macUp' \in [Ids -> {"none", "check", "read", "done"}]
           /\ \A k \in Ids \ {n} : macUp'[k] = macUp[k]
           /\ \/ f.type = "openFail" /\ macUp'[n] = "none" /\ UNCHANGED <<macOpen, macWriters>>
              \/ /\ f = Frame("openOk", n) /\ f.type = "openOk" /\ macUp'[n] = "check" /\ ~AtCap
                 /\ macOpen' = macOpen \cup {n} /\ macWriters' = macWriters \cup {n}
    <3>1. CASE Refused(n)
      <4>1. /\ Frame("openFail", n) \in VmFrames /\ Frame("openFail", n).id = n
            /\ Frame("openFail", n).type = "openFail"
        BY <1>2 DEF VmFrames, Frame
      <4> QED
        BY <1>2, <2>2, <3>1, <4>1 DEF Refused, TypeOK
    <3>2. CASE ~AtCap /\ Dialled(n)
      <4>1. Frame("openOk", n) \in VmFrames /\ Frame("openOk", n).id = n /\ Frame("openOk", n).type = "openOk"
        BY <1>2 DEF VmFrames, Frame
      <4> QED
        BY <1>2, <3>2, <4>1 DEF Dialled, TypeOK
    <3> QED
      BY <1>4, <3>1, <3>2
  <2>4. toVm' \in Seq(VmFrames) /\ Pushed1(toVm, toVm', f)
    BY <2>3, FrameTypes, AppendPushes
  <2>5. /\ \A i \in DOMAIN toVm : i \in Nat /\ i \in DOMAIN toVm' /\ toVm'[i] = toVm[i]
        /\ \A j \in DOMAIN toVm' : j \in Nat /\ (j \in DOMAIN toVm \/
             (toVm'[j] = f /\ (\A i \in DOMAIN toVm : i < j)
                /\ \A k \in DOMAIN toVm' : k \notin DOMAIN toVm => k = j))
        /\ \E j \in DOMAIN toVm' : toVm'[j] = f
    BY <2>4 DEF Pushed1, Pushed
  <2>6. /\ 1 \in DOMAIN toMac /\ toMac[1].type = "open" /\ toMac[1].id = n
        /\ \A i \in DOMAIN toMac : i \in Nat /\ (i = 1 \/ (i - 1 \in DOMAIN toMac' /\ toMac'[i - 1] = toMac[i]))
        /\ \A i \in DOMAIN toMac' : i \in Nat /\ i + 1 \in DOMAIN toMac /\ toMac'[i] = toMac[i + 1]
        /\ \A i, j \in DOMAIN toMac' : i < j => i + 1 < j + 1
    BY <1>2, <2>1 DEF Popped
  <2>7. \A i \in DOMAIN toVm : toVm[i].id < n /\ toVm[i].id # n /\ toVm[i].id \in Ids /\ toVm[i].id \in Nat
    BY <1>2, FrameTypes DEF AnswersFirst
  <2>8. TypeOK'
    <3>1. macNext' \in 1..(MaxOpens + 1)
      BY <1>2, <1>4, IdSets DEF Ids
    <3>2. macOpen' \in SUBSET Ids /\ macWriters' \in SUBSET Ids
      BY <1>2, <2>3 DEF TypeOK
    <3>3. Cardinality(macOpen') <= maxConns
      <4>1. macOpen \in SUBSET Ids /\ maxConns \in Nat /\ Cardinality(macOpen) <= maxConns
        BY IdSets DEF TypeOK
      <4>2. CASE macOpen' = macOpen
        BY <4>1, <4>2
      <4>3. CASE ~AtCap /\ macOpen' = macOpen \cup {n}
        <5>1. Cardinality(macOpen \cup {n}) <= Cardinality(macOpen) + 1 /\ Cardinality(macOpen) \in Nat
              /\ Cardinality(macOpen \cup {n}) \in Nat
          BY <1>2, <4>1, OneMoreId
        <5> QED
          BY <4>1, <4>3, <5>1 DEF AtCap
      <4> QED
        BY <2>3, <4>2, <4>3
    <3> QED
      BY <1>4, <2>1, <2>3, <2>4, <3>1, <3>2, <3>3 DEF TypeOK, MacFrames, VmFrames
  <2>9. Opens'
    <3>1. \A i \in DOMAIN toMac' : IsOpen(toMac'[i]) => macNext' <= toMac'[i].id /\ toMac'[i].id < vmNext
      <4> SUFFICES ASSUME NEW i \in DOMAIN toMac', IsOpen(toMac'[i])
                   PROVE  macNext' <= toMac'[i].id /\ toMac'[i].id < vmNext
        OBVIOUS
      <4>1. toMac'[i].id > n /\ toMac'[i].id < vmNext
        BY <1>2, <2>1, <2>6 DEF Opens
      <4>2. toMac'[i].id \in Nat
        BY <2>6, FrameTypes DEF IsOpen
      <4> QED
        BY <1>2, <1>4, <4>1, <4>2
    <3>2. ASSUME NEW k \in Ids, macNext' <= k, k < vmNext
          PROVE  \E i \in DOMAIN toMac' : IsOpen(toMac'[i]) /\ toMac'[i].id = k
      <4>1. n <= k /\ k # n
        BY <1>2, <1>4, <3>2, IdSets
      <4>2. PICK i \in DOMAIN toMac : IsOpen(toMac[i]) /\ toMac[i].id = k
        BY <2>1, <3>2, <4>1 DEF Opens
      <4>3. i # 1
        BY <2>6, <4>1, <4>2
      <4>4. i - 1 \in DOMAIN toMac' /\ toMac'[i - 1] = toMac[i]
        BY <2>6, <4>3
      <4> QED
        BY <4>2, <4>4
    <3>3. \A i, j \in DOMAIN toMac' : i < j /\ IsOpen(toMac'[i]) /\ IsOpen(toMac'[j]) => toMac'[i].id < toMac'[j].id
      BY <2>6 DEF Opens
    <3> QED
      BY <2>1, <3>1, <3>2, <3>3 DEF Opens
  <2>10. Waits'
    <3> SUFFICES ASSUME reader = "run" PROVE Waits'
      BY <2>1 DEF Waits
    <3>1. waiting' \subseteq vmOpen'
      BY <2>1 DEF Waits
    <3>2. ASSUME NEW id \in Ids
          PROVE  id \in waiting' <=> \/ macNext' <= id /\ id < vmNext'
                                     \/ \E i \in DOMAIN toVm' : IsAnswer(toVm'[i]) /\ toVm'[i].id = id
      <4>1. id \in waiting <=> \/ n <= id /\ id < vmNext
                               \/ \E i \in DOMAIN toVm : IsAnswer(toVm[i]) /\ toVm[i].id = id
        BY <2>1 DEF Waits
      <4>2. CASE id = n
        <5>1. \E i \in DOMAIN toVm' : IsAnswer(toVm'[i]) /\ toVm'[i].id = id
          BY <2>3, <2>5, <4>2 DEF IsAnswer
        <5> QED
          BY <1>2, <2>1, <4>1, <4>2, <5>1
      <4>3. CASE id # n
        <5>1. (\E i \in DOMAIN toVm' : IsAnswer(toVm'[i]) /\ toVm'[i].id = id)
              <=> (\E i \in DOMAIN toVm : IsAnswer(toVm[i]) /\ toVm[i].id = id)
          BY <2>3, <2>5, <4>3
        <5>2. macNext' <= id <=> n <= id
          BY <1>2, <1>4, <4>3, IdSets
        <5> QED
          BY <2>1, <4>1, <5>1, <5>2
      <4> QED
        BY <4>2, <4>3
    <3> QED
      BY <3>1, <3>2 DEF Waits
  <2>11. OvershootBounded'
    BY <2>1, Kept
  <2>12. AnswersFirst'
    <3>1. ASSUME NEW i \in DOMAIN toVm'
          PROVE  /\ toVm'[i].id < macNext'
                 /\ toVm'[i].type = "openFail" <=> macUp'[toVm'[i].id] = "none"
                 /\ IsAnswer(toVm'[i]) => vmUp'[toVm'[i].id] = "none"
      <4>1. CASE i \in DOMAIN toVm
        <5>1. toVm'[i] = toVm[i] /\ toVm[i].id \in Ids \ {n} /\ toVm[i].id < n /\ toVm[i].id \in Nat
          BY <2>5, <2>7, <4>1
        <5>2. macUp'[toVm[i].id] = macUp[toVm[i].id]
          BY <2>3, <5>1
        <5>3. toVm[i].id < n + 1
          BY <1>2, <5>1
        <5> QED
          BY <1>4, <2>1, <4>1, <5>1, <5>2, <5>3 DEF AnswersFirst
      <4>2. CASE i \notin DOMAIN toVm
        <5>1. toVm'[i] = f
          BY <2>5, <4>2
        <5> QED
          BY <1>2, <1>4, <2>1, <2>2, <2>3, <5>1
      <4> QED
        BY <4>1, <4>2
    <3>2. ASSUME NEW i \in DOMAIN toVm', NEW j \in DOMAIN toVm', i < j, IsAnswer(toVm'[j])
          PROVE  toVm'[i].id # toVm'[j].id
      <4>1. i \in DOMAIN toVm
        BY <2>5, <3>2
      <4>2. CASE j \in DOMAIN toVm
        BY <2>5, <3>2, <4>1, <4>2 DEF AnswersFirst
      <4>3. CASE j \notin DOMAIN toVm
        BY <2>3, <2>5, <2>7, <4>1, <4>3
      <4> QED
        BY <4>2, <4>3
    <3> QED
      BY <3>1, <3>2 DEF AnswersFirst
  <2>13. UplinksStarted'
    <3>0. macWriters' = macOpen'
      BY <2>3 DEF UplinksStarted
    <3>1. macNext' <= vmNext'
      BY <1>2, <1>4, <2>1
    <3>2. \A i \in DOMAIN toMac' : IsTraffic(toMac'[i]) => vmUp'[toMac'[i].id] # "none"
      BY <2>1, <2>6 DEF UplinksStarted
    <3>3. \A id \in Ids : id < n => id < macNext'
      BY <1>2, <1>4, IdSets
    <3>4. n < macNext'
      BY <1>2, <1>4
    <3> QED
      BY <2>1, <2>3, <3>0, <3>1, <3>2, <3>3, <3>4 DEF UplinksStarted
  <2>14. MacServes'
    <3> SUFFICES ASSUME DataAllowed(tx) PROVE MacServes'
      BY <2>1 DEF MacServes
    <3>1. macOpen \subseteq macOpen' /\ (f.type = "openOk" => n \in macOpen')
      BY <2>3
    <3>2. \A id \in Ids : vmUp'[id] \in {"check", "read", "note", "closing"} =>
             /\ id \in macOpen'
             /\ \A i \in DOMAIN toMac' : toMac'[i].type = "close" => toMac'[i].id # id
      BY <2>1, <2>6, <3>1 DEF MacServes
    <3>3. \A i \in DOMAIN toVm' : toVm'[i].type = "openOk" => toVm'[i].id \in macOpen'
      BY <2>3, <2>5, <3>1 DEF MacServes
    <3>4. \A j \in DOMAIN toMac' : IsTraffic(toMac'[j]) =>
             /\ toMac'[j].id \in macOpen'
             /\ \A i \in DOMAIN toMac' : i < j /\ toMac'[i].type = "close" => toMac'[i].id # toMac'[j].id
      BY <2>6, <3>1 DEF MacServes
    <3> QED
      BY <3>2, <3>3, <3>4 DEF MacServes
  <2>15. VmServes'
    <3>1. ASSUME NEW i \in DOMAIN toVm', toVm'[i].type = "close"
          PROVE  /\ macUp'[toVm'[i].id] = "done"
                 /\ \A j \in DOMAIN toVm' : i < j => toVm'[i].id # toVm'[j].id
      <4>1. i \in DOMAIN toVm /\ toVm'[i] = toVm[i] /\ toVm[i].id \in Ids \ {n}
        BY <2>3, <2>5, <2>7, <3>1
      <4>2. macUp'[toVm'[i].id] = "done"
        BY <2>3, <3>1, <4>1 DEF VmServes
      <4>3. \A j \in DOMAIN toVm' : i < j => toVm'[i].id # toVm'[j].id
        BY <2>3, <2>5, <3>1, <4>1 DEF VmServes
      <4> QED
        BY <4>2, <4>3
    <3>2. ASSUME ~stop, reader = "run", NEW id \in Ids
          PROVE  \/ /\ macUp'[id] \notin {"check", "read"}
                    /\ \A i \in DOMAIN toVm' : IsTraffic(toVm'[i]) => toVm'[i].id # id
                 \/ \E i \in DOMAIN toVm' : toVm'[i] = Frame("openOk", id)
                 \/ vmUp'[id] = "done"
                 \/ id \in vmOpen' \cap writers'
      <4>1. ~IsTraffic(f)
        BY <2>3 DEF IsTraffic
      <4>2. CASE id = n
        <5>1. \A i \in DOMAIN toVm' : IsTraffic(toVm'[i]) => toVm'[i].id # n
          BY <2>5, <2>7, <4>1
        <5> QED
          BY <2>3, <2>5, <4>2, <5>1
      <4>3. CASE id # n
        <5>1. macUp'[id] = macUp[id]
          BY <2>3, <4>3
        <5>2. \A i \in DOMAIN toVm' : IsTraffic(toVm'[i]) => i \in DOMAIN toVm /\ toVm'[i] = toVm[i]
          BY <2>5, <4>1
        <5>3. \A i \in DOMAIN toVm : i \in DOMAIN toVm' /\ toVm'[i] = toVm[i]
          BY <2>5
        <5> QED
          BY <2>1, <3>2, <5>1, <5>2, <5>3 DEF VmServes
      <4> QED
        BY <4>2, <4>3
    <3> QED
      BY <2>1, <3>1, <3>2 DEF VmServes
  <2> QED
    BY <2>8, <2>9, <2>10, <2>11, <2>12, <2>13, <2>14, <2>15
<1> QED
  BY <1>2, <1>3, <1>4 DEF OnOpen

(* mac_uplink: the DATA that the Mac sends for an id, and the CLOSE at the *)
(* end of the file, unless the id was closed.                              *)
LEMMA StepMacSend ==
    ASSUME Ind, NEW id \in Ids, MacData(id) \/ MacEof(id)
    PROVE  Ind'
<1> USE DEF Ind
<1>1. /\ macUp[id] = "read" /\ macUp' \in [Ids -> {"none", "check", "read", "done"}]
      /\ macUp'[id] \in {"check", "done"} /\ \A k \in Ids \ {id} : macUp'[k] = macUp[k]
      /\ sent' \in Nat /\ macClosed' \in SUBSET Ids
      /\ UNCHANGED <<conn, toMac, vmNext, vmOpen, waiting, writers, vmClosed, stop, reader, acceptor, vmUp, tx,
                     maxConns, macNext, macOpen, macWriters, macRun>>
  BY DEF MacData, MacEof, TypeOK, vmVars
<1>2. id < macNext /\ macNext \in Nat /\ id \in Nat
  BY <1>1, IdSets DEF UplinksStarted, TypeOK
<1>3. \/ toVm' = toVm
      \/ \E f \in VmFrames : /\ conn = "up" /\ toVm' \in Seq(VmFrames) /\ Pushed1(toVm, toVm', f) /\ f.id = id
                             /\ f.type = "data" \/ (f.type = "close" /\ macUp'[id] = "done")
  <2>1. /\ Frame("data", id) \in VmFrames /\ Frame("data", id).id = id /\ Frame("data", id).type = "data"
        /\ Frame("close", id) \in VmFrames /\ Frame("close", id).id = id /\ Frame("close", id).type = "close"
    BY DEF VmFrames, Frame
  <2>2. \/ toVm' = toVm
        \/ \E f \in VmFrames : /\ toVm' = Sent(toVm, <<f>>) /\ f.id = id
                               /\ f.type = "data" \/ (f.type = "close" /\ macUp'[id] = "done")
    BY <2>1 DEF MacData, MacEof, TypeOK
  <2> QED
    BY <2>2, SentToVm
<1>4. \A i \in DOMAIN toVm : toVm[i].id \in Ids /\ (macUp'[toVm[i].id] = "none" <=> macUp[toVm[i].id] = "none")
  BY <1>1, FrameTypes
<1>5. \A i \in DOMAIN toVm : toVm[i].type = "close" =>
         toVm[i].id # id /\ macUp'[toVm[i].id] = "done"
  BY <1>1, FrameTypes DEF VmServes
<1>6. Opens' /\ OvershootBounded'
  BY <1>1, Kept
<1>7. UplinksStarted'
  BY <1>1, <1>2 DEF UplinksStarted
<1>8. CASE toVm' = toVm
  <2>1. TypeOK'
    BY <1>1, <1>8 DEF TypeOK
  <2>2. Waits' /\ MacServes'
    BY <1>1, <1>8, Kept
  <2>3. AnswersFirst'
    BY <1>1, <1>4, <1>8 DEF AnswersFirst
  <2>4. VmServes'
    BY <1>1, <1>5, <1>8 DEF VmServes
  <2> QED
    BY <1>6, <1>7, <2>1, <2>2, <2>3, <2>4
<1>9. ASSUME NEW f \in VmFrames, conn = "up", toVm' \in Seq(VmFrames), Pushed1(toVm, toVm', f), f.id = id,
             f.type = "data" \/ (f.type = "close" /\ macUp'[id] = "done")
      PROVE  Ind'
  <2>1. /\ \A i \in DOMAIN toVm : i \in Nat /\ i \in DOMAIN toVm' /\ toVm'[i] = toVm[i]
        /\ \A j \in DOMAIN toVm' : j \in Nat /\ (j \in DOMAIN toVm \/
             (toVm'[j] = f /\ (\A i \in DOMAIN toVm : i < j)
                /\ \A k \in DOMAIN toVm' : k \notin DOMAIN toVm => k = j))
    BY <1>9 DEF Pushed1, Pushed
  <2>2. ~IsAnswer(f) /\ f.type # "openFail" /\ f.type # "openOk"
    BY <1>9 DEF IsAnswer
  <2>3. TypeOK'
    BY <1>1, <1>9 DEF TypeOK, VmFrames
  <2>4. \A i \in DOMAIN toVm' : IsAnswer(toVm'[i]) => i \in DOMAIN toVm /\ toVm'[i] = toVm[i]
    BY <2>1, <2>2
  <2>5. Waits'
    BY <1>1, <2>1, <2>4 DEF Waits
  <2>6. AnswersFirst'
    <3>1. ASSUME NEW i \in DOMAIN toVm'
          PROVE  /\ toVm'[i].id < macNext'
                 /\ toVm'[i].type = "openFail" <=> macUp'[toVm'[i].id] = "none"
                 /\ IsAnswer(toVm'[i]) => vmUp'[toVm'[i].id] = "none"
      <4>1. CASE i \in DOMAIN toVm
        BY <1>1, <1>4, <2>1, <4>1 DEF AnswersFirst
      <4>2. CASE i \notin DOMAIN toVm
        <5>1. toVm'[i] = f
          BY <2>1, <4>2
        <5> QED
          BY <1>1, <1>2, <1>9, <2>2, <5>1
      <4> QED
        BY <4>1, <4>2
    <3>2. \A i, j \in DOMAIN toVm' : i < j /\ IsAnswer(toVm'[j]) => toVm'[i].id # toVm'[j].id
      <4> SUFFICES ASSUME NEW i \in DOMAIN toVm', NEW j \in DOMAIN toVm', i < j, IsAnswer(toVm'[j])
                   PROVE  toVm'[i].id # toVm'[j].id
        OBVIOUS
      <4>1. j \in DOMAIN toVm /\ i \in DOMAIN toVm
        BY <2>1, <2>4
      <4> QED
        BY <2>1, <4>1 DEF AnswersFirst
    <3> QED
      BY <3>1, <3>2 DEF AnswersFirst
  <2>7. MacServes'
    <3>1. \A i \in DOMAIN toVm' : toVm'[i].type = "openOk" => i \in DOMAIN toVm /\ toVm'[i] = toVm[i]
      BY <2>1, <2>2
    <3> QED
      BY <1>1, <3>1 DEF MacServes
  <2>8. VmServes'
    <3>1. ASSUME NEW i \in DOMAIN toVm', toVm'[i].type = "close"
          PROVE  /\ macUp'[toVm'[i].id] = "done"
                 /\ \A j \in DOMAIN toVm' : i < j => toVm'[i].id # toVm'[j].id
      <4>1. CASE i \in DOMAIN toVm
        BY <1>5, <1>9, <2>1, <3>1, <4>1 DEF VmServes
      <4>2. CASE i \notin DOMAIN toVm
        BY <1>9, <2>1, <3>1, <4>2
      <4> QED
        BY <4>1, <4>2
    <3>2. ASSUME ~stop, reader = "run", NEW k \in Ids
          PROVE  \/ /\ macUp'[k] \notin {"check", "read"}
                    /\ \A i \in DOMAIN toVm' : IsTraffic(toVm'[i]) => toVm'[i].id # k
                 \/ \E i \in DOMAIN toVm' : toVm'[i] = Frame("openOk", k)
                 \/ vmUp'[k] = "done"
                 \/ k \in vmOpen' \cap writers'
      <4>1. \/ /\ macUp[k] \notin {"check", "read"}
               /\ \A i \in DOMAIN toVm : IsTraffic(toVm[i]) => toVm[i].id # k
            \/ \E i \in DOMAIN toVm : toVm[i] = Frame("openOk", k)
            \/ vmUp[k] = "done"
            \/ k \in vmOpen \cap writers
        BY <1>9, <3>2 DEF VmServes
      <4>2. CASE \E i \in DOMAIN toVm : toVm[i] = Frame("openOk", k)
        BY <2>1, <4>2
      <4>3. CASE vmUp[k] = "done" \/ k \in vmOpen \cap writers
        BY <1>1, <4>3
      <4>4. CASE macUp[k] \notin {"check", "read"} /\ \A i \in DOMAIN toVm : IsTraffic(toVm[i]) => toVm[i].id # k
        BY <1>1, <1>9, <2>1, <4>4
      <4> QED
        BY <4>1, <4>2, <4>3, <4>4
    <3> QED
      BY <1>1, <3>1, <3>2 DEF VmServes
  <2> QED
    BY <1>6, <1>7, <2>3, <2>5, <2>6, <2>7, <2>8
<1> QED
  BY <1>3, <1>8, <1>9

-----------------------------------------------------------------------------
(* The invariant.                                                          *)

(* Nothing was accepted yet. *)
LEMMA InitInd == Init => Ind
<1> SUFFICES ASSUME Init PROVE Ind
  OBVIOUS
<1>1. TypeOK
  <2>1. Cardinality({}) = 0
    BY FS_EmptySet
  <2>2. maxConns \in Nat /\ MaxOpens \in Nat
    BY IdSets DEF Init
  <2>3. toMac \in Seq(MacFrames) /\ toVm \in Seq(VmFrames)
    BY DEF Init
  <2>4. /\ maxConns \in Caps /\ Cardinality(vmOpen) <= maxConns /\ Cardinality(macOpen) <= maxConns
        /\ vmNext \in 1..(MaxOpens + 1) /\ macNext \in 1..(MaxOpens + 1)
    BY <2>1, <2>2 DEF Init
  <2>5. /\ vmUp \in [Ids -> {"none", "check", "read", "note", "closing", "done"}]
        /\ macUp \in [Ids -> {"none", "check", "read", "done"}]
    BY DEF Init
  <2>6. {vmOpen, waiting, writers, vmClosed, macOpen, macWriters, macClosed} \subseteq SUBSET Ids
    BY DEF Init
  <2>7. /\ conn \in {"up", "shut"} /\ reader \in {"run", "ended", "error"}
        /\ acceptor \in {"check", "accept", "ended"} /\ {tx, sent} \subseteq Nat
    BY DEF Init
  <2>8. {stop, macRun} \subseteq BOOLEAN
    BY Zenon DEF Init
  <2> QED
    BY <2>3, <2>4, <2>5, <2>6, <2>7, <2>8 DEF TypeOK, MacFrames, VmFrames
<1>2. OvershootBounded
  <2>1. Cardinality({id \in Ids : vmUp[id] = "done"}) \in Nat
    BY IdsFinite
  <2> QED
    BY <2>1, IdSets DEF Init, OvershootBounded
<1>3. Opens /\ Waits /\ AnswersFirst /\ MacServes
  BY IdSets DEF Init, Opens, Waits, AnswersFirst, MacServes
<1>4. UplinksStarted /\ VmServes
  BY DEF Init, UplinksStarted, VmServes
<1> QED
  BY <1>1, <1>2, <1>3, <1>4 DEF Ind

(* No step of a thread of either side breaks it. *)
LEMMA NextInd == Ind /\ [Next]_vars => Ind'
<1> SUFFICES ASSUME Ind, [Next]_vars PROVE Ind'
  OBVIOUS
<1>1. CASE AcceptCheck \/ AcceptFull \/ VmStops \/ VmEof \/ VmDead \/ MacDead
  BY <1>1, StepChecks
<1>2. CASE Accept
  BY <1>2, StepAccept
<1>3. CASE VmReads
  BY <1>3, StepOpenOk, StepOpenFail, StepDataAtVm, StepCloseAtVm DEF VmReads
<1>4. CASE MacReads
  BY <1>4, StepOpen, StepDataAtMac, StepCloseAtMac DEF MacReads
<1>5. ASSUME NEW id \in Ids, UpCheck(id) \/ UpData(id) \/ UpNote(id) \/ UpEof(id) \/ UpClose(id)
      PROVE  Ind'
  BY <1>5, StepUpCheck, StepUpSend, StepUpNote
<1>6. ASSUME NEW id \in Ids, MacCheck(id) \/ MacData(id) \/ MacEof(id)
      PROVE  Ind'
  BY <1>6, StepMacCheck, StepMacSend
<1>7. CASE UNCHANGED vars
  <2>1. TypeOK'
    BY <1>7 DEF Ind, TypeOK, vars
  <2>2. (Opens /\ Waits /\ OvershootBounded /\ AnswersFirst /\ UplinksStarted /\ MacServes /\ VmServes)'
    BY <1>7, Kept DEF vars
  <2> QED
    BY <2>1, <2>2 DEF Ind
<1> QED
  BY <1>1, <1>2, <1>3, <1>4, <1>5, <1>6, <1>7 DEF Next

LEMMA IndInvariant == Spec => []Ind
  BY InitInd, NextInd, PTL DEF Spec

(* The OPENs under way, as the set of their ids. *)
LEMMA OpensAreInOrder == Ind => OpensInOrder
<1> SUFFICES ASSUME Ind PROVE OpensInOrder
  OBVIOUS
<1>1. \A i, j \in DOMAIN toMac : i < j /\ IsOpen(toMac[i]) /\ IsOpen(toMac[j]) => toMac[i].id < toMac[j].id
  BY DEF Ind, Opens
<1>2. ASSUME conn = "up"
      PROVE  {f.id : f \in {g \in Range(toMac) : IsOpen(g)}} = macNext..(vmNext - 1)
  <2>1. macNext \in Nat /\ vmNext \in Nat /\ macNext >= 1 /\ vmNext <= MaxOpens + 1 /\ MaxOpens \in Nat
    BY IdSets DEF Ind, TypeOK
  <2>2. ASSUME NEW g \in Range(toMac), IsOpen(g)
        PROVE  g.id \in macNext..(vmNext - 1)
    <3>1. PICK i \in DOMAIN toMac : g = toMac[i]
      BY <2>2 DEF Range
    <3>2. g.id \in Nat
      BY <2>2, <3>1, FrameTypes DEF Ind, IsOpen
    <3>3. macNext <= g.id /\ g.id < vmNext
      BY <1>2, <2>2, <3>1 DEF Ind, Opens
    <3> QED
      BY <2>1, <3>2, <3>3
  <2>3. ASSUME NEW n \in macNext..(vmNext - 1)
        PROVE  \E g \in Range(toMac) : IsOpen(g) /\ g.id = n
    <3>1. n \in Ids /\ macNext <= n /\ n < vmNext
      BY <2>1, <2>3 DEF Ids
    <3>2. PICK i \in DOMAIN toMac : IsOpen(toMac[i]) /\ toMac[i].id = n
      BY <1>2, <3>1 DEF Ind, Opens
    <3> QED
      BY <3>2 DEF Range
  <2> QED
    BY <2>2, <2>3
<1> QED
  BY <1>1, <1>2 DEF OpensInOrder

(* A set without two different members has at most one.                    *)
LEMMA OneMember ==
    ASSUME NEW S, NEW x \in S, \A y \in S : y = x
    PROVE  Cardinality(S) = 1
<1>1. S = {x}
  OBVIOUS
<1> QED
  BY <1>1, FS_Singleton

(* What waits, as a count of frames. *)
LEMMA WaitsForOneAnswer == Ind => WaitsForAnswer
<1> SUFFICES ASSUME Ind, conn = "up", reader = "run", NEW id \in Ids
             PROVE  /\ waiting \subseteq vmOpen
                    /\ Cardinality(OpensFor(id)) + Cardinality(AnswersFor(id)) = IF id \in waiting THEN 1 ELSE 0
  BY DEF WaitsForAnswer, Ind, Waits
<1>1. /\ waiting \subseteq vmOpen
      /\ id \in waiting <=> \/ macNext <= id /\ id < vmNext
                            \/ \E i \in DOMAIN toVm : IsAnswer(toVm[i]) /\ toVm[i].id = id
  BY DEF Ind, Waits
<1>2. macNext \in Nat /\ vmNext \in Nat /\ id \in Nat /\ Cardinality({}) = 0
  BY IdSets, FS_EmptySet DEF Ind, TypeOK
<1>3. \A i \in OpensFor(id) : macNext <= id /\ id < vmNext
  BY DEF OpensFor, Ind, Opens
<1>4. \A i \in AnswersFor(id) : id < macNext
  BY DEF AnswersFor, Ind, AnswersFirst
<1>5. CASE macNext <= id /\ id < vmNext
  <2>1. AnswersFor(id) = {}
    BY <1>2, <1>4, <1>5
  <2>2. PICK i \in OpensFor(id) : TRUE
    BY <1>5 DEF OpensFor, Ind, Opens
  <2>3. \A j \in OpensFor(id) : j = i
    <3> SUFFICES ASSUME NEW j \in OpensFor(id), j # i PROVE FALSE
      OBVIOUS
    <3>1. /\ i \in DOMAIN toMac /\ j \in DOMAIN toMac /\ IsOpen(toMac[i]) /\ IsOpen(toMac[j])
          /\ toMac[i].id = id /\ toMac[j].id = id
      BY <2>2 DEF OpensFor
    <3>2. i < j \/ j < i
      BY <3>1, FrameTypes DEF Ind
    <3>3. id < id
      BY <3>1, <3>2 DEF Ind, Opens
    <3> QED
      BY <1>2, <3>3
  <2>4. Cardinality(OpensFor(id)) = 1
    BY <2>2, <2>3, OneMember
  <2> QED
    BY <1>1, <1>2, <1>5, <2>1, <2>4
<1>6. CASE ~(macNext <= id /\ id < vmNext)
  <2>1. OpensFor(id) = {}
    BY <1>3, <1>6
  <2>2. CASE AnswersFor(id) = {}
    <3>1. id \notin waiting
      BY <1>1, <1>6, <2>2 DEF AnswersFor
    <3> QED
      BY <1>1, <1>2, <2>1, <2>2, <3>1
  <2>3. CASE AnswersFor(id) # {}
    <3>1. PICK i \in AnswersFor(id) : TRUE
      BY <2>3
    <3>2. id \in waiting
      BY <1>1, <3>1 DEF AnswersFor
    <3>3. \A j \in AnswersFor(id) : j = i
      <4> SUFFICES ASSUME NEW j \in AnswersFor(id), j # i PROVE FALSE
        OBVIOUS
      <4>1. /\ i \in DOMAIN toVm /\ j \in DOMAIN toVm /\ IsAnswer(toVm[i]) /\ IsAnswer(toVm[j])
            /\ toVm[i].id = id /\ toVm[j].id = id
        BY <3>1 DEF AnswersFor
      <4>2. i < j \/ j < i
        BY <4>1, FrameTypes DEF Ind
      <4> QED
        BY <4>1, <4>2 DEF Ind, AnswersFirst
    <3>4. Cardinality(AnswersFor(id)) = 1
      BY <3>1, <3>3, OneMember
    <3> QED
      BY <1>1, <1>2, <2>1, <3>2, <3>4
  <2> QED
    BY <2>2, <2>3
<1> QED
  BY <1>5, <1>6

LEMMA IndIsEdgeInv == Ind => EdgeInv
  BY OpensAreInOrder, WaitsForOneAnswer DEF Ind, EdgeInv

(* The two ends of a session agree, whatever the threads of either side    *)
(* interleave: ids are admitted in step, every socket that waits has one   *)
(* answer coming, caps hold on both sides, and past the pause line each    *)
(* uplink forwards one frame at most.                                      *)
THEOREM EdgeInvariant == Spec => []EdgeInv
  BY IndInvariant, IndIsEdgeInv, PTL

(* Meter, uplink and on_vm_frame: what is forwarded past the pause line is *)
(* bounded by the uplinks that were past their check, one frame for each.  *)
(* It is not the one frame that the head of meter.rs promises.             *)
THEOREM OvershootPerUplink == Spec => []OvershootBounded
<1>1. Ind => OvershootBounded
  BY DEF Ind
<1> QED
  BY <1>1, IndInvariant, PTL

-----------------------------------------------------------------------------
(* What errors tell of their cause.                                        *)

(* A read of the Mac finds the id it names, below the pause line. *)
LEMMA MacFindsId ==
    ASSUME Ind, DataAllowed(tx), NEW type \in {"data", "close"}, MacFrame(type)
    PROVE  Head(toMac).id \in macOpen /\ Head(toMac).id \in macWriters
<1>1. 1 \in DOMAIN toMac /\ toMac[1] = Head(toMac) /\ IsTraffic(toMac[1])
  BY MacTakes DEF Popped, IsTraffic
<1> QED
  BY <1>1 DEF Ind, MacServes, UplinksStarted

LEMMA MacErrors == Ind /\ MacErrsAfterPause /\ [Next]_vars => MacErrsAfterPause'
<1> SUFFICES ASSUME Ind, MacErrsAfterPause, [Next]_vars, why' = "macBadConn", DataAllowed(tx')
             PROVE  FALSE
  BY DEF MacErrsAfterPause
<1>1. tx \in Nat /\ PauseAt \in Nat
  BY IdSets DEF Ind, TypeOK
<1>2. tx' = tx \/ tx' = tx + 1
  <2>1. ASSUME NEW id \in Ids, UpNote(id) PROVE tx' = tx + 1
    BY <2>1 DEF UpNote, NoteTx
  <2>2. CASE OnDataAtVm
    BY <2>2 DEF OnDataAtVm, NoteTx, VmFails
  <2>3. CASE AcceptCheck \/ AcceptFull \/ Accept \/ VmStops \/ VmEof \/ VmDead
    BY <2>3 DEF AcceptCheck, AcceptFull, Accept, VmStops, VmEof, VmDead
  <2>4. CASE OnOpenOk \/ OnOpenFail \/ OnCloseAtVm
    BY <2>4 DEF OnOpenOk, OnOpenFail, OnCloseAtVm, VmFails
  <2>5. CASE MacReads \/ MacDead
    BY <2>5 DEF MacReads, OnOpen, OnDataAtMac, OnCloseAtMac, OnQuota, MacDead, MacFrame, vmVars
  <2>6. ASSUME NEW id \in Ids, UpCheck(id) \/ UpData(id) \/ UpEof(id) \/ UpClose(id) PROVE tx' = tx
    BY <2>6 DEF UpCheck, UpData, UpEof, UpClose
  <2>7. ASSUME NEW id \in Ids, MacCheck(id) \/ MacData(id) \/ MacEof(id) PROVE tx' = tx
    BY <2>7 DEF MacCheck, MacData, MacEof, vmVars
  <2>8. CASE UNCHANGED vars
    BY <2>8 DEF vars
  <2> QED
    BY <2>1, <2>2, <2>3, <2>4, <2>5, <2>6, <2>7, <2>8 DEF Next, VmReads
<1>3. DataAllowed(tx)
  BY <1>1, <1>2 DEF DataAllowed
<1>4. why # "macBadConn"
  BY <1>3 DEF MacErrsAfterPause
<1>5. CASE OnOpen
  <2>1. MacFrame("open")
    BY <1>5 DEF OnOpen
  <2>2. Head(toMac).id = macNext
    BY <2>1, OpenIsNext
  <2> QED
    BY <1>4, <1>5, <2>2 DEF OnOpen, MacExits, Blame
<1>6. CASE OnDataAtMac
  <2>1. MacFrame("data")
    BY <1>6 DEF OnDataAtMac
  <2>2. Head(toMac).id \in macOpen /\ Head(toMac).id \in macWriters
    BY <1>3, <2>1, MacFindsId
  <2> QED
    BY <1>4, <1>6, <2>2 DEF OnDataAtMac, MacExits, Blame
<1>7. CASE OnCloseAtMac
  <2>1. MacFrame("close")
    BY <1>7 DEF OnCloseAtMac
  <2>2. Head(toMac).id \in macOpen
    BY <1>3, <2>1, MacFindsId
  <2> QED
    BY <1>4, <1>7, <2>2 DEF OnCloseAtMac
<1>8. CASE VmReads
  BY <1>4, <1>8 DEF VmReads, OnOpenOk, OnOpenFail, OnDataAtVm, OnCloseAtVm, VmFails, Blame
<1>9. CASE OnQuota \/ MacDead \/ AcceptCheck \/ AcceptFull \/ Accept \/ VmStops \/ VmEof \/ VmDead
  BY <1>4, <1>9 DEF OnQuota, MacDead, AcceptCheck, AcceptFull, Accept, VmStops, VmEof, VmDead
<1>10. ASSUME NEW id \in Ids, UpCheck(id) \/ UpData(id) \/ UpNote(id) \/ UpEof(id) \/ UpClose(id) PROVE FALSE
  BY <1>4, <1>10 DEF UpCheck, UpData, UpNote, UpEof, UpClose
<1>11. ASSUME NEW id \in Ids, MacCheck(id) \/ MacData(id) \/ MacEof(id) PROVE FALSE
  BY <1>4, <1>11 DEF MacCheck, MacData, MacEof
<1>12. CASE UNCHANGED vars
  BY <1>4, <1>12 DEF vars
<1> QED
  BY <1>5, <1>6, <1>7, <1>8, <1>9, <1>10, <1>11, <1>12 DEF Next, MacReads

(* serve_mac: below the pause line no OPEN, DATA or CLOSE ends the process *)
(* of the Mac, however the uplinks, the accept loop and the end of files   *)
(* interleave.                                                             *)
THEOREM MacErrsAfterPauseInvariant == Spec => []MacErrsAfterPause
<1>1. Init => MacErrsAfterPause
  BY DEF Init, MacErrsAfterPause
<1> QED
  BY <1>1, IndInvariant, MacErrors, PTL DEF Spec

(* The DATA or CLOSE that the VM refuses is for an id it has closed, or    *)
(* the session has paused; an answer is never refused.                     *)
LEMMA VmErrors ==
    Ind /\ [Next]_vars => (why = "none" /\ why' = "vmBadConn" => stop \/ vmUp[Head(toVm).id] = "done")
<1> SUFFICES ASSUME Ind, [Next]_vars, why = "none", why' = "vmBadConn", ~stop
             PROVE  vmUp[Head(toVm).id] = "done"
  BY DEF Ind, TypeOK
<1>1. ASSUME NEW type \in {"data", "close"}, VmFrame(type),
             Head(toVm).id \notin vmOpen \/ Head(toVm).id \notin writers
      PROVE  vmUp[Head(toVm).id] = "done"
  <2>1. /\ 1 \in DOMAIN toVm /\ toVm[1] = Head(toVm) /\ Head(toVm).id \in Ids /\ conn = "up" /\ reader = "run"
        /\ toVm[1].type = type
    BY <1>1, VmTakes DEF Popped
  <2>2. IsTraffic(toVm[1])
    BY <2>1 DEF IsTraffic
  <2>3. ASSUME NEW i \in DOMAIN toVm, toVm[i] = Frame("openOk", Head(toVm).id) PROVE FALSE
    <3>1. toVm[i].type = "openOk" /\ toVm[i].id = toVm[1].id /\ IsAnswer(toVm[i])
      BY <2>1, <2>3 DEF Frame, IsAnswer
    <3>2. i # 1
      BY <2>1, <3>1
    <3>3. 1 < i
      BY <3>2, FrameTypes DEF Ind
    <3> QED
      BY <2>1, <3>1, <3>3 DEF Ind, AnswersFirst
  <2> QED
    BY <1>1, <2>1, <2>2, <2>3 DEF Ind, VmServes
<1>2. CASE OnOpenOk
  <2>1. VmFrame("openOk")
    BY <1>2 DEF OnOpenOk
  <2>2. Head(toVm).id \in vmOpen /\ Head(toVm).id \in waiting
    BY <2>1, AnswerFindsSocket
  <2> QED
    BY <1>2, <2>2 DEF OnOpenOk
<1>3. CASE OnOpenFail
  <2>1. VmFrame("openFail")
    BY <1>3 DEF OnOpenFail
  <2>2. Head(toVm).id \in vmOpen
    BY <2>1, AnswerFindsSocket
  <2> QED
    BY <1>3, <2>2 DEF OnOpenFail
<1>4. CASE OnDataAtVm
  <2>1. VmFrame("data")
    BY <1>4 DEF OnDataAtVm
  <2>2. Head(toVm).id \notin vmOpen \/ Head(toVm).id \notin writers
    BY <1>4 DEF OnDataAtVm, VmFails, Blame
  <2> QED
    BY <1>1, <2>1, <2>2
<1>5. CASE OnCloseAtVm
  <2>1. VmFrame("close")
    BY <1>5 DEF OnCloseAtVm
  <2>2. Head(toVm).id \notin vmOpen
    BY <1>5 DEF OnCloseAtVm
  <2> QED
    BY <1>1, <2>1, <2>2
<1>6. CASE MacReads
  BY <1>6 DEF MacReads, OnOpen, OnDataAtMac, OnCloseAtMac, OnQuota, MacExits, Blame
<1>7. CASE MacDead \/ AcceptCheck \/ AcceptFull \/ Accept \/ VmStops \/ VmEof \/ VmDead
  BY <1>7 DEF MacDead, AcceptCheck, AcceptFull, Accept, VmStops, VmEof, VmDead
<1>8. ASSUME NEW id \in Ids, UpCheck(id) \/ UpData(id) \/ UpNote(id) \/ UpEof(id) \/ UpClose(id)
      PROVE  FALSE
  BY <1>8 DEF UpCheck, UpData, UpNote, UpEof, UpClose
<1>9. ASSUME NEW id \in Ids, MacCheck(id) \/ MacData(id) \/ MacEof(id) PROVE FALSE
  BY <1>9 DEF MacCheck, MacData, MacEof
<1>10. CASE UNCHANGED vars
  BY <1>10 DEF vars
<1> QED
  BY <1>2, <1>3, <1>4, <1>5, <1>6, <1>7, <1>8, <1>9, <1>10 DEF Next, VmReads

(* on_vm_frame: before the pause the VM refuses a frame of the Mac only    *)
(* for a connection whose uplink on the VM has ended.                      *)
THEOREM VmErrsOnCrossingHolds == Spec => VmErrsOnCrossing
<1>1. Ind /\ [Next]_vars => [why = "none" /\ why' = "vmBadConn" => stop \/ vmUp[Head(toVm).id] = "done"]_vars
  BY VmErrors
<1> QED
  BY <1>1, IndInvariant, PTL DEF Spec, VmErrsOnCrossing

=============================================================================
