--------------------------- MODULE EdgeGateProofs ---------------------------
(***************************************************************************)
(* The public port of the relay, for every number of control connections,  *)
(* every cap and every way the Mac may leave: GateInv is inductive.        *)
(***************************************************************************)
EXTENDS EdgeGate, FiniteSetTheorems, TLAPS

USE GateAssumptions

(* A set without two different members has at most one.                    *)
LEMMA AtMostOne ==
    ASSUME NEW S, \A x, y \in S : x = y
    PROVE  IsFiniteSet(S) /\ Cardinality(S) <= 1
<1>1. CASE S = {}
  BY <1>1, FS_EmptySet
<1>2. CASE S # {}
  <2>1. PICK x \in S : TRUE
    BY <1>2
  <2>2. S = {x}
    BY <2>1
  <2>3. IsFiniteSet({x}) /\ Cardinality({x}) = 1
    BY FS_Singleton
  <2> QED
    BY <2>2, <2>3
<1> QED
  BY <1>1, <1>2

(* The listeners are sessions, so they are finitely many, and two of them  *)
(* are one.                                                                *)
LEMMA SameListener ==
    ASSUME TypeOK, OneListener
    PROVE  \A g, h \in bound : g = h
<1> SUFFICES ASSUME NEW g \in bound, NEW h \in bound, g # h PROVE FALSE
  OBVIOUS
<1>1. IsFiniteSet(bound)
  <2>1. current \in Nat /\ bound \in SUBSET (1..current)
    BY DEF TypeOK
  <2>2. IsFiniteSet(1..current)
    BY <2>1, FS_Interval
  <2> QED
    BY <2>1, <2>2, FS_Subset
<1>2. IsFiniteSet(bound \ {g}) /\ Cardinality(bound \ {g}) = Cardinality(bound) - 1
  BY <1>1, FS_RemoveElement
<1>3. Cardinality(bound \ {g}) # 0
  BY <1>2, FS_EmptySet
<1> QED
  BY <1>1, <1>2, <1>3, FS_CardinalityType DEF OneListener

(* Nobody has connected yet.                                               *)
LEMMA InitGateInv == Init => GateInv
<1> SUFFICES ASSUME Init PROVE GateInv
  OBVIOUS
<1>1. TypeOK /\ Watched /\ HolderKnown
  BY DEF Init, TypeOK, Watched, HolderKnown, Sessions
<1>2. OneListener
  BY FS_EmptySet DEF Init, OneListener
<1> QED
  BY <1>1, <1>2 DEF GateInv

(* No step of serve_vm, of a session's threads or of a client leaves two   *)
(* listeners, or one that nobody will end.                                 *)
LEMMA NextGateInv == GateInv /\ [Next]_vars => GateInv'
<1> SUFFICES ASSUME GateInv, [Next]_vars PROVE GateInv'
  OBVIOUS
<1> USE DEF GateInv, TypeOK, Watched, HolderKnown, Sessions, Reading, Abandoned
<1>0. bound' \subseteq bound => OneListener'
  BY SameListener, AtMostOne DEF OneListener
<1>1. CASE Connect
  BY <1>0, <1>1 DEF Connect
<1>2. ASSUME NEW g \in Sessions, MacLeaves(g) PROVE GateInv'
  BY <1>0, <1>2 DEF MacLeaves
<1>3. ASSUME NEW g \in Sessions, ReadHello(g) PROVE GateInv'
  BY <1>0, <1>3 DEF ReadHello
<1>4. ASSUME NEW g \in Sessions, AnswerHello(g) PROVE GateInv'
  <2>1. bound' \subseteq bound \/ (bound = {} /\ bound' = {g})
    BY <1>4 DEF AnswerHello
  <2>2. OneListener'
    BY <1>0, <2>1, AtMostOne DEF OneListener
  <2>3. (TypeOK /\ Watched /\ HolderKnown)'
    BY <1>4 DEF AnswerHello
  <2> QED
    BY <2>2, <2>3
<1>5. ASSUME NEW g \in Sessions, ReaderEnds(g) PROVE GateInv'
  <2>1. thread' \in [Sessions -> {"none", "wait", "hello", "open", "paused", "ended", "failed"}]
    BY <1>5 DEF ReaderEnds
  <2>2. g \in 1..current /\ stop \subseteq stop' /\ stop' \subseteq stop \cup {g}
    BY <1>5 DEF ReaderEnds
  <2>3. UNCHANGED <<current, link, bound, ping, spliced, tx>>
    BY <1>5 DEF ReaderEnds
  <2>4. /\ \A h \in Sessions : h # g => thread'[h] = thread[h]
        /\ \/ thread'[g] = "ended" /\ g \in stop'
           \/ thread'[g] = "failed" /\ link[g] = "reset"
    BY <1>5 DEF ReaderEnds
  <2>5. TypeOK'
    BY <2>1, <2>2, <2>3
  <2>6. Watched'
    BY <2>2, <2>3, <2>4
  <2>7. HolderKnown'
    BY <2>2, <2>3, <2>4, <1>5 DEF ReaderEnds
  <2> QED
    BY <1>0, <2>3, <2>5, <2>6, <2>7
<1>6. ASSUME NEW g \in Sessions, PingEnds(g) PROVE GateInv'
  BY <1>0, <1>6 DEF PingEnds
<1>7. ASSUME NEW g \in Sessions, LoopEnds(g) PROVE GateInv'
  BY <1>0, <1>7 DEF LoopEnds
<1>8. ASSUME NEW g \in Sessions, ClientConnects(g) PROVE GateInv'
  <2>1. bound' \subseteq bound /\ spliced' \subseteq spliced \cup {g} /\ g \in 1..current
    BY <1>8 DEF ClientConnects
  <2>2. UNCHANGED <<current, link, thread, stop, ping, tx>>
    BY <1>8 DEF ClientConnects
  <2> QED
    BY <1>0, <2>1, <2>2
<1>9. ASSUME NEW g \in Sessions, Forward(g) PROVE GateInv'
  <2>1. tx' \in [Sessions -> Nat]
    BY <1>9 DEF Forward
  <2>2. stop \subseteq stop' /\ stop' \subseteq stop \cup {g} /\ spliced' \subseteq spliced
        /\ g \in 1..current
    BY <1>9 DEF Forward
  <2>3. UNCHANGED <<current, link, thread, bound, ping>>
    BY <1>9 DEF Forward
  <2> QED
    BY <1>0, <2>1, <2>2, <2>3
<1>10. ASSUME NEW g \in Sessions, ClientMoves(g) PROVE GateInv'
  BY <1>0, <1>10 DEF ClientMoves
<1>11. ASSUME NEW g \in Sessions, LinkFills(g) \/ LinkDrains(g) PROVE GateInv'
  <2>1. PICK l \in {"stuck", "up", "reset"} : link' = [link EXCEPT ![g] = l]
    BY <1>11 DEF LinkFills, LinkDrains
  <2>2. g \in 1..current /\ link[g] \in {"up", "silent", "stuck"}
    BY <1>11 DEF LinkFills, LinkDrains
  <2>3. UNCHANGED <<current, thread, stop, bound, ping, spliced, tx>>
    BY <1>11 DEF LinkFills, LinkDrains
  <2>4. TypeOK'
    BY <2>1, <2>2, <2>3
  <2>5. Watched' /\ HolderKnown'
    BY <2>1, <2>2, <2>3
  <2> QED
    BY <1>0, <2>3, <2>4, <2>5
<1>12. ASSUME NEW g \in Sessions, ReaderFails(g) PROVE GateInv'
  BY <1>0, <1>12 DEF ReaderFails
<1>13. CASE UNCHANGED vars
  BY <1>0, <1>13 DEF vars
<1> QED
  BY <1>1, <1>2, <1>3, <1>4, <1>5, <1>6, <1>7, <1>8, <1>9, <1>10, <1>11, <1>12, <1>13 DEF Next

(* serve_vm, vm_session and accept_loop: at most one session ever holds the *)
(* public port; one that holds it is stopped, read, or watched by its ping *)
(* thread, unless its reader has failed and its connection is gone.        *)
THEOREM GateInvariant == Spec => []GateInv
  BY InitGateInv, NextGateInv, PTL DEF Spec
=============================================================================
