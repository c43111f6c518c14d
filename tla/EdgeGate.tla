------------------------------ MODULE EdgeGate ------------------------------
(***************************************************************************)
(* The VM side of the edge tunnel over its control sessions: serve_vm,     *)
(* which takes each control connection of the Mac in place of the one      *)
(* before; the thread of each session, which answers HELLO and binds the   *)
(* public port; its accept loop, which holds the port; its ping thread;    *)
(* and its meter.  EdgeSession is what happens inside one session.         *)
(***************************************************************************)
EXTENDS Integers, FiniteSets

CONSTANTS
    MaxSessions,  \* bound: control connections
    PauseAt,      \* PAUSE_AT, in DATA frames
    Resets        \* whether the Mac may reset a control connection

ASSUME GateAssumptions ==
    /\ {MaxSessions, PauseAt} \subseteq Nat \ {0}
    /\ Resets \in BOOLEAN

Sessions == 1..MaxSessions

VARIABLES
    current,   \* SessionGate.current
    link,      \* control connection of each session: none, up, silent (nothing comes
               \* from the Mac), stuck (a thread is blocked in Ctrl::send), shut or reset
    thread,    \* vm_session: none, wait, hello, open, paused, ended or failed
    stop,      \* sessions whose Shared.stop is set
    bound,     \* sessions whose accept loop holds the public port
    ping,      \* sessions whose ping thread runs
    spliced,   \* sessions with a public socket spliced
    tx         \* Meter.tx_bytes of each session

vars == <<current, link, thread, stop, bound, ping, spliced, tx>>

Init ==
    /\ current = 0
    /\ link = [g \in Sessions |-> "none"] /\ thread = [g \in Sessions |-> "none"]
    /\ stop = {} /\ bound = {} /\ ping = {} /\ spliced = {}
    /\ \E t \in {0, PauseAt} : tx = [g \in Sessions |-> t]  \* VmOpts.tx_bytes

Reading(g) == thread[g] \in {"wait", "open", "paused"}
DataAllowed(g) == tx[g] < PauseAt

-----------------------------------------------------------------------------
(* serve_vm: SessionGate::admit, and the connection before is shut, through *)
(* a Ctrl whose mutex no session shares: a blocked sender does not matter. *)
Connect ==
    /\ current < MaxSessions
    /\ current' = current + 1
    /\ link' = [g \in Sessions |->
                   IF g = current + 1 THEN "up"
                   ELSE IF g = current /\ link[g] # "reset" THEN "shut" ELSE link[g]]
    /\ thread' = [thread EXCEPT ![current + 1] = "wait"]
    /\ ping' = ping \cup {current + 1}
    /\ UNCHANGED <<stop, bound, spliced, tx>>

(* The Mac leaves: its connection ends, is reset, or nothing comes any     *)
(* more (the address binding of the home router is gone).                  *)
MacLeaves(g) ==
    /\ link[g] = "up"
    /\ \E l \in {"silent", "shut"} \cup (IF Resets THEN {"reset"} ELSE {}) :
          link' = [link EXCEPT ![g] = l]
    /\ UNCHANGED <<current, thread, stop, bound, ping, spliced, tx>>

(* The Mac stops reading, or is gone, and OPEN and DATA frames have filled *)
(* the connection: the next Ctrl::send blocks in write_all with the mutex  *)
(* that every other sender, ping and Ctrl::shutdown of the session need.   *)
(* The Mac may read again, and TCP may give up.                            *)
LinkFills(g) ==
    /\ link[g] \in {"up", "silent"} /\ g \in bound \cup spliced
    /\ link' = [link EXCEPT ![g] = "stuck"]
    /\ UNCHANGED <<current, thread, stop, bound, ping, spliced, tx>>

LinkDrains(g) ==
    /\ link[g] = "stuck"
    /\ \E l \in {"up"} \cup (IF Resets THEN {"reset"} ELSE {}) :
          link' = [link EXCEPT ![g] = l]
    /\ UNCHANGED <<current, thread, stop, bound, ping, spliced, tx>>

(* vm_session has read HELLO: is the session still the current one?        *)
ReadHello(g) ==
    /\ thread[g] = "wait" /\ link[g] = "up"
    /\ thread' = [thread EXCEPT ![g] = IF current = g THEN "hello" ELSE "ended"]
    /\ stop' = IF current = g THEN stop ELSE stop \cup {g}
    /\ UNCHANGED <<current, link, bound, ping, spliced, tx>>

(* Mutant: the public port is bound with SO_REUSEPORT.                     *)
AnswerHello_ReusePort(g) ==
    /\ thread[g] = "hello"
    /\ thread' = [thread EXCEPT ![g] =
                     IF link[g] \notin {"up", "silent"} THEN "failed"
                     ELSE IF ~DataAllowed(g) THEN "paused" ELSE "open"]
    /\ bound' = IF thread'[g] = "open" THEN bound \cup {g} ELSE bound
    /\ UNCHANGED <<current, link, stop, ping, spliced, tx>>

(* answer_hello: the meter starts at --tx-bytes.  An error leaves the      *)
(* session without setting `stop`.                                         *)
AnswerHello(g) ==
    /\ thread[g] = "hello"
    /\ thread' = [thread EXCEPT ![g] =
                     IF link[g] \notin {"up", "silent"} THEN "failed"
                     ELSE IF ~DataAllowed(g) THEN "paused"
                     ELSE IF bound # {} THEN "failed" ELSE "open"]
    /\ bound' = IF thread'[g] = "open" THEN bound \cup {g} ELSE bound
    /\ UNCHANGED <<current, link, stop, ping, spliced, tx>>

(* Mutant: the reader that ends does not set `stop`.                       *)
ReaderEnds_NoStop(g) ==
    /\ Reading(g)
    /\ link[g] \in {"shut", "reset"} \/ (g \in stop /\ link[g] = "up")
    /\ thread' = [thread EXCEPT ![g] = "ended"]
    /\ UNCHANGED <<current, link, stop, bound, ping, spliced, tx>>

(* The reader of a session ends: end of file; `stop` or a later session,   *)
(* which it sees when the next frame has come; or a read error, which does *)
(* not set `stop`.                                                         *)
ReaderEnds(g) ==
    /\ Reading(g)
    /\ \/ /\ link[g] = "shut" \/ (g \in stop /\ link[g] = "up")
          /\ thread' = [thread EXCEPT ![g] = "ended"]
          /\ stop' = stop \cup {g}
       \/ /\ link[g] = "reset"
          /\ thread' = [thread EXCEPT ![g] = "failed"]
          /\ UNCHANGED stop
    /\ UNCHANGED <<current, link, bound, ping, spliced, tx>>

(* A frame that is malformed or that on_vm_frame refuses: vm_session       *)
(* returns the error at once, whatever the state of the connection, and    *)
(* `stop` is not set.                                                      *)
ReaderFails(g) ==
    /\ Reading(g)
    /\ thread' = [thread EXCEPT ![g] = "failed"]
    /\ UNCHANGED <<current, link, stop, bound, ping, spliced, tx>>

(* spawn_ping: ends with `stop`; declares a tunnel dead from which no PONG *)
(* was taken for PONG_TIMEOUT, be it that none came or that nobody reads;  *)
(* and ends, without `stop`, when it cannot write.                         *)
PingEnds(g) ==
    /\ g \in ping /\ link[g] # "stuck"
    /\ \/ g \in stop /\ UNCHANGED <<stop, link>>
       \/ /\ link[g] # "up" \/ thread[g] \in {"ended", "failed"}
          /\ stop' = stop \cup {g}
          /\ link' = [link EXCEPT ![g] = IF @ = "reset" THEN @ ELSE "shut"]
       \/ link[g] \in {"shut", "reset"} /\ UNCHANGED <<stop, link>>
    /\ ping' = ping \ {g}
    /\ UNCHANGED <<current, thread, bound, spliced, tx>>

-----------------------------------------------------------------------------
(* accept_loop: the listener is dropped when the loop ends.                *)
LoopEnds(g) ==
    /\ g \in bound
    /\ g \in stop \/ ~DataAllowed(g)
    /\ bound' = bound \ {g}
    /\ UNCHANGED <<current, link, thread, stop, ping, spliced, tx>>

(* A public client connects.  The loop ends when OPEN cannot be sent.      *)
ClientConnects(g) ==
    /\ g \in bound /\ g \notin stop /\ link[g] # "stuck"
    /\ IF link[g] \in {"up", "silent"}
       THEN spliced' = spliced \cup {g} /\ UNCHANGED bound
       ELSE bound' = bound \ {g} /\ UNCHANGED spliced
    /\ UNCHANGED <<current, link, thread, stop, ping, tx>>

(* A frame is forwarded; at the line `pause` retires the socket.           *)
Forward(g) ==
    /\ g \in spliced /\ g \notin stop /\ DataAllowed(g)
    /\ thread[g] = "open" /\ link[g] = "up"
    /\ tx' = [tx EXCEPT ![g] = @ + 1]
    /\ IF tx[g] + 1 < PauseAt THEN UNCHANGED <<stop, spliced>>
       ELSE stop' = stop \cup {g} /\ spliced' = spliced \ {g}
    /\ UNCHANGED <<current, link, thread, bound, ping>>

(* An uplink sees `stop` only when its client sends or ends.               *)
ClientMoves(g) ==
    /\ g \in spliced /\ (g \in stop \/ link[g] \in {"shut", "reset"})
    /\ spliced' = spliced \ {g}
    /\ UNCHANGED <<current, link, thread, stop, bound, ping, tx>>

Next ==
    \/ Connect
    \/ \E g \in Sessions :
          \/ MacLeaves(g) \/ LinkFills(g) \/ LinkDrains(g)
          \/ ReadHello(g) \/ AnswerHello(g) \/ ReaderEnds(g) \/ ReaderFails(g) \/ PingEnds(g)
          \/ LoopEnds(g) \/ ClientConnects(g) \/ Forward(g) \/ ClientMoves(g)

Spec == Init /\ [][Next]_vars

(* The threads of the VM run, and a Mac whose connection is up says HELLO   *)
(* and pings; clients owe nothing, and nothing is owed by a thread that is *)
(* blocked in Ctrl::send.                                                  *)
FairSpec ==
    /\ Spec
    /\ \A g \in Sessions :
          WF_vars(ReadHello(g)) /\ WF_vars(AnswerHello(g)) /\ WF_vars(ReaderEnds(g))
          /\ WF_vars(PingEnds(g)) /\ WF_vars(link[g] # "stuck" /\ LoopEnds(g))

-----------------------------------------------------------------------------
(* Properties.                                                             *)

(* Every variable keeps its type; only sessions that were admitted have    *)
(* threads.                                                                *)
TypeOK ==
    /\ current \in 0..MaxSessions
    /\ link \in [Sessions -> {"none", "up", "silent", "stuck", "shut", "reset"}]
    /\ thread \in [Sessions -> {"none", "wait", "hello", "open", "paused", "ended", "failed"}]
    /\ {stop, bound, ping, spliced} \subseteq SUBSET (1..current)
    /\ tx \in [Sessions -> Nat]

(* Two sessions never hold the public port.                                *)
OneListener == Cardinality(bound) <= 1

(* Nobody will ever set `stop`: the reader has left with an error, and the *)
(* connection has gone before the ping thread counted to PONG_TIMEOUT.     *)
Abandoned(g) == thread[g] = "failed" /\ link[g] \in {"shut", "reset"}

(* A session that holds the public port is watched: it is stopped, its     *)
(* reader reads, or its reader has failed and the ping thread still counts, *)
(* unless it is abandoned.                                                 *)
Watched ==
    \A g \in bound : g \in stop \/ Reading(g) \/ Abandoned(g)
                        \/ (thread[g] = "failed" /\ g \in ping)

(* What the threads have done for a session: only an admitted session has  *)
(* any; a reader that ends without an error has set `stop`; the port is    *)
(* bound after HELLO and kept only by a session that is open or over; and  *)
(* a ping thread that is gone was stopped or has seen the connection gone. *)
HolderKnown ==
    \A g \in Sessions :
        /\ g > current => thread[g] = "none" /\ link[g] = "none"
        /\ thread[g] = "ended" => g \in stop
        /\ g \in bound => thread[g] \in {"open", "ended", "failed"}
        /\ g <= current => g \in ping \/ g \in stop \/ link[g] \in {"shut", "reset"}

(* The public port is given up once the Mac is gone, another session has   *)
(* taken over or the reader has failed, unless the session is abandoned    *)
(* (then only the next client's OPEN, which fails, frees the port) or a    *)
(* sender is blocked on a connection that is full.                         *)
PortIsFreed ==
    \A g \in Sessions :
        (g \in bound /\ (g < current \/ link[g] # "up" \/ thread[g] = "failed"))
            ~> (g \notin bound \/ Abandoned(g) \/ link[g] = "stuck")

(* Types, one listener at a time, and somebody left who will end it.       *)
GateInv == TypeOK /\ OneListener /\ Watched /\ HolderKnown

=============================================================================
