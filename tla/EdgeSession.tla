----------------------------- MODULE EdgeSession -----------------------------
(***************************************************************************)
(* One control session of the edge tunnel, from the moment the VM is       *)
(* forwarding: the VM accepts public connections, gives each an id and     *)
(* announces it; the Mac dials the mail server for it; then both copy      *)
(* bytes until one side sees its socket end.  Each side has a reader of    *)
(* the control connection and one uplink thread per connection, and the VM *)
(* also the accept loop.  The threads of the VM share ids, `waiting`,      *)
(* `writers`, the meter and `stop`, each under a lock of its own.          *)
(*                                                                         *)
(* A DATA frame counts one towards the pause line.  Pings and pongs are    *)
(* left out but for what they are for: VmDead and MacDead end a session    *)
(* in which no PONG was taken for PONG_TIMEOUT, be it that the network is  *)
(* gone, that a reader has ended, or that it is blocked on a slow socket.  *)
(***************************************************************************)
EXTENDS Integers, Sequences, FiniteSets, SequencesExt

CONSTANTS
    Caps,       \* values of MAX_CONNS to consider
    PauseAt,    \* PAUSE_AT, in DATA frames
    Window,     \* frames that fit into the control connection, each way
    Resets,     \* whether a write to a public or loopback socket may fail
    MaxOpens,   \* bound: connections accepted
    MaxData     \* bound: DATA frames sent by both sides

ASSUME EdgeAssumptions ==
    /\ Caps \subseteq Nat \ {0} /\ Caps # {}
    /\ {PauseAt, Window, MaxOpens} \subseteq Nat \ {0}
    /\ MaxData \in Nat
    /\ Resets \in BOOLEAN

Ids == 1..MaxOpens

VARIABLES
    maxConns,   \* MAX_CONNS, fixed
    conn,       \* the control connection: up or shut
    toMac,      \* frames under way to the Mac
    toVm,       \* frames under way to the VM
    vmNext,     \* VM: IdWindow.next
    vmOpen,     \* VM: IdWindow.open
    waiting,    \* VM: accepted sockets that wait for OPEN_OK
    writers,    \* VM: sockets that are spliced
    vmClosed,   \* VM: ids whose LiveSock.closed is set
    stop,       \* VM: Shared.stop
    reader,     \* VM: the session thread: run, ended or error
    acceptor,   \* VM: the accept loop: check, accept or ended
    vmUp,       \* VM: the uplink of each id: none, check, read, note, closing, done
    tx,         \* VM: Meter.tx_bytes
    macNext, macOpen, macWriters, macClosed,  \* the same on the Mac
    macUp,      \* Mac: the uplink of each id: none, check, read, done
    macRun,     \* the Mac process runs
    why,        \* history: what first went wrong in the session
    sent        \* history: DATA frames sent

(* What the steps of the other side leave alone; maxConns never changes.   *)
vmVars == <<maxConns, vmNext, vmOpen, waiting, writers, vmClosed, stop, reader, acceptor, vmUp, tx>>
macVars == <<maxConns, macNext, macOpen, macWriters, macClosed, macUp, macRun>>
vars == <<maxConns, conn, toMac, toVm, vmNext, vmOpen, waiting, writers, vmClosed, stop, reader, acceptor,
          vmUp, tx, macNext, macOpen, macWriters, macClosed, macUp, macRun, why, sent>>

Frame(type, id) == [type |-> type, id |-> id]
Quota == Frame("quota", 0)

Init ==
    /\ maxConns \in Caps
    /\ conn = "up" /\ toMac = <<>> /\ toVm = <<>>
    /\ vmNext = 1 /\ vmOpen = {} /\ waiting = {} /\ writers = {} /\ vmClosed = {}
    /\ stop = FALSE /\ reader = "run" /\ acceptor = "check"
    /\ vmUp = [id \in Ids |-> "none"] /\ tx = 0
    /\ macNext = 1 /\ macOpen = {} /\ macWriters = {} /\ macClosed = {}
    /\ macUp = [id \in Ids |-> "none"] /\ macRun = TRUE
    /\ why = "none" /\ sent = 0

(* Ctrl::send holds the mutex of the writer over a blocking write_all.     *)
(* While the connection is full in one direction its sender is blocked     *)
(* with the mutex, and with it everybody else who needs it on that side:   *)
(* ping, Ctrl::shutdown, and the reader when it answers.                   *)
MayLock(channel) == conn = "shut" \/ Len(channel) < Window

(* Ctrl::send: writes reach the peer while the connection is up.  A frame  *)
(* is under way as soon as it is handed to Ctrl::send: past the window its *)
(* sender is still blocked there.  That its thread may take its next step  *)
(* before it returns only adds behaviours; a send that fails in the end    *)
(* is one that happens after the connection was shut.                      *)
Sent(channel, frames) == IF conn = "up" THEN channel \o frames ELSE channel

(* Meter::data_allowed *)
DataAllowed(n) == n < PauseAt

Blame(cause) == why' = IF why = "none" THEN cause ELSE why

-----------------------------------------------------------------------------
(* The accept loop of the VM.                                              *)

AcceptCheck ==
    /\ acceptor = "check"
    /\ acceptor' = IF stop \/ ~DataAllowed(tx) THEN "ended" ELSE "accept"
    /\ UNCHANGED <<conn, toMac, toVm, vmNext, vmOpen, waiting, writers, vmClosed, stop, reader,
                   vmUp, tx, macVars, why, sent>>

(* IdWindow::alloc: at the cap the public socket is dropped.               *)
AcceptFull ==
    /\ acceptor = "accept" /\ Cardinality(vmOpen) >= maxConns
    /\ acceptor' = "check"
    /\ UNCHANGED <<conn, toMac, toVm, vmNext, vmOpen, waiting, writers, vmClosed, stop, reader,
                   vmUp, tx, macVars, why, sent>>

Accept ==
    /\ acceptor = "accept" /\ Cardinality(vmOpen) < maxConns
    /\ vmNext \in Ids
    /\ vmNext' = vmNext + 1
    /\ vmOpen' = vmOpen \cup {vmNext}
    /\ waiting' = waiting \cup {vmNext}
    /\ toMac' = Sent(toMac, <<Frame("open", vmNext)>>)
    /\ acceptor' = IF conn = "up" THEN "check" ELSE "ended"
    /\ UNCHANGED <<conn, toVm, writers, vmClosed, stop, reader, vmUp, tx, macVars, why, sent>>

-----------------------------------------------------------------------------
(* pause: stop, retire every spliced socket whose id is open, tell the Mac.*)
Pause ==
    LET live == writers \cap vmOpen
        closes == [i \in 1..Cardinality(live \ vmClosed) |->
                      Frame("close", SetToSeq(live \ vmClosed)[i])]
    IN IF stop THEN UNCHANGED <<toMac, vmOpen, writers, vmClosed, stop>>
       ELSE /\ stop' = TRUE
            /\ vmOpen' = vmOpen \ live /\ writers' = writers \ live
            /\ vmClosed' = vmClosed \cup live
            /\ toMac' = Sent(toMac, Append(closes, Quota))

(* Meter::note_tx, and pause when the line is reached.                     *)
NoteTx ==
    /\ tx' = tx + 1
    /\ IF DataAllowed(tx + 1) THEN UNCHANGED <<toMac, vmOpen, writers, vmClosed, stop>> ELSE Pause

(* uplink: copy the public socket `id` to the Mac.                         *)
UpCheck(id) ==
    /\ vmUp[id] = "check"
    /\ vmUp' = [vmUp EXCEPT ![id] = IF stop \/ id \in vmClosed \/ ~DataAllowed(tx)
                                    THEN "done" ELSE "read"]
    /\ UNCHANGED <<conn, toMac, toVm, vmNext, vmOpen, waiting, writers, vmClosed, stop, reader,
                   acceptor, tx, macVars, why, sent>>

UpData(id) ==
    /\ vmUp[id] = "read" /\ sent < MaxData
    /\ sent' = sent + 1
    /\ toMac' = Sent(toMac, <<Frame("data", id)>>)
    /\ vmUp' = [vmUp EXCEPT ![id] = IF conn = "up" THEN "note" ELSE "done"]
    /\ UNCHANGED <<conn, toVm, vmNext, vmOpen, waiting, writers, vmClosed, stop, reader,
                   acceptor, tx, macVars, why>>

UpNote(id) ==
    /\ vmUp[id] = "note"
    /\ NoteTx
    /\ vmUp' = [vmUp EXCEPT ![id] = IF DataAllowed(tx + 1) THEN "check" ELSE "done"]
    /\ UNCHANGED <<conn, toVm, vmNext, waiting, reader, acceptor, macVars, why, sent>>

UpEof(id) ==
    /\ vmUp[id] = "read"
    /\ vmClosed' = vmClosed \cup {id}
    /\ vmUp' = [vmUp EXCEPT ![id] = IF id \in vmClosed THEN "done" ELSE "closing"]
    /\ UNCHANGED <<conn, toMac, toVm, vmNext, vmOpen, waiting, writers, stop, reader, acceptor,
                   tx, macVars, why, sent>>

UpClose(id) ==
    /\ vmUp[id] = "closing"
    /\ vmOpen' = vmOpen \ {id}
    /\ toMac' = Sent(toMac, <<Frame("close", id)>>)
    /\ vmUp' = [vmUp EXCEPT ![id] = "done"]
    /\ UNCHANGED <<conn, toVm, vmNext, waiting, writers, vmClosed, stop, reader, acceptor, tx,
                   macVars, why, sent>>

-----------------------------------------------------------------------------
(* The session thread of the VM: on_vm_frame.  Frames of one read are      *)
(* handled even when `stop` was set meanwhile.  An error leaves the loop   *)
(* without setting `stop`; `previous` keeps the connection open.           *)
VmFrame(type) ==
    /\ reader = "run" /\ conn = "up"
    /\ toVm # <<>> /\ Head(toVm).type = type
    /\ toVm' = Tail(toVm)
    /\ UNCHANGED <<conn, vmNext, acceptor, macVars, sent>>

VmFails(cause) ==
    /\ reader' = "error"
    /\ Blame(cause)
    /\ UNCHANGED <<toMac, vmOpen, waiting, writers, vmClosed, stop, vmUp, tx>>

OnOpenOk ==
    LET id == Head(toVm).id IN
    /\ VmFrame("openOk")
    /\ IF id \notin vmOpen \/ id \notin waiting THEN VmFails("vmBadConn")
       ELSE /\ waiting' = waiting \ {id}
            /\ writers' = writers \cup {id}
            /\ vmUp' = [vmUp EXCEPT ![id] = "check"]
            /\ UNCHANGED <<toMac, vmOpen, vmClosed, stop, reader, tx, why>>

OnOpenFail ==
    LET id == Head(toVm).id IN
    /\ VmFrame("openFail")
    /\ IF id \notin vmOpen THEN VmFails("vmBadConn")
       ELSE /\ vmOpen' = vmOpen \ {id} /\ waiting' = waiting \ {id}
            /\ UNCHANGED <<toMac, writers, vmClosed, stop, reader, vmUp, tx, why>>

OnDataAtVm ==
    LET id == Head(toVm).id IN
    /\ VmFrame("data")
    /\ IF ~DataAllowed(tx) THEN Pause /\ UNCHANGED <<waiting, reader, vmUp, tx, why>>
       ELSE IF id \notin vmOpen \/ id \notin writers THEN VmFails("vmBadConn")
       ELSE \/ NoteTx /\ UNCHANGED <<waiting, reader, vmUp, why>>
            \/ Resets /\ VmFails("write")

(* Mutant: a CLOSE is answered with a CLOSE. *)
OnCloseAtVm_Reply ==
    LET id == Head(toVm).id IN
    /\ VmFrame("close")
    /\ IF id \notin vmOpen THEN VmFails("vmBadConn")
       ELSE /\ vmOpen' = vmOpen \ {id}
            /\ writers' = writers \ {id} /\ waiting' = waiting \ {id}
            /\ vmClosed' = IF id \in writers THEN vmClosed \cup {id} ELSE vmClosed
            /\ toMac' = Sent(toMac, <<Frame("close", id)>>)
            /\ UNCHANGED <<stop, reader, vmUp, tx, why>>

(* retire(.., false)                                                       *)
OnCloseAtVm ==
    LET id == Head(toVm).id IN
    /\ VmFrame("close")
    /\ IF id \notin vmOpen THEN VmFails("vmBadConn")
       ELSE /\ vmOpen' = vmOpen \ {id}
            /\ writers' = writers \ {id} /\ waiting' = waiting \ {id}
            /\ vmClosed' = IF id \in writers THEN vmClosed \cup {id} ELSE vmClosed
            /\ UNCHANGED <<toMac, stop, reader, vmUp, tx, why>>

VmStops ==
    /\ reader = "run" /\ stop
    /\ reader' = "ended"
    /\ UNCHANGED <<conn, toMac, toVm, vmNext, vmOpen, waiting, writers, vmClosed, stop, acceptor,
                   vmUp, tx, macVars, why, sent>>

(* The Mac is gone: end of file, or a reset, which is an error.            *)
VmEof ==
    /\ reader = "run" /\ conn = "shut"
    /\ \/ reader' = "ended" /\ stop' = TRUE
       \/ reader' = "error" /\ UNCHANGED stop
    /\ UNCHANGED <<conn, toMac, toVm, vmNext, vmOpen, waiting, writers, vmClosed, acceptor,
                   vmUp, tx, macVars, why, sent>>

(* The ping thread: no pong for PONG_TIMEOUT.  It ends when `stop` is set. *)
VmDead ==
    /\ ~stop /\ conn = "up" /\ MayLock(toMac)
    /\ stop' = TRUE /\ conn' = "shut"
    /\ UNCHANGED <<toMac, toVm, vmNext, vmOpen, waiting, writers, vmClosed, reader, acceptor,
                   vmUp, tx, macVars, why, sent>>

-----------------------------------------------------------------------------
(* The Mac: serve_mac.  Its errors end the process.                        *)
MacFrame(type) ==
    /\ macRun /\ conn = "up"
    /\ toMac # <<>> /\ Head(toMac).type = type
    /\ toMac' = Tail(toMac)
    /\ UNCHANGED <<vmVars, sent>>

MacExits(cause) ==
    /\ macRun' = FALSE /\ conn' = "shut"
    /\ Blame(cause)
    /\ UNCHANGED <<toVm, macNext, macOpen, macWriters, macClosed, macUp>>

(* open_on_mac answers for a connection; the id was consumed already.      *)
AtCap == Cardinality(macOpen) >= maxConns

Refused(id) ==
    /\ toVm' = Append(toVm, Frame("openFail", id))
    /\ UNCHANGED <<macOpen, macWriters, macUp>>

Dialled(id) ==
    /\ macOpen' = macOpen \cup {id} /\ macWriters' = macWriters \cup {id}
    /\ macUp' = [macUp EXCEPT ![id] = "check"]
    /\ toVm' = Append(toVm, Frame("openOk", id))

(* Mutant: an id refused at the cap may come again. *)
OnOpen_CapNotConsumed ==
    LET id == Head(toMac).id IN
    /\ MacFrame("open")
    /\ IF id # macNext THEN MacExits("macBadConn")
       ELSE /\ macNext' = IF AtCap THEN macNext ELSE macNext + 1
            /\ (Refused(id) \/ (~AtCap /\ Dialled(id)))
            /\ UNCHANGED <<conn, macClosed, macRun, why>>

(* open_on_mac: IdWindow::admit, then the dial and the PROXY header.       *)
OnOpen ==
    LET id == Head(toMac).id IN
    /\ MacFrame("open")
    /\ \/ id # macNext /\ MacExits("macBadConn")
       \/ /\ id = macNext
          /\ macNext' = macNext + 1
          /\ (Refused(id) \/ (~AtCap /\ Dialled(id)))
          /\ UNCHANGED <<conn, macClosed, macRun, why>>
       \/ /\ id = macNext /\ ~AtCap /\ Resets
          /\ MacExits("write")

OnDataAtMac ==
    LET id == Head(toMac).id IN
    /\ MacFrame("data")
    /\ IF id \notin macOpen \/ id \notin macWriters THEN MacExits("macBadConn")
       ELSE \/ UNCHANGED <<conn, toVm, macVars, why>>
            \/ Resets /\ MacExits("write")

OnCloseAtMac ==
    LET id == Head(toMac).id IN
    /\ MacFrame("close")
    /\ IF id \notin macOpen THEN MacExits("macBadConn")
       ELSE /\ macOpen' = macOpen \ {id} /\ macWriters' = macWriters \ {id}
            /\ macClosed' = IF id \in macWriters THEN macClosed \cup {id} ELSE macClosed
            /\ UNCHANGED <<conn, toVm, macNext, macUp, macRun, why>>

OnQuota == MacFrame("quota") /\ UNCHANGED <<conn, toVm, macVars, why>>

(* mac_uplink: copy the loopback socket `id` to the VM.                    *)
MacCheck(id) ==
    /\ macRun /\ macUp[id] = "check"
    /\ macUp' = [macUp EXCEPT ![id] = IF id \in macClosed THEN "done" ELSE "read"]
    /\ UNCHANGED <<conn, toMac, toVm, vmVars, macNext, macOpen, macWriters, macClosed, macRun,
                   why, sent>>

MacData(id) ==
    /\ macRun /\ macUp[id] = "read" /\ sent < MaxData
    /\ sent' = sent + 1
    /\ toVm' = Sent(toVm, <<Frame("data", id)>>)
    /\ macUp' = [macUp EXCEPT ![id] = IF conn = "up" THEN "check" ELSE "done"]
    /\ UNCHANGED <<conn, toMac, vmVars, macNext, macOpen, macWriters, macClosed, macRun, why>>

(* Mutant: the loop reads the end of the file again and closes again. *)
MacEof_Again(id) ==
    /\ macRun /\ macUp[id] = "read" /\ Len(toVm) < 3
    /\ macClosed' = macClosed \cup {id}
    /\ toVm' = Sent(toVm, <<Frame("close", id)>>)
    /\ UNCHANGED <<conn, toMac, vmVars, macNext, macOpen, macWriters, macUp, macRun, why, sent>>

(* The id stays open on the Mac: only a CLOSE of the VM closes it.         *)
MacEof(id) ==
    /\ macRun /\ macUp[id] = "read"
    /\ macClosed' = macClosed \cup {id}
    /\ toVm' = IF id \in macClosed THEN toVm ELSE Sent(toVm, <<Frame("close", id)>>)
    /\ macUp' = [macUp EXCEPT ![id] = "done"]
    /\ UNCHANGED <<conn, toMac, vmVars, macNext, macOpen, macWriters, macRun, why, sent>>

(* Mutant: the Mac does not ping. *)
MacDead_NoPing ==
    /\ macRun /\ conn = "shut"
    /\ macRun' = FALSE
    /\ UNCHANGED <<conn, toMac, toVm, vmVars, macNext, macOpen, macWriters, macClosed, macUp, why, sent>>

(* The VM is gone, or no pong came for PONG_TIMEOUT; the process ends.     *)
MacDead ==
    /\ macRun /\ MayLock(toVm)
    /\ macRun' = FALSE /\ conn' = "shut"
    /\ UNCHANGED <<toMac, toVm, vmVars, macNext, macOpen, macWriters, macClosed, macUp, why, sent>>

-----------------------------------------------------------------------------
VmReads == OnOpenOk \/ OnOpenFail \/ OnDataAtVm \/ OnCloseAtVm
MacReads == OnOpen \/ OnDataAtMac \/ OnCloseAtMac \/ OnQuota

Next ==
    \/ AcceptCheck \/ AcceptFull \/ Accept
    \/ VmReads \/ VmStops \/ VmEof \/ VmDead
    \/ MacReads \/ MacDead
    \/ \E id \in Ids : UpCheck(id) \/ UpData(id) \/ UpNote(id) \/ UpEof(id) \/ UpClose(id)
    \/ \E id \in Ids : MacCheck(id) \/ MacData(id) \/ MacEof(id)

Spec == Init /\ [][Next]_vars

(* The session thread of each side goes on, or is blocked for so long that *)
(* the ping thread declares the tunnel dead; and ping notices a VM that    *)
(* reads no more.  Neither is owed while the senders of the side are       *)
(* blocked.  Sockets and clients owe nothing.                              *)
FairSpec ==
    /\ Spec
    /\ WF_vars(MayLock(toMac) /\ (VmReads \/ VmStops \/ VmEof \/ (toVm # <<>> /\ VmDead)))
    /\ WF_vars(reader # "run" /\ VmDead)
    /\ WF_vars(MayLock(toVm) /\ (MacReads \/ (toMac # <<>> /\ MacDead)))
    /\ WF_vars((conn = "shut" \/ reader # "run") /\ MacDead)

-----------------------------------------------------------------------------
(* Properties.                                                             *)

(* Every variable keeps its type, and neither side has more than MAX_CONNS *)
(* ids open, whatever the other side still counts.                         *)
TypeOK ==
    /\ maxConns \in Caps /\ Cardinality(vmOpen) <= maxConns /\ Cardinality(macOpen) <= maxConns
    /\ conn \in {"up", "shut"}
    /\ vmNext \in 1..(MaxOpens + 1) /\ macNext \in 1..(MaxOpens + 1)
    /\ {vmOpen, waiting, writers, vmClosed, macOpen, macWriters, macClosed} \subseteq SUBSET Ids
    /\ reader \in {"run", "ended", "error"} /\ acceptor \in {"check", "accept", "ended"}
    /\ vmUp \in [Ids -> {"none", "check", "read", "note", "closing", "done"}]
    /\ macUp \in [Ids -> {"none", "check", "read", "done"}]
    /\ {stop, macRun} \subseteq BOOLEAN /\ {tx, sent} \subseteq Nat
    /\ toMac \in Seq([type : {"open", "data", "close"}, id : Ids] \cup {Quota})
    /\ toVm \in Seq([type : {"openOk", "openFail", "data", "close"}, id : Ids])

IsOpen(f) == f.type = "open"
IsAnswer(f) == f.type \in {"openOk", "openFail"}
IsTraffic(f) == f.type \in {"data", "close"}

(* Ids reach the Mac as it expects them: the OPENs under way carry, in     *)
(* order, exactly the ids from the one the Mac will admit next to the last *)
(* one the VM gave out, whatever was closed, refused or capped before.     *)
OpensInOrder ==
    /\ conn = "up" =>
          {f.id : f \in {g \in Range(toMac) : IsOpen(g)}} = macNext..(vmNext - 1)
    /\ \A i, j \in DOMAIN toMac :
          i < j /\ IsOpen(toMac[i]) /\ IsOpen(toMac[j]) => toMac[i].id < toMac[j].id

(* The Mac, whose errors end its process, is sent a frame that names an id *)
(* it does not have open only when the pause line was reached: DATA that   *)
(* was read before the pause and sent after its CLOSE.                     *)
MacErrsAfterPause == why = "macBadConn" => ~DataAllowed(tx)

(* The VM, whose errors end the session of every client, refuses a frame   *)
(* of the Mac only for a connection that the VM has closed meanwhile, at   *)
(* its end of file or by the pause: CLOSEs, or DATA and a CLOSE, that      *)
(* cross.                                                                  *)
VmErrsOnCrossing ==
    [][why = "none" /\ why' = "vmBadConn" => stop \/ vmUp[Head(toVm).id] = "done"]_vars

OpensFor(id) == {i \in DOMAIN toMac : IsOpen(toMac[i]) /\ toMac[i].id = id}
AnswersFor(id) == {i \in DOMAIN toVm : IsAnswer(toVm[i]) /\ toVm[i].id = id}

(* An answer finds its socket: while the session runs, exactly the ids     *)
(* that wait on the VM have one OPEN, OPEN_OK or OPEN_FAIL under way.      *)
WaitsForAnswer ==
    conn = "up" /\ reader = "run" =>
        /\ waiting \subseteq vmOpen
        /\ \A id \in Ids : Cardinality(OpensFor(id)) + Cardinality(AnswersFor(id)) =
                           IF id \in waiting THEN 1 ELSE 0

(* Past the pause line each uplink forwards at most the one frame it had   *)
(* already begun, and ends.                                                *)
OvershootBounded ==
    tx <= PauseAt + Cardinality({id \in Ids : vmUp[id] = "done"})

(* What the Mac says of an id begins with its answer; the uplink of an id  *)
(* starts once: on the Mac with OPEN_OK, on the VM when it reads that.     *)
AnswersFirst ==
    /\ \A i \in DOMAIN toVm :
          /\ toVm[i].id < macNext
          /\ toVm[i].type = "openFail" <=> macUp[toVm[i].id] = "none"
          /\ IsAnswer(toVm[i]) => vmUp[toVm[i].id] = "none"
    /\ \A i, j \in DOMAIN toVm : i < j /\ IsAnswer(toVm[j]) => toVm[i].id # toVm[j].id

(* An uplink runs only for an id that was admitted and waits no more; a    *)
(* socket is spliced, and frames follow its OPEN, when the uplink runs.    *)
UplinksStarted ==
    /\ macNext <= vmNext /\ macWriters = macOpen
    /\ \A i \in DOMAIN toMac : IsTraffic(toMac[i]) => vmUp[toMac[i].id] # "none"
    /\ \A id \in Ids :
          /\ vmUp[id] # "none" => id < macNext /\ id \notin waiting
          /\ id \in writers => vmUp[id] # "none"
          /\ macUp[id] # "none" => id < macNext

(* Below the pause line the Mac has open every id it will hear of, and     *)
(* the CLOSE of an id is the last frame for it.                            *)
MacServes ==
    DataAllowed(tx) =>
        /\ \A id \in Ids : vmUp[id] \in {"check", "read", "note", "closing"} =>
              /\ id \in macOpen
              /\ \A i \in DOMAIN toMac : toMac[i].type = "close" => toMac[i].id # id
        /\ \A i \in DOMAIN toVm : toVm[i].type = "openOk" => toVm[i].id \in macOpen
        /\ \A j \in DOMAIN toMac : IsTraffic(toMac[j]) =>
              /\ toMac[j].id \in macOpen
              /\ \A i \in DOMAIN toMac : i < j /\ toMac[i].type = "close" => toMac[i].id # toMac[j].id

(* The VM hears no more of an id the Mac closed; until the pause, and but  *)
(* for ids it closed itself, it has spliced every id it hears of, or will  *)
(* have when it reads the answer.                                          *)
VmServes ==
    /\ \A i \in DOMAIN toVm : toVm[i].type = "close" =>
          /\ macUp[toVm[i].id] = "done"
          /\ \A j \in DOMAIN toVm : i < j => toVm[i].id # toVm[j].id
    /\ conn = "up" /\ reader = "run" /\ ~stop =>
          \A id \in Ids :
             \/ macUp[id] \notin {"check", "read"}
                   /\ \A i \in DOMAIN toVm : IsTraffic(toVm[i]) => toVm[i].id # id
             \/ \E i \in DOMAIN toVm : toVm[i] = Frame("openOk", id)
             \/ vmUp[id] = "done"
             \/ id \in vmOpen \cap writers

(* Every public connection that was accepted gets its answer from the Mac, *)
(* or the session ends; and when the session thread of the VM has ended,   *)
(* for whatever reason, the control connection is closed in the end.  Only *)
(* senders that are blocked for ever, holding the mutex that ping needs to *)
(* shut the connection, keep a session up that nobody serves.              *)
Settles ==
    <>[](MayLock(toMac) /\ MayLock(toVm)) =>
        /\ \A id \in Ids : id \in waiting ~> (id \notin waiting \/ conn = "shut" \/ reader # "run")
        /\ reader # "run" ~> conn = "shut"

(* Types, and the agreement of the two ends of a session: ids in step,     *)
(* one answer for each socket that waits, and frames that find the         *)
(* connection they name.                                                   *)
EdgeInv ==
    /\ TypeOK /\ OpensInOrder /\ WaitsForAnswer
    /\ AnswersFirst /\ UplinksStarted /\ MacServes /\ VmServes

=============================================================================
