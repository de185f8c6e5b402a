---------------------------- MODULE TcpBridgeProofs ----------------------------
(***************************************************************************)
(* The sessions of TcpBridge for every number of clients, descriptors and  *)
(* web connections and all delays: what is true whatever else uses the     *)
(* descriptors, and what is true as long as no task of the bridge meets a  *)
(* connection of the web server.  Then what becomes of the serial bytes.   *)
(***************************************************************************)
EXTENDS TcpBridge, RunProofs, FiniteSetTheorems, WellFoundedInduction, TLAPS

(* TypeOK without the bytes.                                               *)
ServerPcs == {"socket", "accept", "backoff", "setup", "create_rx", "create_tx",
              "wait", "stop", "close", "grace", "ended"}
RxPcs     == {"none", "start", "check", "call", "recv", "uart", "exit", "give", "gone"}
TxPcs     == {"none", "start", "check", "read", "poll", "call", "send", "exit", "give", "gone"}
Owners    == Sessions \cup {Nothing, Listener, Http}

ControlTypes ==
    /\ server \in [pc : ServerPcs, t : Nat]
    /\ cur \in 0..MaxSessions
    /\ ctx \in [sock : 0..(Fds - 1), sem : 0..MaxSessions, running : BOOLEAN]
    /\ given \in [Sessions -> 0..2]
    /\ deleted \subseteq Sessions
    /\ rx \in [Sessions -> TaskState(RxPcs)]
    /\ tx \in [Sessions -> TaskState(TxPcs)]
    /\ owner \in [0..(Fds - 1) -> Owners]
    /\ peer \in [Sessions -> {"away", "open", "left", "silent"}]
    /\ arrived \in 0..MaxSessions
    /\ outbox \in [Sessions \cup {Http} -> Nat]
    /\ inbox \in [Sessions -> 0..MaxDown]

(* Where the server has a client: from accept to close, and until it has   *)
(* deleted the semaphore.                                                  *)
HasSocket  == {"setup", "create_rx", "create_tx", "wait", "stop", "close"}
HasContext == {"create_rx", "create_tx", "wait", "stop", "close", "grace"}

(* The inductive invariant.  What a client still sends and what waits to   *)
(* be received is what it had to send.                                     *)
ClientsCount == /\ cur <= arrived
                /\ \A s \in Sessions : outbox[s] + inbox[s] <= MaxDown

(* The connection of the current client is open on exactly one descriptor, *)
(* the one in ctx once that is set up, and no other client has any.        *)
OneDescriptor ==
    /\ \A fd \in DOMAIN owner : owner[fd] \in Sessions =>
           /\ owner[fd] = cur /\ server.pc \in HasSocket
           /\ \A g \in DOMAIN owner : owner[g] = cur => g = fd
    /\ server.pc \in HasSocket => \E fd \in DOMAIN owner : owner[fd] = cur
    /\ server.pc \in HasSocket \ {"setup"} => owner[ctx.sock] = cur
    /\ server.pc = "grace" => owner[ctx.sock] \in {Nothing, Http}

(* The semaphore in ctx is the current one; only those before it, and it   *)
(* when it has been deleted, are gone.                                     *)
OneSemaphore ==
    /\ server.pc \in HasSocket \cup HasContext => cur \in Sessions /\ cur \notin deleted
    /\ server.pc \in HasContext => ctx.sem = cur
    /\ server.pc \in {"close", "grace"} => ~ctx.running
    /\ \A s \in deleted : s <= cur

(* No task exists before the server creates it, and none waits longer for  *)
(* something of its own than the server does in the end.                   *)
TasksInTurn ==
    \A s \in Sessions :
        /\ rx[s].t < Grace /\ tx[s].t < Grace
        /\ s > cur \/ (s = cur /\ server.pc \in {"setup", "create_rx"}) => rx[s] = NoTask
        /\ s > cur \/ (s = cur /\ server.pc \in {"setup", "create_rx", "create_tx"})
               => tx[s] = NoTask

IInv == /\ ControlTypes
        /\ ClientsCount
        /\ OneDescriptor
        /\ OneSemaphore
        /\ TasksInTurn
-----------------------------------------------------------------------------
(* What the assumptions say of the numbers.                                *)
LEMMA Numbers ==
    /\ MaxSessions \in Nat /\ MaxHttp \in Nat /\ MaxDown \in Nat
    /\ Fds \in Nat /\ Fds > 0
    /\ Grace \in Nat /\ Grace > 0 /\ Backoff \in Nat
    /\ Poll \in Nat /\ Poll > 0 /\ Poll < Grace
    /\ UartTicks \in Nat /\ UartTicks < Grace
    /\ Wake \in Nat /\ Wake < Grace
  <1>1. Grace \in Nat /\ Poll \in Nat /\ UartTicks \in Nat /\ Wake \in Nat /\ Backoff \in Nat
    BY TimeAssumption
  <1> QED BY <1>1, SessionAssumption, DataAssumption, TimeAssumption

(* lwIP's choice is a free descriptor whenever there is one.               *)
LEMMA FreeFd ==
    ASSUME FreeFds # {}, DOMAIN owner = 0..(Fds - 1)
    PROVE  LowestFree \in 0..(Fds - 1) /\ owner[LowestFree] = Nothing
  <1>1. FreeFds \subseteq Nat
    BY Numbers DEF FreeFds
  <1>2. \E x \in FreeFds : \A y \in FreeFds : ~(<<y, x>> \in OpToRel(<, Nat))
    BY <1>1, NatLessThanWellFounded, WFMin, Zenon
  <1>3. PICK x \in FreeFds : \A y \in FreeFds : x <= y
    <2>1. PICK x \in FreeFds : \A y \in FreeFds : ~(<<y, x>> \in OpToRel(<, Nat))
      BY <1>2
    <2>2. \A y \in FreeFds : ~(y < x)
      BY <1>1, <2>1 DEF OpToRel
    <2> QED BY <1>1, <2>2
  <1>4. LowestFree \in FreeFds
    BY <1>3 DEF LowestFree
  <1> QED BY <1>4 DEF FreeFds
-----------------------------------------------------------------------------
(* What a step of tcp_to_uart_task of session s does: it moves on, it may  *)
(* clear running, give a semaphore and take a chunk of its connection, and *)
(* it leaves the rest alone.                                               *)
RxMove(s, task) ==
    /\ task \in TaskState(RxPcs)
    /\ rx' = [rx EXCEPT ![s] = task]
    /\ Live(rx[s]) /\ task.pc \notin {"none", "start"}
    /\ IF task.pc = "uart" THEN /\ rx[s].pc = "recv" /\ task.t < Grace
                                /\ rx[s].on \in Sessions => SockOpen(rx[s].on)
                           ELSE task.t = 0
    /\ task.on = IF task.pc = "recv" THEN owner[ctx.sock] ELSE Nothing
    /\ task.pc = "recv" => owner[ctx.sock] # Nothing
    /\ ctx' = ctx \/ ctx' = [ctx EXCEPT !.running = FALSE]
    /\ given' \in [Sessions -> 0..2]
    /\ inbox' \in [Sessions -> 0..MaxDown]
    /\ \A c \in Sessions : inbox'[c] <= inbox[c]
    /\ UNCHANGED <<serverVars, deleted, tx, owner, peer, arrived, outbox, cacheVars>>

(* The same of buffer_to_tcp_task, but for the cache and what it sends.    *)
TxMove(s, task) ==
    /\ task \in TaskState(TxPcs)
    /\ tx' = [tx EXCEPT ![s] = task]
    /\ Live(tx[s]) /\ task.pc \notin {"none", "start"}
    /\ task.t = IF task.pc = "poll" THEN Poll ELSE 0
    /\ task.pc = "poll" => tx[s].pc = "read"
    /\ task.pc = "read" => ctx.running
    /\ task.on = IF task.pc = "send" THEN owner[ctx.sock] ELSE Nothing
    /\ task.pc = "send" => owner[ctx.sock] # Nothing
    /\ ctx' = ctx \/ ctx' = [ctx EXCEPT !.running = FALSE]
    /\ given' \in [Sessions -> 0..2]
    /\ UNCHANGED <<serverVars, deleted, rx, netVars>>

(* Where a step takes a task that enters no call: to pc, with a delay.     *)
LEMMA Moved ==
    ASSUME NEW pcs, NEW pc \in pcs, NEW t \in Nat
    PROVE  /\ [pc |-> pc, on |-> Nothing, t |-> t] \in TaskState(pcs)
           /\ [NoTask EXCEPT !.pc = pc, !.t = t] = [pc |-> pc, on |-> Nothing, t |-> t]
           /\ [NoTask EXCEPT !.pc = pc] = [pc |-> pc, on |-> Nothing, t |-> 0]
  <1>1. [pc |-> pc, on |-> Nothing, t |-> t] \in TaskState(pcs)
    BY DEF TaskState
  <1>2. [NoTask EXCEPT !.pc = pc] = [pc |-> pc, on |-> Nothing, t |-> 0]
    BY DEF NoTask
  <1>3. [NoTask EXCEPT !.pc = pc, !.t = t] = [pc |-> pc, on |-> Nothing, t |-> t]
    <2> DEFINE went == [pc |-> pc, on |-> Nothing, t |-> 0]
    <2>1. [NoTask EXCEPT !.pc = pc, !.t = t] = [went EXCEPT !.t = t]
      BY <1>2
    <2> QED BY <2>1
  <1> QED BY <1>1, <1>2, <1>3

(* A give leaves the count of the semaphore at most 2.                     *)
LEMMA Given ==
    ASSUME GiveExitSem, given \in [Sessions -> 0..2]
    PROVE  given' \in [Sessions -> 0..2]
  <1>1. CASE ctx.sem \in Sessions
    <2>1. (IF given[ctx.sem] < 2 THEN given[ctx.sem] + 1 ELSE given[ctx.sem]) \in 0..2
      BY <1>1
    <2> QED BY <1>1, <2>1 DEF GiveExitSem
  <1>2. CASE ctx.sem \notin Sessions
    BY <1>2 DEF GiveExitSem
  <1> QED BY <1>1, <1>2

(* Every step of the receiving task is such a move.                        *)
LEMMA RxStepMoves ==
    ASSUME ControlTypes, NEW s \in Sessions, RxStep(s)
    PROVE  \E task : RxMove(s, task)
  <1> USE DEF ControlTypes
  <1>0. /\ rx[s] \in TaskState(RxPcs) /\ owner[ctx.sock] \in Owners
        /\ \A c \in Sessions : inbox[c] <= inbox[c]
    OBVIOUS
  <1>1. ASSUME NEW pc \in {"check", "call", "exit", "give", "gone"}, RxGoes(s, pc),
               rx[s].pc \notin {"none", "gone"},
               ctx' = ctx \/ ctx' = [ctx EXCEPT !.running = FALSE],
               given' \in [Sessions -> 0..2],
               UNCHANGED <<serverVars, deleted, tx, netVars, cacheVars>>
        PROVE  \E task : RxMove(s, task)
    <2> DEFINE task == [pc |-> pc, on |-> Nothing, t |-> 0]
    <2>1. rx' = [rx EXCEPT ![s] = task] /\ task \in TaskState(RxPcs)
      <3>1. pc \in RxPcs /\ 0 \in Nat
        BY DEF RxPcs
      <3> QED BY <1>1, <3>1, Moved DEF RxGoes
    <2>2. task.pc = pc /\ task.on = Nothing /\ task.t = 0
      OBVIOUS
    <2> HIDE DEF task
    <2>3. RxMove(s, task)
      BY <1>0, <1>1, <2>1, <2>2 DEF RxMove, Live, netVars
    <2> QED BY <2>3
  <1>2. CASE RxStart(s)
    BY <1>1, <1>2 DEF RxStart, ctxVars
  <1>3. CASE RxCheck(s)
    BY <1>1, <1>3 DEF RxCheck, ctxVars
  <1>4. CASE RxCall(s)
    <2>1. CASE owner[ctx.sock] = Nothing
      BY <1>1, <1>4, <2>1 DEF RxCall, ctxVars
    <2>2. CASE owner[ctx.sock] # Nothing
      <3> DEFINE task == [pc |-> "recv", on |-> owner[ctx.sock], t |-> 0]
      <3>1. task \in TaskState(RxPcs) /\ rx' = [rx EXCEPT ![s] = task]
        BY <1>0, <1>4, <2>2 DEF RxCall, TaskState, RxPcs, Owners
      <3>2. task.pc = "recv" /\ task.on = owner[ctx.sock] /\ task.t = 0
        OBVIOUS
      <3> HIDE DEF task
      <3>3. RxMove(s, task)
        BY <1>0, <1>4, <2>2, <3>1, <3>2 DEF RxCall, RxMove, Live, ctxVars, netVars
      <3> QED BY <3>3
    <2> QED BY <2>1, <2>2
  <1>5. CASE RxData(s)
    <2>1. PICK t \in 0..UartTicks :
              rx' = [rx EXCEPT ![s] = [NoTask EXCEPT !.pc = "uart", !.t = t]]
      BY <1>5 DEF RxData
    <2> DEFINE task == [pc |-> "uart", on |-> Nothing, t |-> t]
    <2>2. task \in TaskState(RxPcs) /\ rx' = [rx EXCEPT ![s] = task]
      <3>1. "uart" \in RxPcs /\ t \in Nat
        BY Numbers DEF RxPcs
      <3> QED BY <2>1, <3>1, Moved
    <2>3. task.pc = "uart" /\ task.on = Nothing /\ task.t < Grace
      BY Numbers
    <2>4. rx[s].on \in Sessions => SockOpen(rx[s].on)
      <3>1. (rx[s].on \in Sessions /\ SockOpen(rx[s].on)) \/ rx[s].on = Http
        BY ONLY <1>5 DEF RxData
      <3>2. Http \notin Sessions
        BY ONLY DEF Http, Sessions
      <3> QED BY ONLY <3>1, <3>2
    <2>5. inbox' \in [Sessions -> 0..MaxDown] /\ \A c \in Sessions : inbox'[c] <= inbox[c]
      <3>1. CASE UNCHANGED inbox
        BY <1>0, <3>1
      <3>2. CASE /\ rx[s].on \in Sessions /\ inbox[rx[s].on] > 0
                 /\ inbox' = [inbox EXCEPT ![rx[s].on] = @ - 1]
        <4> DEFINE d == rx[s].on
        <4>1. inbox \in [Sessions -> 0..MaxDown] /\ d \in Sessions /\ inbox[d] \in 0..MaxDown
          BY <3>2
        <4>2. inbox' = [inbox EXCEPT ![d] = inbox[d] - 1] /\ inbox[d] > 0 /\ MaxDown \in Nat
          BY <3>2, Numbers
        <4> HIDE DEF d
        <4>3. inbox[d] - 1 \in 0..MaxDown /\ inbox[d] - 1 <= inbox[d]
          BY ONLY <4>1, <4>2
        <4>4. \A c \in Sessions : inbox[c] <= inbox[c]
          BY <1>0
        <4> QED BY ONLY <4>1, <4>2, <4>3, <4>4
      <3> QED BY ONLY <1>5, <3>1, <3>2 DEF RxData
    <2> HIDE DEF task
    <2>6. RxMove(s, task)
      BY <1>5, <2>2, <2>3, <2>4, <2>5 DEF RxData, RxMove, Live, ctxVars
    <2> QED BY <2>6
  <1>6. CASE RxEnd(s)
    BY <1>1, <1>6 DEF RxEnd, ctxVars
  <1>7. CASE RxUartDone(s)
    BY <1>1, <1>7 DEF RxUartDone, ctxVars
  <1>8. CASE RxExit(s)
    BY <1>1, <1>8 DEF RxExit, StopRunning
  <1>9. CASE RxGive(s)
    BY <1>1, <1>9, Given DEF RxGive, GiveExitSem
  <1> QED BY <1>2, <1>3, <1>4, <1>5, <1>6, <1>7, <1>8, <1>9 DEF RxStep

(* Every step of the sending task is one, too.                             *)
LEMMA TxStepMoves ==
    ASSUME ControlTypes, NEW s \in Sessions, TxStep(s) \/ TxSendOk(s)
    PROVE  \E task : TxMove(s, task)
  <1> USE DEF ControlTypes
  <1>0. tx[s] \in TaskState(TxPcs) /\ owner[ctx.sock] \in Owners
    OBVIOUS
  <1>1. ASSUME NEW pc \in {"check", "read", "call", "exit", "give", "gone"}, TxGoes(s, pc),
               tx[s].pc \notin {"none", "gone"},
               pc = "read" => ctx.running,
               ctx' = ctx \/ ctx' = [ctx EXCEPT !.running = FALSE],
               given' \in [Sessions -> 0..2],
               UNCHANGED <<serverVars, deleted, rx, netVars>>
        PROVE  \E task : TxMove(s, task)
    <2> DEFINE task == [pc |-> pc, on |-> Nothing, t |-> 0]
    <2>1. tx' = [tx EXCEPT ![s] = task] /\ task \in TaskState(TxPcs)
      <3>1. pc \in TxPcs /\ 0 \in Nat
        BY DEF TxPcs
      <3> QED BY <1>1, <3>1, Moved DEF TxGoes
    <2>2. task.pc = pc /\ task.on = Nothing /\ task.t = 0
      OBVIOUS
    <2> HIDE DEF task
    <2>3. TxMove(s, task)
      BY <1>1, <2>1, <2>2 DEF TxMove, Live
    <2> QED BY <2>3
  <1>2. CASE TxStart(s)
    BY <1>1, <1>2 DEF TxStart, ctxVars
  <1>3. CASE TxCheck(s)
    BY <1>1, <1>3 DEF TxCheck, ctxVars
  <1>4. CASE TxRead(s)
    <2>1. CASE queue # <<>>
      BY <1>1, <1>4, <2>1 DEF TxRead, ctxVars
    <2>2. CASE queue = <<>>
      <3> DEFINE task == [pc |-> "poll", on |-> Nothing, t |-> Poll]
      <3>1. task \in TaskState(TxPcs) /\ tx' = [tx EXCEPT ![s] = task]
        <4>1. "poll" \in TxPcs /\ Poll \in Nat
          BY Numbers DEF TxPcs
        <4> QED BY <1>4, <2>2, <4>1, Moved DEF TxRead
      <3>2. task.pc = "poll" /\ task.on = Nothing /\ task.t = Poll
        OBVIOUS
      <3> HIDE DEF task
      <3>3. TxMove(s, task)
        BY <1>4, <3>1, <3>2 DEF TxRead, TxMove, Live, ctxVars
      <3> QED BY <3>3
    <2> QED BY <2>1, <2>2
  <1>5. CASE TxPollDone(s)
    BY <1>1, <1>5 DEF TxPollDone, ctxVars
  <1>6. CASE TxCall(s)
    <2>1. CASE owner[ctx.sock] = Nothing
      BY <1>1, <1>6, <2>1 DEF TxCall, ctxVars
    <2>2. CASE owner[ctx.sock] # Nothing
      <3> DEFINE task == [pc |-> "send", on |-> owner[ctx.sock], t |-> 0]
      <3>1. task \in TaskState(TxPcs) /\ tx' = [tx EXCEPT ![s] = task]
        BY <1>0, <1>6, <2>2 DEF TxCall, TaskState, TxPcs, Owners
      <3>2. task.pc = "send" /\ task.on = owner[ctx.sock] /\ task.t = 0
        OBVIOUS
      <3> HIDE DEF task
      <3>3. TxMove(s, task)
        BY <1>6, <2>2, <3>1, <3>2 DEF TxCall, TxMove, Live, ctxVars
      <3> QED BY <3>3
    <2> QED BY <2>1, <2>2
  <1>7. CASE TxSendFails(s)
    BY <1>1, <1>7 DEF TxSendFails, ctxVars
  <1>8. CASE TxExit(s)
    BY <1>1, <1>8 DEF TxExit, StopRunning
  <1>9. CASE TxGive(s)
    BY <1>1, <1>9, Given DEF TxGive, GiveExitSem
  <1>10. CASE TxSendOk(s)
    BY <1>1, <1>10 DEF TxSendOk, ctxVars
  <1> QED BY <1>2, <1>3, <1>4, <1>5, <1>6, <1>7, <1>8, <1>9, <1>10 DEF TxStep
-----------------------------------------------------------------------------
(* Before the server runs there is no client, no task and no descriptor.   *)
LEMMA InitInv == Init => IInv
  <1> SUFFICES ASSUME Init PROVE IInv
    OBVIOUS
  <1> USE Numbers DEF Init, Start
  <1>0. Sessions \subseteq Nat /\ Http \notin Sessions /\ Http \in Sessions \cup {Http}
        /\ Nothing \notin Sessions
    BY DEF Sessions, Http, Nothing
  <1>1. ControlTypes
    <2>1. NoTask \in TaskState(RxPcs) /\ NoTask \in TaskState(TxPcs)
      BY DEF NoTask, TaskState, RxPcs, TxPcs
    <2>2. outbox \in [Sessions \cup {Http} -> Nat]
      OBVIOUS
    <2> QED BY <2>1, <2>2 DEF ControlTypes, ServerPcs, Owners
  <1>2. ClientsCount
    BY <1>0 DEF ClientsCount
  <1>3. OneDescriptor
    BY <1>0 DEF OneDescriptor, HasSocket
  <1>4. OneSemaphore
    BY DEF OneSemaphore, HasSocket, HasContext
  <1>5. TasksInTurn
    BY DEF TasksInTurn, NoTask
  <1> QED BY <1>1, <1>2, <1>3, <1>4, <1>5 DEF IInv

(* A new descriptor changes no other and is open on what it was opened on. *)
LEMMA Opens ==
    ASSUME ControlTypes, FreeFds # {}, NEW o \in Owners,
           owner' = [owner EXCEPT ![LowestFree] = o]
    PROVE  /\ LowestFree \in 0..(Fds - 1)
           /\ owner[LowestFree] = Nothing /\ owner'[LowestFree] = o
           /\ owner' \in [0..(Fds - 1) -> Owners]
           /\ \A fd \in 0..(Fds - 1) : fd # LowestFree => owner'[fd] = owner[fd]
  <1>1. owner \in [0..(Fds - 1) -> Owners]
    BY DEF ControlTypes
  <1>2. LowestFree \in 0..(Fds - 1) /\ owner[LowestFree] = Nothing
    BY <1>1, FreeFd
  <1> HIDE DEF LowestFree
  <1> QED BY <1>1, <1>2

(* socket, bind and listen.                                                *)
LEMMA OpenListenerKeeps == IInv /\ OpenListener => IInv'
  <1> SUFFICES ASSUME IInv, OpenListener PROVE IInv'
    OBVIOUS
  <1> USE DEF IInv
  <1>0. /\ server.pc = "socket" /\ server' \in [pc : ServerPcs, t : Nat]
        /\ server'.pc \in {"accept", "ended"}
        /\ UNCHANGED <<cur, ctxVars, rx, tx, peer, arrived, outbox, inbox>>
    BY DEF OpenListener, ControlTypes, ServerPcs
  <1>1. /\ owner' \in [0..(Fds - 1) -> Owners]
        /\ \A fd \in 0..(Fds - 1) : owner'[fd] \in {owner[fd], Listener}
    <2>1. CASE UNCHANGED owner
      BY <2>1 DEF ControlTypes
    <2>2. CASE FreeFds # {} /\ owner' = [owner EXCEPT ![LowestFree] = Listener]
      <3>1. Listener \in Owners
        BY DEF Owners
      <3> QED BY <2>2, <3>1, Opens
    <2> QED BY <2>1, <2>2 DEF OpenListener
  <1>2. ControlTypes'
    BY <1>0, <1>1 DEF ControlTypes, ctxVars
  <1>3. ClientsCount'
    BY <1>0 DEF ClientsCount
  <1>4. OneDescriptor'
    <2>1. \A fd \in 0..(Fds - 1) : owner[fd] \notin Sessions
      BY <1>0 DEF OneDescriptor, HasSocket, ControlTypes
    <2>2. \A fd \in 0..(Fds - 1) : owner'[fd] \notin Sessions
      BY <1>1, <2>1 DEF Listener, Sessions
    <2> QED BY <1>0, <1>1, <2>2 DEF OneDescriptor, HasSocket
  <1>5. OneSemaphore'
    BY <1>0 DEF OneSemaphore, HasSocket, HasContext, ctxVars
  <1>6. TasksInTurn'
    BY <1>0 DEF TasksInTurn
  <1> QED BY <1>2, <1>3, <1>4, <1>5, <1>6

(* The next client.                                                        *)
LEMMA AcceptKeeps == IInv /\ Accept => IInv'
  <1> SUFFICES ASSUME IInv, Accept PROVE IInv'
    OBVIOUS
  <1> USE DEF IInv
  <1>0. /\ server.pc = "accept" /\ server' = [server EXCEPT !.pc = "setup"]
        /\ cur \in Nat /\ arrived \in 0..MaxSessions /\ cur < arrived
        /\ cur' = cur + 1 /\ cur' \in Sessions /\ cur' \in 0..MaxSessions
        /\ cur + 1 \in Owners /\ cur + 1 # Nothing
        /\ UNCHANGED <<ctxVars, rx, tx, peer, arrived, outbox, inbox>>
    <2>1. /\ server.pc = "accept" /\ server' = [server EXCEPT !.pc = "setup"]
          /\ cur < arrived /\ cur' = cur + 1
          /\ UNCHANGED <<ctxVars, rx, tx, peer, arrived, outbox, inbox>>
      BY DEF Accept
    <2>2. cur \in 0..MaxSessions /\ arrived \in 0..MaxSessions /\ MaxSessions \in Nat
      BY Numbers DEF ControlTypes
    <2>3. cur \in Nat /\ cur + 1 \in 1..MaxSessions /\ cur + 1 \in 0..MaxSessions /\ cur + 1 # 0
      BY ONLY <2>1, <2>2
    <2> QED BY <2>1, <2>2, <2>3 DEF Owners, Sessions, Nothing
  <1>1. /\ LowestFree \in 0..(Fds - 1) /\ owner'[LowestFree] = cur + 1
        /\ owner' \in [0..(Fds - 1) -> Owners]
        /\ \A fd \in 0..(Fds - 1) : fd # LowestFree => owner'[fd] = owner[fd]
    BY <1>0, Opens DEF Accept
  <1>2. ControlTypes'
    <2>1. server' \in [pc : ServerPcs, t : Nat]
      BY <1>0 DEF ControlTypes, ServerPcs
    <2> QED BY <1>0, <1>1, <2>1 DEF ControlTypes, ctxVars
  <1>3. ClientsCount'
    BY <1>0 DEF ClientsCount
  <1>4. OneDescriptor'
    <2> HIDE DEF LowestFree
    <2>1. \A fd \in 0..(Fds - 1) : owner[fd] \notin Sessions
      BY <1>0 DEF OneDescriptor, HasSocket, ControlTypes
    <2>2. \A fd \in 0..(Fds - 1) : owner'[fd] \in Sessions => fd = LowestFree
      BY <1>1, <2>1
    <2>3. DOMAIN owner' = 0..(Fds - 1) /\ server'.pc = "setup" /\ owner'[LowestFree] = cur'
      BY <1>0, <1>1 DEF ControlTypes
    <2> QED BY <1>0, <1>1, <2>2, <2>3 DEF OneDescriptor, HasSocket
  <1>5. OneSemaphore'
    <2>1. server'.pc = "setup" /\ deleted' = deleted /\ deleted \subseteq Sessions
      BY <1>0 DEF ControlTypes, ctxVars
    <2>2. \A s \in deleted : s <= cur
      BY DEF OneSemaphore
    <2> QED BY <1>0, <2>1, <2>2, Numbers DEF OneSemaphore, HasSocket, HasContext, Sessions
  <1>6. TasksInTurn'
    <2>1. server'.pc = "setup"
      BY <1>0 DEF ControlTypes
    <2>2. \A s \in Sessions : s > cur => rx[s] = NoTask /\ tx[s] = NoTask
      BY DEF TasksInTurn
    <2>3. \A s \in Sessions : s > cur + 1 \/ s = cur + 1 => s > cur
      BY <1>0 DEF Sessions
    <2> QED BY <1>0, <2>1, <2>2, <2>3 DEF TasksInTurn
  <1> QED BY <1>2, <1>3, <1>4, <1>5, <1>6

(* No descriptor for the client.                                           *)
LEMMA AcceptFailsKeeps == IInv /\ AcceptFails => IInv'
  <1> SUFFICES ASSUME IInv, AcceptFails PROVE IInv'
    OBVIOUS
  <1> USE DEF IInv
  <1>0. /\ server.pc = "accept" /\ server' = [pc |-> "backoff", t |-> Backoff]
        /\ cur \in Nat /\ arrived \in 0..MaxSessions /\ cur < arrived
        /\ cur' = cur + 1 /\ cur' \in 0..MaxSessions
        /\ UNCHANGED <<ctxVars, rx, tx, owner, arrived, outbox, inbox>>
    BY Numbers DEF AcceptFails, ControlTypes
  <1>1. ControlTypes'
    <2>1. server' \in [pc : ServerPcs, t : Nat]
      BY <1>0, Numbers DEF ServerPcs
    <2>2. peer' \in [Sessions -> {"away", "open", "left", "silent"}]
      BY DEF AcceptFails, ControlTypes
    <2> QED BY <1>0, <2>1, <2>2 DEF ControlTypes, ctxVars
  <1>2. ClientsCount'
    BY <1>0 DEF ClientsCount
  <1>3. OneDescriptor'
    BY <1>0 DEF OneDescriptor, HasSocket, ControlTypes
  <1>4. OneSemaphore'
    <2>1. \A s \in deleted : s <= cur /\ s \in Nat
      BY DEF OneSemaphore, ControlTypes, Sessions
    <2> QED BY <1>0, <2>1 DEF OneSemaphore, HasSocket, HasContext, ctxVars
  <1>5. TasksInTurn'
    <2>1. \A s \in Sessions : s > cur + 1 => s > cur
      BY <1>0 DEF Sessions
    <2> QED BY <1>0, <2>1 DEF TasksInTurn
  <1> QED BY <1>1, <1>2, <1>3, <1>4, <1>5

(* The steps of the server that only move it on or touch ctx and the       *)
(* semaphores: the end of a backoff, the set-up of ctx, the take, the stop *)
(* and the deletion.                                                       *)
LEMMA ServerOnCtxKeeps ==
    IInv /\ (BackoffDone \/ SetUpContext \/ TakeExitSem \/ StopTasks \/ DeleteExitSem) => IInv'
  <1> SUFFICES ASSUME IInv,
                      BackoffDone \/ SetUpContext \/ TakeExitSem \/ StopTasks \/ DeleteExitSem
               PROVE  IInv'
    OBVIOUS
  <1> USE DEF IInv
  <1>0. /\ \E pc \in {"accept", "create_rx", "stop", "close"} :
               server' = [server EXCEPT !.pc = pc]
        /\ UNCHANGED <<cur, rx, tx, owner, peer, arrived, outbox, inbox>>
    BY DEF BackoffDone, SetUpContext, TakeExitSem, StopTasks, DeleteExitSem, netVars
  <1>1. /\ server' \in [pc : ServerPcs, t : Nat]
        /\ \/ server.pc = "backoff" /\ server'.pc = "accept" /\ UNCHANGED ctxVars
           \/ SetUpContext /\ server.pc = "setup" /\ server'.pc = "create_rx"
           \/ TakeExitSem /\ server.pc = "wait" /\ server'.pc = "stop"
           \/ StopTasks /\ server.pc = "stop" /\ server'.pc = "close"
           \/ DeleteExitSem /\ server.pc = "grace" /\ server'.pc = "accept"
    BY <1>0 DEF BackoffDone, SetUpContext, TakeExitSem, StopTasks, DeleteExitSem,
                ControlTypes, ServerPcs
  <1>2. SetUpContext => ctx'.sock \in 0..(Fds - 1) /\ owner[ctx'.sock] = cur
    <2>1. SetUpContext => \E fd \in DOMAIN owner : owner[fd] = cur
      BY DEF SetUpContext, OneDescriptor, HasSocket
    <2>2. SetUpContext => ctx'.sock = CHOOSE fd \in DOMAIN owner : owner[fd] = cur
      BY DEF SetUpContext
    <2> QED BY <2>1, <2>2 DEF ControlTypes
  <1>3. ControlTypes'
    <2>1. ctx' \in [sock : 0..(Fds - 1), sem : 0..MaxSessions, running : BOOLEAN]
      <3>1. CASE SetUpContext
        <4>1. PICK fd : ctx' = [sock |-> fd, sem |-> cur, running |-> TRUE]
          BY <3>1 DEF SetUpContext
        <4>2. fd \in 0..(Fds - 1)
          BY <1>2, <3>1, <4>1
        <4> QED BY <4>1, <4>2 DEF ControlTypes
      <3>2. CASE StopTasks
        BY <3>2 DEF StopTasks, ControlTypes
      <3> QED BY <1>1, <3>1, <3>2 DEF TakeExitSem, DeleteExitSem, ctxVars, ControlTypes
    <2>2. given' \in [Sessions -> 0..2]
      <3>1. CASE TakeExitSem
        <4>1. cur \in Sessions /\ given[cur] \in 0..2 /\ given[cur] > 0
          BY <3>1 DEF TakeExitSem, OneSemaphore, HasContext, ControlTypes
        <4> QED BY <3>1, <4>1 DEF TakeExitSem, ControlTypes
      <3> QED BY <1>1, <3>1 DEF SetUpContext, StopTasks, DeleteExitSem, ctxVars, ControlTypes
    <2>3. deleted' \subseteq Sessions
      BY <1>1 DEF SetUpContext, TakeExitSem, StopTasks, DeleteExitSem, ctxVars, ControlTypes,
                  OneSemaphore, HasContext
    <2> QED BY <1>0, <1>1, <2>1, <2>2, <2>3 DEF ControlTypes
  <1>4. ClientsCount'
    BY <1>0 DEF ClientsCount
  <1>5. OneDescriptor'
    <2>1. ~SetUpContext => ctx'.sock = ctx.sock
      BY <1>1 DEF TakeExitSem, StopTasks, DeleteExitSem, ctxVars, ControlTypes
    <2>2. CASE DeleteExitSem
      BY <1>0, <1>1, <2>2 DEF DeleteExitSem, OneDescriptor, HasSocket, ControlTypes
    <2>3. CASE SetUpContext
      BY <1>0, <1>1, <1>2, <2>3 DEF SetUpContext, OneDescriptor, HasSocket, ControlTypes
    <2> QED BY <1>0, <1>1, <2>1, <2>2, <2>3 DEF OneDescriptor, HasSocket, ControlTypes
  <1>6. OneSemaphore'
    <2>1. /\ SetUpContext => ctx'.sem = cur /\ deleted' = deleted
          /\ TakeExitSem => ctx' = ctx /\ deleted' = deleted
          /\ StopTasks => ctx'.sem = ctx.sem /\ ctx'.running = FALSE /\ deleted' = deleted
          /\ DeleteExitSem => deleted' = deleted \cup {cur}
      BY DEF SetUpContext, TakeExitSem, StopTasks, DeleteExitSem, ControlTypes
    <2>2. cur \in Nat /\ deleted \subseteq Sessions
      BY DEF ControlTypes
    <2> QED BY <1>0, <1>1, <2>1, <2>2 DEF OneSemaphore, HasSocket, HasContext, ctxVars
  <1>7. TasksInTurn'
    BY <1>0, <1>1 DEF TasksInTurn
  <1> QED BY <1>3, <1>4, <1>5, <1>6, <1>7

(* The creation of the two tasks, which may fail.                          *)
LEMMA CreateKeeps == IInv /\ (CreateRx \/ CreateTx) => IInv'
  <1> SUFFICES ASSUME IInv, CreateRx \/ CreateTx PROVE IInv'
    OBVIOUS
  <1> USE DEF IInv
  <1>0. /\ cur \in Sessions /\ cur \in Nat /\ "start" \in RxPcs /\ "start" \in TxPcs
        /\ rx[cur] \in TaskState(RxPcs) /\ tx[cur] \in TaskState(TxPcs)
        /\ UNCHANGED <<cur, ctxVars, netVars>>
    BY DEF CreateRx, CreateTx, OneSemaphore, HasSocket, HasContext, ControlTypes, Sessions,
           RxPcs, TxPcs
  <1>1. /\ server' \in [pc : ServerPcs, t : Nat]
        /\ \/ server.pc = "create_rx" /\ server'.pc = "create_tx"
           \/ server.pc = "create_tx" /\ server'.pc = "wait"
    BY DEF CreateRx, CreateTx, ControlTypes, ServerPcs
  <1>2. /\ rx' \in [Sessions -> TaskState(RxPcs)]
        /\ \A s \in Sessions : rx'[s].t = rx[s].t
        /\ \A s \in Sessions : s # cur \/ CreateTx => rx'[s] = rx[s]
    <2>1. CASE UNCHANGED rx
      BY <2>1 DEF ControlTypes
    <2>2. CASE CreateRx /\ rx' = [rx EXCEPT ![cur].pc = "start"]
      <3>1. [rx[cur] EXCEPT !.pc = "start"] \in TaskState(RxPcs)
        BY <1>0 DEF TaskState
      <3>2. [rx[cur] EXCEPT !.pc = "start"].t = rx[cur].t
        BY <1>0 DEF TaskState
      <3>3. ~CreateTx
        BY <2>2 DEF CreateRx, CreateTx
      <3> QED BY <1>0, <2>2, <3>1, <3>2, <3>3 DEF ControlTypes
    <2> QED BY <2>1, <2>2 DEF CreateRx, CreateTx
  <1>3. /\ tx' \in [Sessions -> TaskState(TxPcs)]
        /\ \A s \in Sessions : tx'[s].t = tx[s].t
        /\ \A s \in Sessions : s # cur \/ CreateRx => tx'[s] = tx[s]
    <2>1. CASE UNCHANGED tx
      BY <2>1 DEF ControlTypes
    <2>2. CASE CreateTx /\ tx' = [tx EXCEPT ![cur].pc = "start"]
      <3>1. [tx[cur] EXCEPT !.pc = "start"] \in TaskState(TxPcs)
        BY <1>0 DEF TaskState
      <3>2. [tx[cur] EXCEPT !.pc = "start"].t = tx[cur].t
        BY <1>0 DEF TaskState
      <3>3. ~CreateRx
        BY <2>2 DEF CreateRx, CreateTx
      <3> QED BY <1>0, <2>2, <3>1, <3>2, <3>3 DEF ControlTypes
    <2> QED BY <2>1, <2>2 DEF CreateRx, CreateTx
  <1>4. ControlTypes'
    BY <1>0, <1>1, <1>2, <1>3 DEF ControlTypes, ctxVars, netVars
  <1>5. ClientsCount'
    BY <1>0 DEF ClientsCount, netVars
  <1>6. OneDescriptor' /\ OneSemaphore'
    BY <1>0, <1>1 DEF OneDescriptor, OneSemaphore, HasSocket, HasContext, netVars, ctxVars
  <1>7. TasksInTurn'
    BY <1>0, <1>1, <1>2, <1>3 DEF TasksInTurn, CreateRx, CreateTx, Sessions
  <1> QED BY <1>4, <1>5, <1>6, <1>7

(* Waking a task that is inside a call on the connection moves it nowhere. *)
LEMMA Woken ==
    ASSUME NEW pcs, NEW task \in TaskState(pcs), NEW s
    PROVE  /\ WokenBy(s, task) \in TaskState(pcs)
           /\ WokenBy(s, task).pc = task.pc /\ WokenBy(s, task).on = task.on
           /\ WokenBy(s, task).t = IF task.on = s THEN Wake ELSE task.t
  BY Numbers DEF WokenBy, TaskState

(* shutdown and close: the descriptor is free again.                       *)
LEMMA CloseSocketKeeps == IInv /\ CloseSocket => IInv'
  <1> SUFFICES ASSUME IInv, CloseSocket PROVE IInv'
    OBVIOUS
  <1> USE DEF IInv
  <1>0. /\ server.pc = "close" /\ server' = [pc |-> "grace", t |-> Grace]
        /\ cur \in Sessions /\ ctx.sock \in 0..(Fds - 1)
        /\ UNCHANGED <<cur, ctxVars, peer, arrived, outbox, inbox>>
    BY DEF CloseSocket, ControlTypes, OneSemaphore, HasSocket
  <1>1. /\ rx' = [s \in Sessions |-> WokenBy(cur, rx[s])]
        /\ tx' = [s \in Sessions |-> WokenBy(cur, tx[s])]
        /\ \A s \in Sessions : rx[s] \in TaskState(RxPcs) /\ tx[s] \in TaskState(TxPcs)
    BY DEF CloseSocket, ControlTypes
  <1>2. /\ rx' \in [Sessions -> TaskState(RxPcs)] /\ tx' \in [Sessions -> TaskState(TxPcs)]
        /\ \A s \in Sessions : rx'[s].t < Grace /\ tx'[s].t < Grace
    <2>1. \A s \in Sessions : /\ WokenBy(cur, rx[s]) \in TaskState(RxPcs)
                              /\ WokenBy(cur, tx[s]) \in TaskState(TxPcs)
      BY <1>1, Woken
    <2>2. \A s \in Sessions : /\ WokenBy(cur, rx[s]).t \in {Wake, rx[s].t}
                              /\ WokenBy(cur, tx[s]).t \in {Wake, tx[s].t}
      BY <1>1, Woken
    <2>3. \A s \in Sessions : rx[s].t < Grace /\ tx[s].t < Grace /\ Wake < Grace
      BY Numbers DEF TasksInTurn
    <2>4. \A s \in Sessions : WokenBy(cur, rx[s]).t < Grace /\ WokenBy(cur, tx[s]).t < Grace
      BY <2>2, <2>3
    <2> HIDE DEF WokenBy
    <2> QED BY <1>1, <2>1, <2>4
  <1>3. /\ owner' \in [0..(Fds - 1) -> Owners] /\ owner'[ctx.sock] = Nothing
        /\ \A fd \in 0..(Fds - 1) : fd # ctx.sock => owner'[fd] = owner[fd]
    BY <1>0 DEF CloseSocket, ControlTypes, Owners
  <1>4. ControlTypes'
    <2>1. server' \in [pc : ServerPcs, t : Nat]
      BY <1>0, Numbers DEF ServerPcs
    <2> QED BY <1>0, <1>2, <1>3, <2>1 DEF ControlTypes, ctxVars
  <1>5. ClientsCount'
    BY <1>0 DEF ClientsCount
  <1>6. OneDescriptor'
    <2>1. owner[ctx.sock] = cur
      BY <1>0 DEF OneDescriptor, HasSocket
    <2>2. \A fd \in 0..(Fds - 1) : owner'[fd] \notin Sessions
      <3>1. Nothing \notin Sessions
        BY DEF Nothing, Sessions
      <3>2. \A fd \in 0..(Fds - 1) : owner[fd] \in Sessions => fd = ctx.sock
        BY <1>0, <2>1 DEF OneDescriptor, ControlTypes
      <3> QED BY <1>3, <3>1, <3>2
    <2> QED BY <1>0, <1>3, <2>2 DEF OneDescriptor, HasSocket, ctxVars
  <1>7. OneSemaphore'
    BY <1>0 DEF OneSemaphore, HasSocket, HasContext, ctxVars
  <1>8. TasksInTurn'
    <2>1. \A s \in Sessions : s > cur => rx[s] = NoTask /\ tx[s] = NoTask
      BY DEF TasksInTurn
    <2>2. WokenBy(cur, NoTask) = NoTask
      BY <1>0 DEF WokenBy, NoTask, Nothing, Sessions
    <2> HIDE DEF WokenBy
    <2> QED BY <1>0, <1>1, <1>2, <2>1, <2>2 DEF TasksInTurn
  <1> QED BY <1>4, <1>5, <1>6, <1>7, <1>8

(* A step of tcp_to_uart_task.                                             *)
LEMMA RxKeeps == IInv /\ (\E s \in Sessions : RxStep(s)) => IInv'
  <1> SUFFICES ASSUME IInv, NEW s \in Sessions, RxStep(s) PROVE IInv'
    OBVIOUS
  <1> USE DEF IInv
  <1>1. PICK task : RxMove(s, task)
    BY RxStepMoves
  <1>2. /\ UNCHANGED <<server, cur, deleted, tx, owner, peer, arrived, outbox>>
        /\ ctx' \in [sock : 0..(Fds - 1), sem : 0..MaxSessions, running : BOOLEAN]
        /\ ctx'.sock = ctx.sock /\ ctx'.sem = ctx.sem /\ (ctx'.running => ctx.running)
    BY <1>1 DEF RxMove, serverVars, ControlTypes
  <1>3. /\ rx' \in [Sessions -> TaskState(RxPcs)] /\ rx'[s] = task
        /\ \A c \in Sessions : c # s => rx'[c] = rx[c]
    BY <1>1 DEF RxMove, ControlTypes
  <1>4. rx[s] # NoTask
    BY <1>1 DEF RxMove, Live, NoTask
  <1>5. ControlTypes'
    BY <1>1, <1>2, <1>3 DEF RxMove, ControlTypes
  <1>6. ClientsCount'
    <2>1. \A c \in Sessions : /\ inbox'[c] <= inbox[c] /\ inbox'[c] \in Nat
                              /\ inbox[c] \in Nat /\ outbox[c] \in Nat
      BY <1>1, Numbers DEF RxMove, ControlTypes
    <2>2. \A c \in Sessions : outbox[c] + inbox[c] <= MaxDown
      BY DEF ClientsCount
    <2>3. \A c \in Sessions : outbox[c] + inbox'[c] <= MaxDown
      BY <2>1, <2>2, Numbers
    <2> QED BY <1>2, <2>3 DEF ClientsCount
  <1>7. OneDescriptor' /\ OneSemaphore'
    BY <1>2 DEF OneDescriptor, OneSemaphore
  <1>8. TasksInTurn'
    <2>1. task.t < Grace
      BY <1>1, Numbers DEF RxMove
    <2> QED BY <1>2, <1>3, <1>4, <2>1 DEF TasksInTurn
  <1> QED BY <1>5, <1>6, <1>7, <1>8

(* A step of buffer_to_tcp_task.                                           *)
LEMMA TxKeeps == IInv /\ (\E s \in Sessions : TxStep(s) \/ TxSendOk(s)) => IInv'
  <1> SUFFICES ASSUME IInv, NEW s \in Sessions, TxStep(s) \/ TxSendOk(s) PROVE IInv'
    OBVIOUS
  <1> USE DEF IInv
  <1>1. PICK task : TxMove(s, task)
    BY TxStepMoves
  <1>2. /\ UNCHANGED <<server, cur, deleted, rx, owner, peer, arrived, outbox, inbox>>
        /\ ctx' \in [sock : 0..(Fds - 1), sem : 0..MaxSessions, running : BOOLEAN]
        /\ ctx'.sock = ctx.sock /\ ctx'.sem = ctx.sem /\ (ctx'.running => ctx.running)
    BY <1>1 DEF TxMove, serverVars, netVars, ControlTypes
  <1>3. /\ tx' \in [Sessions -> TaskState(TxPcs)] /\ tx'[s] = task
        /\ \A c \in Sessions : c # s => tx'[c] = tx[c]
    BY <1>1 DEF TxMove, ControlTypes
  <1>4. tx[s] # NoTask
    BY <1>1 DEF TxMove, Live, NoTask
  <1>5. ControlTypes'
    BY <1>1, <1>2, <1>3 DEF TxMove, ControlTypes
  <1>6. ClientsCount'
    BY <1>2 DEF ClientsCount
  <1>7. OneDescriptor' /\ OneSemaphore'
    BY <1>2 DEF OneDescriptor, OneSemaphore
  <1>8. TasksInTurn'
    <2>1. task.t < Grace
      BY <1>1, Numbers DEF TxMove
    <2> QED BY <1>2, <1>3, <1>4, <2>1 DEF TasksInTurn
  <1> QED BY <1>5, <1>6, <1>7, <1>8

(* What clients do.                                                        *)
LEMMA ClientKeeps ==
    IInv /\ (\/ ClientConnects
             \/ \E s \in Sessions : ClientSends(s) \/ ClientGoes(s, "left") \/ ClientGoes(s, "silent"))
        => IInv'
  <1> SUFFICES ASSUME IInv,
                      \/ ClientConnects
                      \/ \E s \in Sessions : \/ ClientSends(s)
                                             \/ ClientGoes(s, "left") \/ ClientGoes(s, "silent")
               PROVE  IInv'
    OBVIOUS
  <1> USE DEF IInv
  <1>0. UNCHANGED <<server, cur, ctx, given, deleted, rx, tx, owner>>
    BY DEF ClientConnects, ClientSends, ClientGoes, serverVars, ctxVars
  <1>1. peer' \in [Sessions -> {"away", "open", "left", "silent"}]
    BY DEF ClientConnects, ClientSends, ClientGoes, ControlTypes
  <1>2. arrived' \in 0..MaxSessions /\ cur <= arrived'
    <2>1. CASE ClientConnects
      <3>1. arrived' = arrived + 1 /\ arrived \in 0..MaxSessions /\ arrived < MaxSessions
            /\ cur \in Nat /\ cur <= arrived
        BY <2>1 DEF ClientConnects, ControlTypes, ClientsCount
      <3> QED BY <3>1, Numbers
    <2> QED BY <2>1 DEF ClientSends, ClientGoes, ControlTypes, ClientsCount
  <1>3. /\ inbox' \in [Sessions -> 0..MaxDown] /\ outbox' \in [Sessions \cup {Http} -> Nat]
        /\ \A s \in Sessions : outbox'[s] + inbox'[s] <= MaxDown
    <2>1. ASSUME NEW s \in Sessions, ClientSends(s) PROVE <1>3
      <3>1. /\ outbox[s] \in Nat /\ outbox[s] > 0 /\ inbox[s] \in 0..MaxDown
            /\ outbox[s] + inbox[s] <= MaxDown
        BY <2>1 DEF ClientSends, ControlTypes, ClientsCount
      <3>2. outbox[s] - 1 \in Nat /\ inbox[s] + 1 \in 0..MaxDown
        BY <3>1, Numbers
      <3>3. /\ inbox' \in [Sessions -> 0..MaxDown] /\ outbox' \in [Sessions \cup {Http} -> Nat]
            /\ inbox'[s] = inbox[s] + 1 /\ outbox'[s] = outbox[s] - 1
            /\ \A c \in Sessions : c # s => inbox'[c] = inbox[c] /\ outbox'[c] = outbox[c]
        BY <2>1, <3>2 DEF ClientSends, ControlTypes
      <3>4. (outbox[s] - 1) + (inbox[s] + 1) <= MaxDown
        BY <3>1, Numbers
      <3> QED BY <3>3, <3>4 DEF ClientsCount
    <2>2. CASE UNCHANGED <<inbox, outbox>>
      BY <2>2 DEF ControlTypes, ClientsCount
    <2> QED BY <2>1, <2>2 DEF ClientConnects, ClientGoes
  <1>4. ControlTypes'
    BY <1>0, <1>1, <1>2, <1>3 DEF ControlTypes
  <1>5. ClientsCount'
    BY <1>0, <1>2, <1>3 DEF ClientsCount
  <1>6. OneDescriptor' /\ OneSemaphore' /\ TasksInTurn'
    BY <1>0 DEF OneDescriptor, OneSemaphore, TasksInTurn
  <1> QED BY <1>4, <1>5, <1>6

(* What the web server does with descriptors.                              *)
LEMMA HttpKeeps == IInv /\ (HttpOpens \/ \E fd \in DOMAIN owner : HttpCloses(fd)) => IInv'
  <1> SUFFICES ASSUME IInv, HttpOpens \/ \E fd \in DOMAIN owner : HttpCloses(fd) PROVE IInv'
    OBVIOUS
  <1> USE DEF IInv
  <1>0. UNCHANGED <<server, cur, ctx, given, deleted, rx, tx, peer, arrived, inbox>>
    BY DEF HttpOpens, HttpCloses, serverVars, ctxVars
  <1>1. Nothing \in Owners /\ Http \in Owners /\ Nothing \notin Sessions /\ Http \notin Sessions
    BY DEF Owners, Nothing, Http, Sessions
  <1>2. /\ owner' \in [0..(Fds - 1) -> Owners]
        /\ \A fd \in 0..(Fds - 1) :
               \/ owner'[fd] = owner[fd]
               \/ owner[fd] \in {Nothing, Http} /\ owner'[fd] \in {Nothing, Http}
    <2>1. CASE HttpOpens
      <3>1. FreeFds # {} /\ owner' = [owner EXCEPT ![LowestFree] = Http]
        BY <2>1 DEF HttpOpens
      <3>2. /\ owner[LowestFree] = Nothing /\ owner'[LowestFree] = Http
            /\ owner' \in [0..(Fds - 1) -> Owners]
            /\ \A fd \in 0..(Fds - 1) : fd # LowestFree => owner'[fd] = owner[fd]
        BY <1>1, <3>1, Opens
      <3> HIDE DEF LowestFree
      <3> QED BY <3>2
    <2>2. CASE \E fd \in DOMAIN owner : HttpCloses(fd)
      BY <1>1, <2>2 DEF HttpCloses, ControlTypes
    <2> QED BY <2>1, <2>2
  <1>3. /\ outbox' \in [Sessions \cup {Http} -> Nat]
        /\ \A s \in Sessions : outbox'[s] = outbox[s]
    <2>1. CASE HttpOpens
      <3>1. outbox[Http] - 1 \in Nat
        BY <2>1 DEF HttpOpens, ControlTypes
      <3> QED BY <1>1, <2>1, <3>1 DEF HttpOpens, ControlTypes
    <2>2. CASE UNCHANGED outbox
      BY <2>2 DEF ControlTypes
    <2> QED BY <2>1, <2>2 DEF HttpCloses
  <1>4. ControlTypes'
    BY <1>0, <1>2, <1>3 DEF ControlTypes
  <1>5. ClientsCount'
    BY <1>0, <1>3 DEF ClientsCount
  <1>6. OneDescriptor'
    <2>1. server.pc \in HasSocket => cur \in Sessions
      BY DEF OneSemaphore
    <2>2. \A fd \in 0..(Fds - 1), s \in Sessions : owner'[fd] = s <=> owner[fd] = s
      BY <1>1, <1>2
    <2>3. DOMAIN owner = 0..(Fds - 1) /\ DOMAIN owner' = 0..(Fds - 1)
          /\ ctx.sock \in 0..(Fds - 1)
      BY <1>2 DEF ControlTypes
    <2>4. \A fd \in DOMAIN owner' : owner'[fd] \in Sessions =>
              /\ owner'[fd] = cur' /\ server'.pc \in HasSocket
              /\ \A g \in DOMAIN owner' : owner'[g] = cur' => g = fd
      BY <1>0, <2>1, <2>2, <2>3 DEF OneDescriptor
    <2>5. server.pc = "grace" => owner'[ctx.sock] \in {Nothing, Http}
      BY <1>2, <2>3 DEF OneDescriptor
    <2> QED BY <1>0, <2>1, <2>2, <2>3, <2>4, <2>5 DEF OneDescriptor
  <1>7. OneSemaphore' /\ TasksInTurn'
    BY <1>0 DEF OneSemaphore, TasksInTurn
  <1> QED BY <1>4, <1>5, <1>6, <1>7

(* Serial bytes.                                                           *)
LEMMA UartKeeps == IInv /\ (\E n \in 1..ChunkMax : UartIn(n)) => IInv'
  <1> SUFFICES ASSUME IInv, \E n \in 1..ChunkMax : UartIn(n) PROVE IInv'
    OBVIOUS
  <1>1. UNCHANGED <<server, cur, ctx, given, deleted, rx, tx, owner, peer, arrived, outbox, inbox>>
    BY DEF UartIn, serverVars, ctxVars, netVars
  <1> QED BY <1>1 DEF IInv, ControlTypes, ClientsCount, OneDescriptor, OneSemaphore, TasksInTurn

(* A delay that counts down leaves the task where it is.                   *)
LEMMA CountedDown ==
    ASSUME NEW pcs, NEW task \in TaskState(pcs)
    PROVE  /\ [task EXCEPT !.t = Down(@)] \in TaskState(pcs)
           /\ [task EXCEPT !.t = Down(@)].pc = task.pc
           /\ [task EXCEPT !.t = Down(@)].on = task.on
           /\ [task EXCEPT !.t = Down(@)].t = Down(task.t)
           /\ Down(task.t) \in Nat /\ Down(task.t) <= task.t
  BY DEF TaskState, Down

(* What a tick does to every task.                                         *)
LEMMA TickTasks ==
    ASSUME ControlTypes, Tick
    PROVE  /\ rx' \in [Sessions -> TaskState(RxPcs)] /\ tx' \in [Sessions -> TaskState(TxPcs)]
           /\ \A s \in Sessions :
                  /\ rx'[s].pc = rx[s].pc /\ rx'[s].on = rx[s].on /\ rx'[s].t = Down(rx[s].t)
                  /\ tx'[s].pc = tx[s].pc /\ tx'[s].on = tx[s].on /\ tx'[s].t = Down(tx[s].t)
                  /\ rx[s] = NoTask => rx'[s] = NoTask
                  /\ tx[s] = NoTask => tx'[s] = NoTask
           /\ server' \in [pc : ServerPcs, t : Nat]
           /\ server'.pc = server.pc /\ server'.t = Down(server.t)
           /\ UNCHANGED <<cur, ctxVars, netVars, cacheVars>>
  <1>1. /\ rx' = [s \in Sessions |-> [rx[s] EXCEPT !.t = Down(@)]]
        /\ tx' = [s \in Sessions |-> [tx[s] EXCEPT !.t = Down(@)]]
        /\ \A s \in Sessions : rx[s] \in TaskState(RxPcs) /\ tx[s] \in TaskState(TxPcs)
    BY DEF Tick, ControlTypes
  <1>2. \A s \in Sessions :
            /\ [rx[s] EXCEPT !.t = Down(@)] \in TaskState(RxPcs)
            /\ [rx[s] EXCEPT !.t = Down(@)].pc = rx[s].pc
            /\ [rx[s] EXCEPT !.t = Down(@)].on = rx[s].on
            /\ [rx[s] EXCEPT !.t = Down(@)].t = Down(rx[s].t)
            /\ [tx[s] EXCEPT !.t = Down(@)] \in TaskState(TxPcs)
            /\ [tx[s] EXCEPT !.t = Down(@)].pc = tx[s].pc
            /\ [tx[s] EXCEPT !.t = Down(@)].on = tx[s].on
            /\ [tx[s] EXCEPT !.t = Down(@)].t = Down(tx[s].t)
    BY <1>1, CountedDown
  <1>3. [NoTask EXCEPT !.t = Down(@)] = NoTask
    BY DEF NoTask, Down
  <1>4. /\ server' \in [pc : ServerPcs, t : Nat]
        /\ server'.pc = server.pc /\ server'.t = Down(server.t)
    <2>1. server \in [pc : ServerPcs, t : Nat] /\ Down(server.t) \in Nat
      BY DEF ControlTypes, Down
    <2> HIDE DEF Down
    <2> QED BY <2>1 DEF Tick
  <1>5. UNCHANGED <<cur, ctxVars, netVars, cacheVars>>
    BY DEF Tick
  <1> HIDE DEF Down
  <1> QED BY <1>1, <1>2, <1>3, <1>4, <1>5

(* The passing of time.                                                    *)
LEMMA TickKeeps == IInv /\ Tick => IInv'
  <1> SUFFICES ASSUME IInv, Tick PROVE IInv'
    OBVIOUS
  <1> USE DEF IInv
  <1>1. /\ UNCHANGED <<cur, ctx, given, deleted, owner, peer, arrived, outbox, inbox>>
        /\ server'.pc = server.pc
    BY TickTasks DEF ctxVars, netVars
  <1>2. ControlTypes'
    BY <1>1, TickTasks DEF ControlTypes
  <1>3. ClientsCount' /\ OneDescriptor' /\ OneSemaphore'
    BY <1>1 DEF ClientsCount, OneDescriptor, OneSemaphore
  <1>4. TasksInTurn'
    <2>1. \A s \in Sessions : Down(rx[s].t) < Grace /\ Down(tx[s].t) < Grace
      <3> SUFFICES ASSUME NEW s \in Sessions PROVE Down(rx[s].t) < Grace /\ Down(tx[s].t) < Grace
        OBVIOUS
      <3>1. rx[s].t \in Nat /\ tx[s].t \in Nat /\ rx[s].t < Grace /\ tx[s].t < Grace
        BY DEF ControlTypes, TaskState, TasksInTurn
      <3> QED BY <3>1, Numbers DEF Down
    <2> QED BY <1>1, <2>1, TickTasks DEF TasksInTurn
  <1> QED BY <1>2, <1>3, <1>4

(* Every step keeps the invariant.                                         *)
LEMMA NextInv == IInv /\ [Next]_vars => IInv'
  <1> SUFFICES ASSUME IInv, [Next]_vars PROVE IInv'
    OBVIOUS
  <1>1. CASE ServerStep
    BY <1>1, OpenListenerKeeps, AcceptKeeps, AcceptFailsKeeps, ServerOnCtxKeeps, CreateKeeps,
       CloseSocketKeeps DEF ServerStep
  <1>2. CASE UNCHANGED vars
    BY <1>2 DEF vars, serverVars, ctxVars, netVars, IInv, ControlTypes, ClientsCount,
                OneDescriptor, OneSemaphore, TasksInTurn
  <1> QED BY <1>1, <1>2, RxKeeps, TxKeeps, ClientKeeps, HttpKeeps, UartKeeps, TickKeeps
          DEF Next

(* It holds in every reachable state.                                      *)
LEMMA Invariance == Spec => []IInv
  BY InitInv, NextInv, PTL DEF Spec

(* Between sessions the bridge holds no descriptor but the listening one,  *)
(* whatever the web server opens and closes meanwhile.                     *)
THEOREM DescriptorsReturned == Spec => []NoDescriptorLeft
  <1>1. IInv => NoDescriptorLeft
    BY DEF IInv, OneDescriptor, HasSocket, NoDescriptorLeft
  <1> QED BY <1>1, Invariance, PTL
-----------------------------------------------------------------------------
(* As long as no task of the bridge meets a connection of the web server:  *)
(* the tasks alive are those of the current client, each inside a call on  *)
(* the connection of its own, and during the server's delay each of them   *)
(* has less left to wait than the server.                                  *)
TasksOfCur == \A s \in Sessions : Live(rx[s]) \/ Live(tx[s]) =>
                  s = cur /\ server.pc \in HasContext \ {"create_rx"}

OwnConnection == \A s \in Sessions : /\ rx[s].pc = "recv" => rx[s].on = s
                                     /\ tx[s].pc = "send" => tx[s].on = s

GraceLasts == server.pc = "grace" => \A s \in Sessions :
                  /\ Live(rx[s]) => rx[s].t < server.t
                  /\ Live(tx[s]) => tx[s].t < server.t
                  /\ tx[s].pc = "read" => Poll < server.t

OwnSession == TasksOfCur /\ OwnConnection /\ GraceLasts

(* No task is alive when the server starts.                                *)
LEMMA OwnSessionInit == Init => OwnSession
  BY DEF Init, Start, NoTask, OwnSession, TasksOfCur, OwnConnection, GraceLasts, Live

(* Outside a session no task is alive; during the delay none is inside a   *)
(* call that has just begun.                                               *)
LEMMA NobodyAlive ==
    ASSUME IInv, OwnSession, \/ server.pc \notin HasContext \ {"create_rx"}
                             \/ server.pc = "grace" /\ server.t = 0
    PROVE  \A s \in Sessions : ~Live(rx[s]) /\ ~Live(tx[s])
  <1>1. CASE server.pc \notin HasContext \ {"create_rx"}
    BY <1>1 DEF OwnSession, TasksOfCur
  <1>2. CASE server.pc = "grace" /\ server.t = 0
    <2>1. \A s \in Sessions : rx[s].t \in Nat /\ tx[s].t \in Nat
      BY DEF IInv, ControlTypes, TaskState
    <2> QED BY <1>2, <2>1 DEF OwnSession, GraceLasts
  <1> QED BY <1>1, <1>2

(* The server moves on, but neither to the delay nor with a task.          *)
LEMMA ServerOwnSession ==
    IInv /\ OwnSession /\ ServerStep => OwnSession'
  <1> SUFFICES ASSUME IInv, OwnSession, ServerStep PROVE OwnSession'
    OBVIOUS
  <1>0. /\ rx \in [Sessions -> TaskState(RxPcs)] /\ tx \in [Sessions -> TaskState(TxPcs)]
        /\ server \in [pc : ServerPcs, t : Nat]
    BY DEF IInv, ControlTypes
  <1>1. CASE OpenListener \/ Accept \/ AcceptFails \/ BackoffDone \/ SetUpContext \/ DeleteExitSem
    <2>1. UNCHANGED <<rx, tx>> /\ server'.pc # "grace"
      BY <1>0, <1>1 DEF OpenListener, Accept, AcceptFails, BackoffDone, SetUpContext, DeleteExitSem
    <2>2. \A s \in Sessions : ~Live(rx[s]) /\ ~Live(tx[s])
      BY <1>1, NobodyAlive DEF OpenListener, Accept, AcceptFails, BackoffDone, SetUpContext,
                               DeleteExitSem, HasContext
    <2> QED BY <2>1, <2>2 DEF OwnSession, TasksOfCur, OwnConnection, GraceLasts
  <1>2. CASE TakeExitSem \/ StopTasks
    <2>1. /\ UNCHANGED <<rx, tx, cur>> /\ server'.pc \in {"stop", "close"}
          /\ server.pc \in HasContext
      BY <1>0, <1>2 DEF TakeExitSem, StopTasks, HasContext
    <2> QED BY <2>1 DEF OwnSession, TasksOfCur, OwnConnection, GraceLasts, HasContext
  <1>3. CASE CreateRx \/ CreateTx
    <2>1. /\ server'.pc \in {"create_tx", "wait"} /\ cur' = cur /\ cur \in Sessions
          /\ \A s \in Sessions : s # cur => rx'[s] = rx[s] /\ tx'[s] = tx[s]
      BY <1>0, <1>3 DEF CreateRx, CreateTx, IInv, OneSemaphore, HasSocket, HasContext
    <2>2. /\ rx'[cur].pc \in {"start", rx[cur].pc} /\ rx'[cur].on = rx[cur].on
          /\ tx'[cur].pc \in {"start", tx[cur].pc} /\ tx'[cur].on = tx[cur].on
      <3>1. rx[cur] \in TaskState(RxPcs) /\ tx[cur] \in TaskState(TxPcs)
        BY <1>0, <2>1
      <3> QED BY <1>0, <1>3, <2>1, <3>1 DEF CreateRx, CreateTx, TaskState
    <2>3. TasksOfCur'
      BY <2>1 DEF OwnSession, TasksOfCur, HasContext
    <2>4. OwnConnection'
      BY <2>1, <2>2 DEF OwnSession, OwnConnection
    <2> QED BY <2>1, <2>3, <2>4 DEF OwnSession, GraceLasts
  <1>4. CASE CloseSocket
    <2>1. /\ rx' = [s \in Sessions |-> WokenBy(cur, rx[s])]
          /\ tx' = [s \in Sessions |-> WokenBy(cur, tx[s])]
          /\ server'.pc = "grace" /\ server'.t = Grace /\ cur' = cur /\ server.pc = "close"
      BY <1>4 DEF CloseSocket
    <2>2. \A s \in Sessions : /\ rx'[s].pc = rx[s].pc /\ rx'[s].on = rx[s].on
                              /\ tx'[s].pc = tx[s].pc /\ tx'[s].on = tx[s].on
      <3>1. \A s \in Sessions : rx[s] \in TaskState(RxPcs) /\ tx[s] \in TaskState(TxPcs)
        BY <1>0
      <3>2. \A s \in Sessions :
                /\ WokenBy(cur, rx[s]).pc = rx[s].pc /\ WokenBy(cur, rx[s]).on = rx[s].on
                /\ WokenBy(cur, tx[s]).pc = tx[s].pc /\ WokenBy(cur, tx[s]).on = tx[s].on
        BY <3>1, Woken
      <3> QED BY <2>1, <3>2
    <2>3. TasksInTurn'
      BY <1>4, CloseSocketKeeps DEF IInv
    <2>4. TasksOfCur'
      BY <2>1, <2>2 DEF OwnSession, TasksOfCur, HasContext, Live
    <2>5. OwnConnection'
      BY <2>2 DEF OwnSession, OwnConnection
    <2>6. GraceLasts'
      BY <2>1, <2>3, Numbers DEF GraceLasts, TasksInTurn
    <2> QED BY <2>4, <2>5, <2>6 DEF OwnSession
  <1> QED BY <1>1, <1>2, <1>3, <1>4 DEF ServerStep

(* A receiving task enters recv of its own connection only, and none once  *)
(* the server has closed it.                                               *)
LEMMA RxOwnSession ==
    ASSUME IInv, OwnSession, OnlyBridgeClients, OnlyBridgeClients',
           NEW s \in Sessions, RxStep(s)
    PROVE  OwnSession'
  <1>1. PICK task : RxMove(s, task)
    BY RxStepMoves DEF IInv
  <1>2. /\ rx \in [Sessions -> TaskState(RxPcs)] /\ server \in [pc : ServerPcs, t : Nat]
        /\ rx[s] \in TaskState(RxPcs) /\ rx[s].t \in Nat
        /\ ctx.sock \in 0..(Fds - 1) /\ owner \in [0..(Fds - 1) -> Owners]
        /\ UNCHANGED <<server, cur, tx, owner>>
    BY <1>1 DEF RxMove, serverVars, IInv, ControlTypes, TaskState
  <1>3. /\ rx'[s] = task /\ \A c \in Sessions : c # s => rx'[c] = rx[c]
    BY <1>1, <1>2 DEF RxMove
  <1>4. s = cur /\ server.pc \in HasContext \ {"create_rx"}
    BY <1>1 DEF RxMove, OwnSession, TasksOfCur
  <1>5. task.pc = "recv" => task.on = s /\ server.pc # "grace"
    <2>1. task.pc = "recv" => owner[ctx.sock] \notin {Nothing, Http}
      BY <1>1, <1>3 DEF RxMove, OnlyBridgeClients
    <2>2. server.pc # "grace" => owner[ctx.sock] = cur
      BY <1>4 DEF IInv, OneDescriptor, HasContext, HasSocket
    <2>3. server.pc = "grace" => owner[ctx.sock] \in {Nothing, Http}
      BY DEF IInv, OneDescriptor
    <2> QED BY <1>1, <1>4, <2>1, <2>2, <2>3 DEF RxMove
  <1>6. server.pc = "grace" => task.pc # "uart"
    <2>1. rx[s].pc = "recv" => rx[s].on \in Sessions
      BY DEF OwnSession, OwnConnection
    <2>2. server.pc = "grace" => ~SockOpen(s)
      BY <1>4 DEF SockOpen, IInv, OneDescriptor, HasSocket
    <2> QED BY <1>1, <2>1, <2>2 DEF RxMove, OwnSession, OwnConnection
  <1>7. server.pc = "grace" => task.t < server.t
    BY <1>1, <1>2, <1>6 DEF RxMove, OwnSession, GraceLasts
  <1>8. TasksOfCur'
    BY <1>2, <1>3, <1>4 DEF OwnSession, TasksOfCur
  <1>9. OwnConnection'
    BY <1>2, <1>3, <1>5 DEF OwnSession, OwnConnection
  <1>10. GraceLasts'
    BY <1>2, <1>3, <1>7 DEF OwnSession, GraceLasts
  <1> QED BY <1>8, <1>9, <1>10 DEF OwnSession

(* The same of a sending task, which does not read the cache any more once *)
(* the server has cleared running.                                         *)
LEMMA TxOwnSession ==
    ASSUME IInv, OwnSession, OnlyBridgeClients, OnlyBridgeClients',
           NEW s \in Sessions, TxStep(s) \/ TxSendOk(s)
    PROVE  OwnSession'
  <1>1. PICK task : TxMove(s, task)
    BY TxStepMoves DEF IInv
  <1>2. /\ tx \in [Sessions -> TaskState(TxPcs)] /\ server \in [pc : ServerPcs, t : Nat]
        /\ tx[s] \in TaskState(TxPcs) /\ tx[s].t \in Nat
        /\ ctx.sock \in 0..(Fds - 1) /\ owner \in [0..(Fds - 1) -> Owners]
        /\ UNCHANGED <<server, cur, rx, owner>>
    BY <1>1 DEF TxMove, serverVars, netVars, IInv, ControlTypes, TaskState
  <1>3. /\ tx'[s] = task /\ \A c \in Sessions : c # s => tx'[c] = tx[c]
    BY <1>1, <1>2 DEF TxMove
  <1>4. s = cur /\ server.pc \in HasContext \ {"create_rx"}
    BY <1>1 DEF TxMove, OwnSession, TasksOfCur
  <1>5. task.pc = "send" => task.on = s /\ server.pc # "grace"
    <2>1. task.pc = "send" => owner[ctx.sock] \notin {Nothing, Http}
      BY <1>1, <1>3 DEF TxMove, OnlyBridgeClients
    <2>2. server.pc # "grace" => owner[ctx.sock] = cur
      BY <1>4 DEF IInv, OneDescriptor, HasContext, HasSocket
    <2>3. server.pc = "grace" => owner[ctx.sock] \in {Nothing, Http}
      BY DEF IInv, OneDescriptor
    <2> QED BY <1>1, <1>4, <2>1, <2>2, <2>3 DEF TxMove
  <1>6. server.pc = "grace" => task.pc # "read"
    BY <1>1 DEF TxMove, IInv, OneSemaphore
  <1>7. server.pc = "grace" => task.t < server.t
    BY <1>1, <1>2 DEF TxMove, OwnSession, GraceLasts
  <1>8. TasksOfCur'
    BY <1>2, <1>3, <1>4 DEF OwnSession, TasksOfCur
  <1>9. OwnConnection'
    BY <1>2, <1>3, <1>5 DEF OwnSession, OwnConnection
  <1>10. GraceLasts'
    BY <1>2, <1>3, <1>6, <1>7 DEF OwnSession, GraceLasts
  <1> QED BY <1>8, <1>9, <1>10 DEF OwnSession

(* Time takes as much from the server's delay as from every task's: none   *)
(* of them waits for anything else, the connection being closed.           *)
LEMMA TickOwnSession == IInv /\ OwnSession /\ Tick => OwnSession'
  <1> SUFFICES ASSUME IInv, OwnSession, Tick PROVE OwnSession'
    OBVIOUS
  <1>1. /\ \A s \in Sessions :
               /\ rx'[s].pc = rx[s].pc /\ rx'[s].on = rx[s].on /\ rx'[s].t = Down(rx[s].t)
               /\ tx'[s].pc = tx[s].pc /\ tx'[s].on = tx[s].on /\ tx'[s].t = Down(tx[s].t)
        /\ server'.pc = server.pc /\ server'.t = Down(server.t) /\ cur' = cur
    BY TickTasks DEF IInv
  <1>2. TasksOfCur'
    BY <1>1 DEF OwnSession, TasksOfCur, Live
  <1>3. OwnConnection'
    BY <1>1 DEF OwnSession, OwnConnection
  <1>4. GraceLasts'
    <2> SUFFICES ASSUME server.pc = "grace", NEW s \in Sessions
                 PROVE  /\ Live(rx[s]) => Down(rx[s].t) < Down(server.t)
                        /\ Live(tx[s]) => Down(tx[s].t) < Down(server.t)
                        /\ tx[s].pc # "read"
      BY <1>1 DEF GraceLasts, Live
    <2>1. server.t \in Nat /\ rx[s].t \in Nat /\ tx[s].t \in Nat
      BY DEF IInv, ControlTypes, TaskState
    <2>2. server.t > 0
      BY <2>1 DEF Tick, ServerWaits
    <2>3. ~SockOpen(s)
      BY DEF SockOpen, IInv, OneDescriptor, HasSocket
    <2>4. Live(rx[s]) => rx[s].t > 0 /\ rx[s].t < server.t
      BY <2>3 DEF Tick, RxWaits, Live, OwnSession, OwnConnection, GraceLasts, Http, Sessions
    <2>5. Live(tx[s]) => tx[s].t > 0 /\ tx[s].t < server.t
      BY <2>3 DEF Tick, TxWaits, Live, OwnSession, OwnConnection, GraceLasts, Http, Sessions
    <2>6. tx[s].pc # "read"
      BY DEF Tick, TxWaits
    <2> QED BY <2>1, <2>2, <2>4, <2>5, <2>6 DEF Down
  <1> QED BY <1>2, <1>3, <1>4 DEF OwnSession

(* Every step keeps it, as long as the tasks meet no web connection.       *)
LEMMA OwnSessionNext ==
    IInv /\ OwnSession /\ OnlyBridgeClients /\ OnlyBridgeClients' /\ [Next]_vars => OwnSession'
  <1> SUFFICES ASSUME IInv, OwnSession, OnlyBridgeClients, OnlyBridgeClients', [Next]_vars
               PROVE  OwnSession'
    OBVIOUS
  <1>1. CASE UNCHANGED <<server, cur, rx, tx>>
    BY <1>1 DEF OwnSession, TasksOfCur, OwnConnection, GraceLasts
  <1>2. CASE \E s \in Sessions : RxStep(s) \/ TxStep(s) \/ TxSendOk(s)
    BY <1>2, RxOwnSession, TxOwnSession
  <1>3. CASE \/ \E s \in Sessions : \/ ClientSends(s)
                                    \/ ClientGoes(s, "left") \/ ClientGoes(s, "silent")
             \/ ClientConnects \/ \E n \in 1..ChunkMax : UartIn(n)
             \/ HttpOpens \/ \E fd \in DOMAIN owner : HttpCloses(fd)
             \/ UNCHANGED vars
    BY <1>1, <1>3 DEF ClientSends, ClientGoes, ClientConnects, UartIn, HttpOpens, HttpCloses,
                      vars, serverVars
  <1> QED BY <1>2, <1>3, ServerOwnSession, TickOwnSession DEF Next

(* The tasks and the web server meet only if there are web connections.    *)
NoWeb == /\ outbox[Http] = 0
         /\ \A fd \in DOMAIN owner : owner[fd] # Http
         /\ OnlyBridgeClients

(* Without web connections every step keeps it so.                         *)
LEMMA NoWebNext == IInv /\ NoWeb /\ [Next]_vars => NoWeb'
  <1> SUFFICES ASSUME IInv, NoWeb, [Next]_vars PROVE NoWeb'
    OBVIOUS
  <1>0. /\ owner \in [0..(Fds - 1) -> Owners] /\ ctx.sock \in DOMAIN owner
        /\ outbox \in [Sessions \cup {Http} -> Nat] /\ Http \notin Sessions
        /\ rx \in [Sessions -> TaskState(RxPcs)] /\ tx \in [Sessions -> TaskState(TxPcs)]
        /\ Http # Nothing /\ Http # Listener
    BY DEF IInv, ControlTypes, Http, Sessions, Nothing, Listener
  <1>1. ASSUME UNCHANGED <<rx, tx>>, outbox'[Http] = outbox[Http],
               \A fd \in DOMAIN owner' : fd \in DOMAIN owner /\ owner'[fd] \in {owner[fd], Nothing}
        PROVE  NoWeb'
    BY <1>0, <1>1 DEF NoWeb, OnlyBridgeClients
  <1>2. CASE ServerStep
    <2>1. outbox' = outbox
      BY <1>2 DEF ServerStep, OpenListener, Accept, AcceptFails, BackoffDone, SetUpContext,
                  CreateRx, CreateTx, TakeExitSem, StopTasks, CloseSocket, DeleteExitSem, netVars
    <2>2. \A fd \in DOMAIN owner' : owner'[fd] # Http
      <3>1. CASE OpenListener \/ Accept
        <4>1. \E o \in Owners \ {Http} : \/ UNCHANGED owner
                                         \/ FreeFds # {} /\ owner' = [owner EXCEPT ![LowestFree] = o]
          <5>1. Listener \in Owners \ {Http}
            BY <1>0 DEF Owners
          <5>2. Accept => cur + 1 \in Owners \ {Http}
            <6>1. Accept => cur + 1 \in Sessions
              BY Numbers DEF Accept, Sessions, IInv, ControlTypes
            <6> QED BY <1>0, <6>1 DEF Owners
          <5> QED BY <3>1, <5>1, <5>2 DEF OpenListener, Accept
        <4> HIDE DEF LowestFree
        <4> QED BY <1>0, <4>1 DEF NoWeb
      <3>2. CASE CloseSocket
        BY <1>0, <3>2 DEF CloseSocket, NoWeb
      <3> QED BY <1>2, <3>1, <3>2 DEF ServerStep, AcceptFails, BackoffDone, SetUpContext, CreateRx,
                  CreateTx, TakeExitSem, StopTasks, DeleteExitSem, netVars, NoWeb
    <2>3. \A s \in Sessions : rx'[s].on = rx[s].on /\ tx'[s].on = tx[s].on
      <3>1. \A s \in Sessions : rx[s] \in TaskState(RxPcs) /\ tx[s] \in TaskState(TxPcs)
        BY <1>0
      <3>2. CASE CreateRx \/ CreateTx
        <4>1. /\ [rx[cur] EXCEPT !.pc = "start"].on = rx[cur].on
              /\ [tx[cur] EXCEPT !.pc = "start"].on = tx[cur].on
              /\ cur \in Sessions
          BY <3>1, <3>2 DEF TaskState, CreateRx, CreateTx, IInv, OneSemaphore, HasContext
        <4> QED BY <1>0, <3>2, <4>1 DEF CreateRx, CreateTx
      <3>3. CASE CloseSocket
        <4>1. \A s \in Sessions : /\ WokenBy(cur, rx[s]).on = rx[s].on
                                  /\ WokenBy(cur, tx[s]).on = tx[s].on
          BY <3>1, Woken
        <4> QED BY <3>3, <4>1 DEF CloseSocket
      <3>4. CASE UNCHANGED <<rx, tx>>
        BY <3>4
      <3> QED BY <1>2, <3>2, <3>3, <3>4 DEF ServerStep, OpenListener, Accept, AcceptFails,
                  BackoffDone, SetUpContext, TakeExitSem, StopTasks, DeleteExitSem
    <2> QED BY <2>1, <2>2, <2>3 DEF NoWeb, OnlyBridgeClients
  <1>3. ASSUME NEW s \in Sessions, RxStep(s) PROVE NoWeb'
    <2>1. PICK task : RxMove(s, task)
      BY <1>3, RxStepMoves DEF IInv
    <2> QED BY <1>0, <2>1 DEF RxMove, NoWeb, OnlyBridgeClients
  <1>4. ASSUME NEW s \in Sessions, TxStep(s) \/ TxSendOk(s) PROVE NoWeb'
    <2>1. PICK task : TxMove(s, task)
      BY <1>4, TxStepMoves DEF IInv
    <2> QED BY <1>0, <2>1 DEF TxMove, netVars, NoWeb, OnlyBridgeClients
  <1>5. CASE Tick
    <2>1. /\ \A s \in Sessions : rx'[s].on = rx[s].on /\ tx'[s].on = tx[s].on
          /\ UNCHANGED <<owner, outbox>>
      BY <1>5, TickTasks DEF IInv, netVars
    <2> QED BY <2>1 DEF NoWeb, OnlyBridgeClients
  <1>6. CASE \E s \in Sessions : ClientSends(s) \/ ClientGoes(s, "left") \/ ClientGoes(s, "silent")
    BY <1>0, <1>1, <1>6 DEF ClientSends, ClientGoes
  <1>7. CASE ClientConnects \/ (\E n \in 1..ChunkMax : UartIn(n)) \/ UNCHANGED vars
    BY <1>1, <1>7 DEF ClientConnects, UartIn, vars, netVars
  <1>8. CASE HttpOpens \/ \E fd \in DOMAIN owner : HttpCloses(fd)
    BY <1>8 DEF HttpOpens, HttpCloses, NoWeb
  <1> QED BY <1>2, <1>3, <1>4, <1>5, <1>6, <1>7, <1>8 DEF Next

(* A device whose web page nobody opens: the tasks never work on any       *)
(* connection but the bridge's.                                            *)
THEOREM NoWebNoMixUp == ASSUME MaxHttp = 0 PROVE Spec => []OnlyBridgeClients
  <1>1. Init => NoWeb
    BY Numbers, MaxHttp = 0 DEF Init, Start, NoWeb, OnlyBridgeClients, NoTask, Http, Nothing, Sessions
  <1>2. NoWeb => OnlyBridgeClients
    BY DEF NoWeb
  <1> QED BY <1>1, <1>2, NoWebNext, Invariance, PTL DEF Spec

(* While the tasks meet no web connection, every task alive is one of the  *)
(* current client, inside a call on that client's connection.              *)
LEMMA OwnSessionAlways == Spec /\ []OnlyBridgeClients => []OwnSession
  BY OwnSessionInit, OwnSessionNext, Invariance, PTL DEF Spec

(* The delay of 500 ms is enough: no task lives to see the semaphore gone  *)
(* or the ctx of the next client, as long as no recv or send of a task is  *)
(* on a connection of the web server; nothing else is assumed.             *)
THEOREM DelaySuffices == Spec /\ []OnlyBridgeClients => []ContextNotStale
  <1>1. IInv /\ OwnSession => ContextNotStale
    BY DEF IInv, OneSemaphore, OwnSession, TasksOfCur, ContextNotStale, HasContext
  <1> QED BY <1>1, Invariance, OwnSessionAlways, PTL

(* In particular it is enough when nobody opens the web page.              *)
THEOREM DelaySufficesWithoutWeb == ASSUME MaxHttp = 0 PROVE Spec => []ContextNotStale
  BY NoWebNoMixUp, DelaySuffices, MaxHttp = 0, PTL
-----------------------------------------------------------------------------
(***************************************************************************)
(* What becomes of the serial bytes, for every capacity of the cache,      *)
(* every chunk size, every length of the stream and every number of        *)
(* sessions: the cache and the senders hold runs of the stream, the end of *)
(* a session loses one chunk at most, and the clients get the bytes in     *)
(* their order.                                                            *)
(***************************************************************************)

(* The bytes of the stream that have left the cache, one way or another.   *)
Gone == received - Len(queue)

(* Where a sender has a chunk in its hands, and where it is ending.        *)
HoldPcs == {"call", "send"}
EndPcs  == {"exit", "give", "gone"}
Ended   == {s \in Sessions : tx[s].pc \in EndPcs}

(* The inductive invariant of the data: the cache holds the newest bytes   *)
(* of the stream, a sender in HoldPcs a run of older ones, and what was    *)
(* sent is older, too.                                                     *)
QueueIsNewest == /\ received \in 0..MaxBytes
                 /\ Len(queue) \in 0..Capacity /\ Len(queue) <= received
                 /\ queue = Run(Gone, Len(queue))

ChunkIsRun(s) == \E a \in Nat, n \in 0..ChunkMax : a + n <= Gone /\ chunk[s] = Run(a, n)

ChunksAreRuns == /\ chunk \in [Sessions -> Seq(Nat)]
                 /\ \A s \in Sessions : ChunkIsRun(s)
                 /\ \A s \in Sessions : chunk[s] # <<>> => tx[s].pc \in HoldPcs

SentIsOld == /\ sent \in Seq(Nat)
             /\ \A k \in 1..Len(sent) : sent[k] <= Gone

DataInv == QueueIsNewest /\ ChunksAreRuns /\ SentIsOld
-----------------------------------------------------------------------------
(* What a step does to the data.  Nothing, and a sender with a chunk keeps *)
(* it and one that has ended does not come back:                           *)
Quiet == /\ UNCHANGED cacheVars
         /\ \A s \in Sessions : /\ tx[s].pc \in HoldPcs => tx'[s].pc \in HoldPcs
                                /\ tx[s].pc \in EndPcs => tx'[s].pc \in EndPcs

(* Bytes come in; or sender s takes a chunk out of the cache, delivers the *)
(* one it has, or loses it and ends.                                       *)
OtherTx(s)  == \A c \in Sessions : c # s => tx'[c] = tx[c]
ComesIn(n)  == Cache!Write(n) /\ UNCHANGED <<sent, tx>>
Takes(s)    == /\ Cache!Read(s) /\ UNCHANGED sent /\ OtherTx(s)
               /\ tx[s].pc = "read" /\ tx'[s].pc \notin EndPcs
               /\ queue # <<>> => tx'[s].pc \in HoldPcs
Delivers(s) == /\ Cache!Consume(s) /\ sent' = sent \o chunk[s] /\ OtherTx(s)
               /\ tx[s].pc \in HoldPcs /\ tx'[s].pc \notin EndPcs
Loses(s)    == /\ Cache!Consume(s) /\ UNCHANGED sent /\ OtherTx(s)
               /\ tx[s].pc \in HoldPcs /\ tx'[s].pc \in EndPcs

DataStep == \/ Quiet
            \/ \E n \in 1..ChunkMax : ComesIn(n)
            \/ \E s \in Sessions : Takes(s) \/ Delivers(s) \/ Loses(s)

(* A step of a sender is one of these.                                     *)
LEMMA TxDataStep ==
    ASSUME IInv, NEW s \in Sessions, TxStep(s) \/ TxSendOk(s)
    PROVE  DataStep
  <1>0. tx \in [Sessions -> TaskState(TxPcs)] /\ s \in Sessions
    BY DEF IInv, ControlTypes
  <1>1. ASSUME NEW pc, TxGoes(s, pc)
        PROVE  tx'[s].pc = pc /\ OtherTx(s)
    BY <1>0, <1>1 DEF TxGoes, NoTask, OtherTx
  <1>2. ASSUME UNCHANGED cacheVars, tx[s].pc \notin HoldPcs, OtherTx(s),
               tx[s].pc \in EndPcs => tx'[s].pc \in EndPcs
        PROVE  Quiet
    BY <1>2 DEF Quiet, OtherTx
  <1>3. CASE TxStart(s)
    BY <1>1, <1>2, <1>3 DEF TxStart, HoldPcs, EndPcs, DataStep
  <1>4. CASE TxCheck(s)
    BY <1>1, <1>2, <1>4 DEF TxCheck, HoldPcs, EndPcs, DataStep
  <1>5. CASE TxRead(s)
    <2>1. /\ OtherTx(s) /\ tx'[s].pc \notin EndPcs
          /\ queue # <<>> => tx'[s].pc \in HoldPcs
      <3>1. CASE queue # <<>>
        BY <1>1, <1>5, <3>1 DEF TxRead, EndPcs, HoldPcs
      <3>2. CASE queue = <<>>
        <4>1. /\ [NoTask EXCEPT !.pc = "poll", !.t = Poll] = [pc |-> "poll", on |-> Nothing, t |-> Poll]
          BY Numbers, Moved
        <4>2. tx' = [tx EXCEPT ![s] = [pc |-> "poll", on |-> Nothing, t |-> Poll]]
          BY <1>5, <3>2, <4>1 DEF TxRead
        <4> QED BY <1>0, <3>2, <4>2 DEF OtherTx, EndPcs
      <3> QED BY <3>1, <3>2
    <2> QED BY <1>5, <2>1 DEF TxRead, Takes, DataStep
  <1>6. CASE TxPollDone(s)
    BY <1>1, <1>2, <1>6 DEF TxPollDone, HoldPcs, EndPcs, DataStep
  <1>7. CASE TxCall(s)
    <2>1. CASE owner[ctx.sock] = Nothing
      BY <1>1, <1>7, <2>1 DEF TxCall, Loses, HoldPcs, EndPcs, DataStep
    <2>2. CASE owner[ctx.sock] # Nothing
      <3>1. /\ tx' = [tx EXCEPT ![s] = [pc |-> "send", on |-> owner[ctx.sock], t |-> 0]]
            /\ UNCHANGED cacheVars /\ tx[s].pc = "call"
        BY <1>7, <2>2 DEF TxCall, cacheVars
      <3>2. tx'[s].pc = "send" /\ OtherTx(s)
        BY <1>0, <3>1 DEF OtherTx
      <3> QED BY <3>1, <3>2 DEF Quiet, OtherTx, HoldPcs, EndPcs, DataStep
    <2> QED BY <2>1, <2>2
  <1>8. CASE TxSendFails(s)
    BY <1>1, <1>8 DEF TxSendFails, Loses, HoldPcs, EndPcs, DataStep
  <1>9. CASE TxExit(s)
    BY <1>1, <1>2, <1>9 DEF TxExit, HoldPcs, EndPcs, DataStep
  <1>10. CASE TxGive(s)
    BY <1>1, <1>2, <1>10 DEF TxGive, HoldPcs, EndPcs, DataStep
  <1>11. CASE TxSendOk(s)
    BY <1>1, <1>11 DEF TxSendOk, Delivers, HoldPcs, EndPcs, DataStep
  <1> QED BY <1>3, <1>4, <1>5, <1>6, <1>7, <1>8, <1>9, <1>10, <1>11 DEF TxStep

(* So is every other step: only senders and the serial line touch data.    *)
LEMMA NextDataStep == IInv /\ [Next]_vars => DataStep
  <1> SUFFICES ASSUME IInv, [Next]_vars PROVE DataStep
    OBVIOUS
  <1>0. /\ rx \in [Sessions -> TaskState(RxPcs)] /\ tx \in [Sessions -> TaskState(TxPcs)]
    BY DEF IInv, ControlTypes
  <1>1. ASSUME UNCHANGED cacheVars, \A s \in Sessions : tx'[s].pc = tx[s].pc
        PROVE  DataStep
    BY <1>1 DEF Quiet, DataStep
  <1>2. CASE ServerStep
    <2>1. UNCHANGED cacheVars
      BY <1>2 DEF ServerStep, OpenListener, Accept, AcceptFails, BackoffDone, SetUpContext,
                  CreateRx, CreateTx, TakeExitSem, StopTasks, CloseSocket, DeleteExitSem
    <2>2. CASE CreateTx
      <3>1. cur \in Sessions /\ tx[cur] = NoTask
        BY <2>2 DEF CreateTx, IInv, OneSemaphore, HasSocket, HasContext, TasksInTurn
      <3>2. \A c \in Sessions : c # cur => tx'[c] = tx[c]
        BY <1>0, <2>2, <3>1 DEF CreateTx
      <3>3. tx[cur].pc \notin HoldPcs \cup EndPcs
        BY <3>1 DEF NoTask, HoldPcs, EndPcs
      <3> QED BY <2>1, <3>2, <3>3 DEF Quiet, DataStep
    <2>3. CASE CloseSocket
      <3>1. \A s \in Sessions : tx[s] \in TaskState(TxPcs)
        BY <1>0
      <3>2. \A s \in Sessions : WokenBy(cur, tx[s]).pc = tx[s].pc
        BY <3>1, Woken
      <3> QED BY <1>1, <2>1, <2>3, <3>2 DEF CloseSocket
    <2>4. CASE UNCHANGED tx
      BY <1>1, <2>1, <2>4
    <2> QED BY <1>2, <2>2, <2>3, <2>4 DEF ServerStep, OpenListener, Accept, AcceptFails,
                BackoffDone, SetUpContext, CreateRx, TakeExitSem, StopTasks, DeleteExitSem
  <1>3. ASSUME NEW s \in Sessions, RxStep(s) PROVE DataStep
    <2>1. PICK task : RxMove(s, task)
      BY <1>3, RxStepMoves DEF IInv
    <2> QED BY <1>1, <2>1 DEF RxMove
  <1>4. CASE Tick
    BY <1>1, <1>4, TickTasks DEF IInv
  <1>5. ASSUME NEW n \in 1..ChunkMax, UartIn(n) PROVE DataStep
    BY <1>5 DEF UartIn, ComesIn, DataStep
  <1>6. CASE \/ \E s \in Sessions : \/ ClientSends(s)
                                    \/ ClientGoes(s, "left") \/ ClientGoes(s, "silent")
             \/ ClientConnects \/ HttpOpens \/ (\E fd \in DOMAIN owner : HttpCloses(fd))
             \/ UNCHANGED vars
    BY <1>1, <1>6 DEF ClientSends, ClientGoes, ClientConnects, HttpOpens, HttpCloses, vars
  <1> QED BY <1>2, <1>3, <1>4, <1>5, <1>6, TxDataStep DEF Next
-----------------------------------------------------------------------------
(* The numbers of the data, and the parts of the stream in the cache.      *)
LEMMA Sizes == /\ Capacity \in Nat /\ Capacity > 0
               /\ ChunkMax \in Nat /\ ChunkMax > 0
               /\ MaxBytes \in Nat
  BY DataAssumption

LEMMA InCache ==
    QueueIsNewest => /\ Len(queue) \in Nat /\ received \in Nat /\ Gone \in Nat
                     /\ received = Gone + Len(queue) /\ received <= MaxBytes
                     /\ Len(queue) <= Capacity
  BY Sizes DEF QueueIsNewest, Gone

(* The operators of SeqEnds are the same ones in the instance.             *)
LEMMA CacheEnds ==
    ASSUME NEW s, NEW n
    PROVE  /\ Cache!Prefix(s, n) = Prefix(s, n)
           /\ Cache!Rest(s, n) = Rest(s, n)
           /\ Cache!Newest(s, n) = Newest(s, n)
  BY DEF Cache!Prefix, Cache!Rest, Cache!Newest, Prefix, Rest, Newest

(* Bytes that come in push the oldest ones out.                            *)
LEMMA ComesInEffect ==
    ASSUME QueueIsNewest, NEW n \in 1..ChunkMax, ComesIn(n)
    PROVE  /\ received' = received + n /\ received + n <= MaxBytes
           /\ QueueIsNewest'
           /\ Gone <= Gone' /\ (Gone' > Gone => Gone' + Capacity = received + n)
           /\ UNCHANGED <<chunk, sent, tx>>
  <1> DEFINE g == Gone
             q == Len(queue)
             m == IF q + n > Capacity THEN Capacity ELSE q + n
             h == g + (q + n - m)
  <1>1. /\ g \in Nat /\ q \in Nat /\ n \in Nat /\ received = g + q /\ received \in Nat
        /\ Capacity \in Nat /\ MaxBytes \in Nat /\ q <= Capacity
    BY InCache, Sizes
  <1>2. /\ m \in 0..Capacity /\ m \in Nat /\ m <= q + n
        /\ h \in Nat /\ h + m = g + (q + n) /\ g <= h
        /\ h > g => m = Capacity
    <2> HIDE DEF g, q
    <2>1. CASE q + n > Capacity
      BY <1>1, <2>1
    <2>2. CASE ~(q + n > Capacity)
      BY <1>1, <2>2
    <2> QED BY <2>1, <2>2
  <1>3. queue = Run(g, q)
    BY DEF QueueIsNewest
  <1>4. /\ received + n <= MaxBytes /\ received' = received + n
        /\ queue' = Newest(queue \o [k \in 1..n |-> received + k], Capacity)
        /\ UNCHANGED <<chunk, sent, tx>>
    BY CacheEnds DEF ComesIn, Cache!Write
  <1> HIDE DEF g, q
  <1>5. queue \o [k \in 1..n |-> received + k] = Run(g, q + n)
    <2>1. [k \in 1..n |-> received + k] = Run(g + q, n) /\ n \in Nat
      BY <1>1 DEF Run
    <2>2. Run(g, q) \o Run(g + q, n) = Run(g, q + n)
      <3>1. g \in Nat /\ q \in Nat /\ n \in Nat
        BY <1>1
      <3> QED BY ONLY <3>1, RunConcat
    <2> QED BY <1>3, <2>1, <2>2
  <1>6. queue' = Run(h, m)
    <2> DEFINE all == q + n
    <2>1. all \in Nat
      BY <1>1
    <2>2. Newest(Run(g, all), Capacity)
              = IF all > Capacity THEN Run(g + (all - Capacity), Capacity) ELSE Run(g, all)
      <3> HIDE DEF all
      <3> QED BY <1>1, <2>1, RunEnds
    <2>3. CASE all > Capacity
      <3>1. m = Capacity /\ h = g + (all - Capacity)
        BY <1>1, <2>3
      <3>2. queue' = Newest(Run(g, all), Capacity)
        BY <1>4, <1>5
      <3> HIDE DEF m, h, all
      <3> QED BY <2>2, <2>3, <3>1, <3>2
    <2>4. CASE ~(all > Capacity)
      <3>1. all - all = 0 /\ g + 0 = g
        BY <1>1, <2>1
      <3>2. m = all /\ h = g + (all - all)
        BY <1>1, <2>4
      <3>3. queue' = Newest(Run(g, all), Capacity)
        BY <1>4, <1>5
      <3> HIDE DEF m, h, all
      <3> QED BY <2>2, <2>4, <3>1, <3>2, <3>3
    <2> QED BY <2>3, <2>4
  <1> HIDE DEF m, h
  <1>7. Len(queue') = m
    BY <1>2, <1>6, RunIsSeq
  <1>8. Gone' = h
    BY <1>1, <1>2, <1>4, <1>7 DEF Gone
  <1>9. QueueIsNewest'
    <2>1. m <= g + (q + n) /\ g + (q + n) = received + n /\ received + n \in 0..MaxBytes
      BY <1>1, <1>2, <1>4
    <2>2. received' \in 0..MaxBytes /\ Len(queue') \in 0..Capacity /\ Len(queue') <= received'
      BY <1>2, <1>4, <1>7, <2>1
    <2> QED BY <1>6, <1>7, <1>8, <2>2 DEF QueueIsNewest
  <1>10. Gone <= Gone' /\ (Gone' > Gone => Gone' + Capacity = received + n)
    <2>1. h > g => h + Capacity = received + n
      BY <1>1, <1>2
    <2> QED BY <1>2, <1>8, <2>1 DEF g
  <1> QED BY <1>4, <1>9, <1>10

(* rb_read takes the oldest bytes, and leaves the rest.                    *)
LEMMA TakesEffect ==
    ASSUME DataInv, NEW s \in Sessions, Takes(s)
    PROVE  /\ QueueIsNewest' /\ chunk \in [Sessions -> Seq(Nat)]
           /\ chunk[s] = <<>>
           /\ \E m \in 0..ChunkMax : /\ Gone' = Gone + m
                                     /\ chunk' = [chunk EXCEPT ![s] = Run(Gone, m)]
                                     /\ queue = <<>> => m = 0
           /\ UNCHANGED <<received, sent>>
  <1> DEFINE g == Gone
             q == Len(queue)
             m == IF q > ChunkMax THEN ChunkMax ELSE q
             h == g + m
             r == q - m
  <1>1. /\ g \in Nat /\ q \in Nat /\ received = g + q /\ received \in Nat
        /\ ChunkMax \in Nat /\ Capacity \in Nat /\ q <= Capacity
    BY InCache, Sizes DEF DataInv
  <1>2. /\ m \in 0..ChunkMax /\ m \in Nat /\ m <= q
        /\ h \in Nat /\ r \in 0..Capacity /\ r \in Nat /\ h + r = g + q
    <2> HIDE DEF g, q
    <2>1. CASE q > ChunkMax
      BY <1>1, <2>1
    <2>2. CASE ~(q > ChunkMax)
      BY <1>1, <2>2
    <2> QED BY <2>1, <2>2
  <1>3. queue = Run(g, q)
    BY DEF DataInv, QueueIsNewest
  <1>4. /\ chunk[s] = <<>> /\ UNCHANGED <<received, sent>>
        /\ chunk' = [chunk EXCEPT ![s] = Prefix(queue, ChunkMax)]
        /\ queue' = Rest(queue, ChunkMax)
    BY CacheEnds DEF Takes, Cache!Read
  <1>5. queue = <<>> => q = 0
    BY EmptySeq
  <1> HIDE DEF g, q
  <1>6. Prefix(queue, ChunkMax) = Run(g, m)
    BY <1>1, <1>3, RunEnds
  <1>7. queue' = Run(h, r)
    <2>1. Rest(Run(g, q), ChunkMax)
              = IF q > ChunkMax THEN Run(g + ChunkMax, q - ChunkMax) ELSE <<>>
      BY <1>1, RunEnds
    <2>2. CASE q > ChunkMax
      BY <1>3, <1>4, <2>1, <2>2
    <2>3. CASE ~(q > ChunkMax)
      <3>1. r = 0
        BY <1>1, <2>3
      <3>2. queue' = <<>>
        BY <1>3, <1>4, <2>1, <2>3
      <3> HIDE DEF h, r
      <3> QED BY <1>2, <3>1, <3>2, RunIsSeq
    <2> QED BY <2>2, <2>3
  <1>8. queue = <<>> => m = 0
    BY <1>1, <1>5
  <1> HIDE DEF m, h, r
  <1>9. Len(queue') = r
    BY <1>2, <1>7, RunIsSeq
  <1>10. Gone' = h
    BY <1>1, <1>2, <1>4, <1>9 DEF Gone
  <1>11. QueueIsNewest'
    <2>1. received' \in 0..MaxBytes /\ r <= received
      BY <1>1, <1>2, <1>4 DEF DataInv, QueueIsNewest
    <2>2. Len(queue') \in 0..Capacity /\ Len(queue') <= received'
      BY <1>2, <1>4, <1>9, <2>1
    <2> QED BY <1>7, <1>9, <1>10, <2>1, <2>2 DEF QueueIsNewest
  <1>12. chunk' = [chunk EXCEPT ![s] = Run(Gone, m)] /\ Gone' = Gone + m
    BY <1>4, <1>6, <1>10 DEF g, h
  <1> QED BY <1>2, <1>4, <1>8, <1>11, <1>12 DEF DataInv, ChunksAreRuns

(* A sender without a chunk holds a run, and it may keep the one it has    *)
(* when more bytes leave the cache.                                        *)
LEMMA ChunkKept ==
    ASSUME QueueIsNewest, NEW s \in Sessions, Gone <= Gone', Gone' \in Nat,
           \/ chunk'[s] = chunk[s] /\ ChunkIsRun(s)
           \/ chunk'[s] = <<>>
    PROVE  ChunkIsRun(s)'
  <1>1. Gone \in Nat /\ 0 \in 0..ChunkMax
    BY InCache, Sizes
  <1>2. CASE chunk'[s] = <<>>
    <2>1. Run(0, 0) = <<>> /\ 0 + 0 <= Gone'
      BY RunIsSeq
    <2> QED BY <1>1, <1>2, <2>1 DEF ChunkIsRun
  <1>3. CASE chunk'[s] = chunk[s] /\ ChunkIsRun(s)
    <2>1. PICK a \in Nat, n \in 0..ChunkMax : a + n <= Gone /\ chunk[s] = Run(a, n)
      BY <1>3 DEF ChunkIsRun
    <2>2. a + n <= Gone'
      BY <1>1, <2>1, Sizes
    <2> QED BY <1>3, <2>1, <2>2 DEF ChunkIsRun
  <1> QED BY <1>2, <1>3

(* At first there is no data.                                              *)
LEMMA DataInit == Init => DataInv
  <1> SUFFICES ASSUME Init PROVE DataInv
    OBVIOUS
  <1>1. /\ queue = <<>> /\ received = 0 /\ sent = <<>>
        /\ chunk = [s \in Sessions |-> <<>>]
    BY DEF Init, Start, Cache!Init
  <1>2. Run(0, 0) = <<>> /\ <<>> \in Seq(Nat) /\ Len(<<>>) = 0
    BY RunIsSeq, EmptySeq
  <1>3. Gone = 0
    <2>1. Len(queue) = 0 /\ 0 - 0 = 0
      BY <1>1, <1>2
    <2> QED BY <1>1, <2>1 DEF Gone
  <1>4. QueueIsNewest
    BY <1>1, <1>2, <1>3, Sizes DEF QueueIsNewest
  <1>5. ChunksAreRuns
    BY <1>1, <1>2, <1>3, Sizes DEF ChunksAreRuns, ChunkIsRun
  <1>6. SentIsOld
    BY <1>1, <1>2 DEF SentIsOld
  <1> QED BY <1>4, <1>5, <1>6 DEF DataInv

(* Every step keeps the invariant of the data.                             *)
LEMMA DataNext == DataInv /\ DataStep => DataInv'
  <1> SUFFICES ASSUME DataInv, DataStep PROVE DataInv'
    OBVIOUS
  <1>0. /\ QueueIsNewest /\ ChunksAreRuns /\ SentIsOld /\ Gone \in Nat
        /\ chunk \in [Sessions -> Seq(Nat)] /\ sent \in Seq(Nat) /\ Len(sent) \in Nat
    BY InCache, LenProperties DEF DataInv, ChunksAreRuns, SentIsOld
  <1>1. CASE Quiet
    <2>1. UNCHANGED <<queue, received, chunk, sent>>
      BY <1>1 DEF Quiet, cacheVars
    <2>2. \A s \in Sessions : tx[s].pc \in HoldPcs => tx'[s].pc \in HoldPcs
      BY <1>1 DEF Quiet
    <2> QED BY <1>0, <2>1, <2>2 DEF DataInv, QueueIsNewest, ChunksAreRuns, ChunkIsRun, SentIsOld,
                                    Gone
  <1>2. ASSUME NEW n \in 1..ChunkMax, ComesIn(n) PROVE DataInv'
    <2>1. /\ QueueIsNewest' /\ Gone <= Gone' /\ UNCHANGED <<chunk, sent, tx>>
      BY <1>0, <1>2, ComesInEffect
    <2>2. Gone' \in Nat
      BY <2>1 DEF QueueIsNewest, Gone
    <2>3. ChunksAreRuns'
      BY <1>0, <2>1, <2>2, ChunkKept DEF ChunksAreRuns
    <2>4. SentIsOld'
      <3> SUFFICES ASSUME NEW k \in 1..Len(sent) PROVE sent[k] <= Gone'
        BY <1>0, <2>1 DEF SentIsOld
      <3>1. sent[k] \in Nat /\ sent[k] <= Gone
        BY <1>0, ElementOfSeq DEF SentIsOld
      <3> QED BY <1>0, <2>1, <2>2, <3>1
    <2> QED BY <2>1, <2>3, <2>4 DEF DataInv
  <1>3. ASSUME NEW s \in Sessions, Takes(s) PROVE DataInv'
    <2>1. PICK m \in 0..ChunkMax : /\ Gone' = Gone + m
                                   /\ chunk' = [chunk EXCEPT ![s] = Run(Gone, m)]
                                   /\ queue = <<>> => m = 0
      BY <1>3, TakesEffect
    <2>2. QueueIsNewest' /\ UNCHANGED <<received, sent>>
      BY <1>3, TakesEffect
    <2>3. m \in Nat /\ Gone' \in Nat /\ Gone <= Gone'
      BY <1>0, <2>1, Sizes
    <2>4. Run(Gone, m) \in Seq(Nat) /\ (m = 0 => Run(Gone, m) = <<>>)
      BY <1>0, <2>3, RunIsSeq
    <2>5. ChunksAreRuns'
      <3>1. chunk' \in [Sessions -> Seq(Nat)]
        BY <1>0, <2>1, <2>4
      <3>2. chunk'[s] = Run(Gone, m) /\ \A c \in Sessions : c # s => chunk'[c] = chunk[c]
        BY <1>0, <2>1
      <3>3. ChunkIsRun(s)'
        BY <1>0, <2>1, <3>2 DEF ChunkIsRun
      <3>4. \A c \in Sessions : ChunkIsRun(c)'
        <4> SUFFICES ASSUME NEW c \in Sessions, c # s PROVE ChunkIsRun(c)'
          BY <3>3
        <4>1. chunk'[c] = chunk[c] /\ ChunkIsRun(c)
          BY <1>0, <3>2 DEF ChunksAreRuns
        <4> QED BY <1>0, <2>3, <4>1, ChunkKept
      <3>5. \A c \in Sessions : chunk'[c] # <<>> => tx'[c].pc \in HoldPcs
        <4>1. chunk'[s] # <<>> => tx'[s].pc \in HoldPcs
          BY <1>3, <2>1, <2>4, <3>2 DEF Takes
        <4>2. \A c \in Sessions : c # s => tx'[c] = tx[c]
          BY <1>3 DEF Takes, OtherTx
        <4> QED BY <1>0, <3>2, <4>1, <4>2 DEF ChunksAreRuns
      <3> QED BY <3>1, <3>4, <3>5 DEF ChunksAreRuns
    <2>6. SentIsOld'
      <3> SUFFICES ASSUME NEW k \in 1..Len(sent) PROVE sent[k] <= Gone'
        BY <1>0, <2>2 DEF SentIsOld
      <3>1. sent[k] \in Nat /\ sent[k] <= Gone
        BY <1>0, ElementOfSeq DEF SentIsOld
      <3> QED BY <1>0, <2>3, <3>1
    <2> QED BY <2>2, <2>5, <2>6 DEF DataInv
  <1>4. ASSUME NEW s \in Sessions, Delivers(s) \/ Loses(s) PROVE DataInv'
    <2>1. /\ chunk' = [chunk EXCEPT ![s] = <<>>] /\ UNCHANGED <<queue, received>>
          /\ \A c \in Sessions : c # s => tx'[c] = tx[c]
      BY <1>4 DEF Delivers, Loses, OtherTx, Cache!Consume
    <2>2. QueueIsNewest' /\ Gone' = Gone
      BY <1>0, <2>1 DEF QueueIsNewest, Gone
    <2>3. ChunksAreRuns'
      <3>1. <<>> \in Seq(Nat)
        BY EmptySeq
      <3>2. /\ chunk' \in [Sessions -> Seq(Nat)] /\ chunk'[s] = <<>>
            /\ \A c \in Sessions : c # s => chunk'[c] = chunk[c]
        BY <1>0, <2>1, <3>1
      <3>3. \A c \in Sessions : ChunkIsRun(c)'
        <4> SUFFICES ASSUME NEW c \in Sessions PROVE ChunkIsRun(c)'
          OBVIOUS
        <4>1. Gone <= Gone' /\ Gone' \in Nat
          BY <1>0, <2>2
        <4>2. \/ chunk'[c] = chunk[c] /\ ChunkIsRun(c)
              \/ chunk'[c] = <<>>
          BY <1>0, <3>2 DEF ChunksAreRuns
        <4> QED BY <1>0, <4>1, <4>2, ChunkKept
      <3> QED BY <1>0, <2>1, <3>2, <3>3 DEF ChunksAreRuns
    <2>4. SentIsOld'
      <3>1. CASE Loses(s)
        BY <1>0, <2>2, <3>1 DEF Loses, SentIsOld
      <3>2. CASE Delivers(s)
        <4>1. sent' = sent \o chunk[s]
          BY <3>2 DEF Delivers
        <4>2. PICK a \in Nat, n \in 0..ChunkMax : a + n <= Gone /\ chunk[s] = Run(a, n)
          BY <1>0 DEF ChunksAreRuns, ChunkIsRun
        <4>3. /\ n \in Nat /\ Run(a, n) \in Seq(Nat) /\ Len(Run(a, n)) = n
              /\ \A k \in 1..n : Run(a, n)[k] = a + k
          BY <4>2, RunIsSeq, Sizes
        <4>4. /\ sent' \in Seq(Nat) /\ Len(sent') = Len(sent) + n
              /\ \A k \in 1..(Len(sent) + n) :
                     sent'[k] = IF k <= Len(sent) THEN sent[k] ELSE Run(a, n)[k - Len(sent)]
          <5> DEFINE t == Run(a, n)
          <5>1. t \in Seq(Nat) /\ Len(t) = n /\ sent' = sent \o t
            BY <4>1, <4>2, <4>3
          <5> HIDE DEF t
          <5>2. /\ sent \o t \in Seq(Nat) /\ Len(sent \o t) = Len(sent) + Len(t)
                /\ \A k \in 1..(Len(sent) + Len(t)) :
                       (sent \o t)[k] = IF k <= Len(sent) THEN sent[k] ELSE t[k - Len(sent)]
            BY <1>0, <5>1, ConcatProperties
          <5> QED BY <5>1, <5>2 DEF t
        <4>5. ASSUME NEW k \in 1..(Len(sent) + n) PROVE sent'[k] <= Gone
          <5>1. CASE k <= Len(sent)
            <6>1. k \in 1..Len(sent)
              BY <1>0, <4>3, <5>1
            <6> QED BY <1>0, <4>4, <5>1, <6>1 DEF SentIsOld
          <5>2. CASE ~(k <= Len(sent))
            <6>1. k - Len(sent) \in 1..n
              BY <1>0, <4>3, <5>2
            <6>2. sent'[k] = a + (k - Len(sent))
              BY <4>3, <4>4, <5>2, <6>1
            <6> QED BY <1>0, <4>2, <4>3, <6>1, <6>2
          <5> QED BY <5>1, <5>2
        <4> QED BY <2>2, <4>4, <4>5 DEF SentIsOld
      <3> QED BY <1>4, <3>1, <3>2
    <2> QED BY <2>2, <2>3, <2>4 DEF DataInv
  <1> QED BY <1>1, <1>2, <1>3, <1>4 DEF DataStep

(* Both invariants hold in every reachable state.                          *)
LEMMA DataInvariance == Spec => [](IInv /\ DataInv)
  BY Invariance, DataInit, DataNext, NextDataStep, PTL DEF Spec

(* Every variable of the bridge keeps its type: no give is counted twice,  *)
(* no descriptor and no client is out of range, no delay is negative, and  *)
(* the cache never holds more than UART_CACHE_SIZE bytes.                  *)
THEOREM TypeCorrect == Spec => []TypeOK
  <1>1. IInv /\ DataInv => TypeOK
    <2> SUFFICES ASSUME IInv, DataInv PROVE TypeOK
      OBVIOUS
    <2>1. queue \in Seq(Nat) /\ Len(queue) <= Capacity /\ received \in 0..MaxBytes
      BY InCache, RunIsSeq DEF DataInv, QueueIsNewest
    <2>2. chunk \in [Sessions -> Seq(Nat)] /\ sent \in Seq(Nat)
      BY DEF DataInv, ChunksAreRuns, SentIsOld
    <2> QED BY <2>1, <2>2 DEF IInv, ControlTypes, ServerPcs, RxPcs, TxPcs, Owners, TypeOK
  <1> QED BY <1>1, DataInvariance, PTL
-----------------------------------------------------------------------------
(* Which bytes are in the cache: all that came in after those that left.   *)
LEMMA CachedIff ==
    QueueIsNewest => \A b \in Nat : Cached(b) <=> Gone < b /\ b <= received
  <1> SUFFICES ASSUME QueueIsNewest, NEW b \in Nat
               PROVE  Cached(b) <=> Gone < b /\ b <= received
    OBVIOUS
  <1> DEFINE g == Gone
             q == Len(queue)
  <1>1. g \in Nat /\ q \in Nat /\ received = g + q
    BY InCache
  <1>2. queue = Run(g, q)
    BY DEF QueueIsNewest
  <1> HIDE DEF g, q
  <1>3. DOMAIN queue = 1..q /\ \A k \in 1..q : queue[k] = g + k
    BY <1>1, <1>2 DEF Run
  <1>4. Cached(b) => g < b /\ b <= received
    BY <1>1, <1>3 DEF Cached
  <1>5. g < b /\ b <= received => Cached(b)
    <2> SUFFICES ASSUME g < b, b <= received PROVE Cached(b)
      OBVIOUS
    <2>1. b - g \in 1..q /\ g + (b - g) = b
      BY <1>1
    <2> QED BY <1>3, <2>1 DEF Cached
  <1> QED BY <1>4, <1>5 DEF g

(* A missing byte has left the cache.                                      *)
MissingHere(b) == /\ b \in Nat /\ b > 0 /\ b <= Gone /\ b > received - Capacity
                  /\ ~InHand(b) /\ ~Sent(b)

LEMMA MissingIff == QueueIsNewest => \A b : b \in Missing <=> MissingHere(b)
  <1> SUFFICES ASSUME QueueIsNewest, NEW b PROVE b \in Missing <=> MissingHere(b)
    OBVIOUS
  <1>1. received \in Nat /\ Gone \in Nat /\ Gone <= received
    BY InCache
  <1>2. b \in 1..received => (Cached(b) <=> Gone < b)
    BY <1>1, CachedIff
  <1> QED BY <1>1, <1>2 DEF Missing, MissingHere

(* Finite sets, as cardinalities need them.                                *)
LEMMA Finite ==
    /\ QueueIsNewest => IsFiniteSet(Missing) /\ Cardinality(Missing) \in Nat
    /\ IsFiniteSet(Ended) /\ Cardinality(Ended) \in Nat
  <1>1. QueueIsNewest => IsFiniteSet(Missing)
    <2> SUFFICES ASSUME QueueIsNewest PROVE IsFiniteSet(Missing)
      OBVIOUS
    <2>1. received \in Int /\ 1 \in Int
      BY InCache
    <2>2. IsFiniteSet(1..received)
      BY <2>1, FS_Interval
    <2>3. Missing \in SUBSET (1..received)
      BY DEF Missing
    <2> QED BY <2>2, <2>3, FS_Subset
  <1>2. IsFiniteSet(Ended)
    <2>1. MaxSessions \in Int /\ 1 \in Int
      BY Numbers
    <2>2. IsFiniteSet(Sessions)
      BY <2>1, FS_Interval DEF Sessions
    <2>3. Ended \in SUBSET Sessions
      BY DEF Ended
    <2> QED BY <2>2, <2>3, FS_Subset
  <1> QED BY <1>1, <1>2, FS_CardinalityType

(* A step that makes no byte missing and lets no ended sender come back.   *)
LEMMA NothingLost ==
    ASSUME QueueIsNewest, QueueIsNewest', LossPerSession,
           Missing' \subseteq Missing, Ended \subseteq Ended'
    PROVE  LossPerSession'
  <1>1. /\ IsFiniteSet(Missing) /\ Cardinality(Missing) \in Nat
        /\ Cardinality(Missing') \in Nat /\ Cardinality(Missing') <= Cardinality(Missing)
    BY Finite, FS_Subset, FS_CardinalityType
  <1>2. Sessions = 1..MaxSessions /\ 1 \in Int /\ MaxSessions \in Int
    BY Numbers DEF Sessions
  <1>3. IsFiniteSet(Ended')
    <2>1. Ended' \in SUBSET (1..MaxSessions)
      BY <1>2 DEF Ended
    <2> QED BY <1>2, <2>1, FS_Interval, FS_Subset
  <1>4. /\ Cardinality(Ended) \in Nat /\ Cardinality(Ended') \in Nat
        /\ Cardinality(Ended) <= Cardinality(Ended')
    BY <1>3, Finite, FS_Subset, FS_CardinalityType
  <1>5. ChunkMax * Cardinality(Ended) <= ChunkMax * Cardinality(Ended')
    <2> DEFINE c == Cardinality(Ended)
               d == Cardinality(Ended')
    <2>1. c \in Nat /\ d \in Nat /\ c <= d /\ ChunkMax \in Nat
      BY <1>4, Sizes
    <2> HIDE DEF c, d
    <2>2. ChunkMax * c <= ChunkMax * d
      BY <2>1
    <2> QED BY <2>2 DEF c, d
  <1>6. Cardinality(Missing) <= ChunkMax * Cardinality(Ended)
    BY DEF LossPerSession, Ended, EndPcs
  <1>7. Cardinality(Missing') <= ChunkMax * Cardinality(Ended')
    <2> DEFINE x == ChunkMax * Cardinality(Ended)
               y == ChunkMax * Cardinality(Ended')
    <2>1. x \in Nat /\ y \in Nat
      BY <1>4, Sizes
    <2> HIDE DEF x, y
    <2>2. Cardinality(Missing) <= x /\ x <= y
      BY <1>5, <1>6 DEF x, y
    <2>3. Cardinality(Missing') <= y
      BY <1>1, <2>1, <2>2
    <2> QED BY <2>3 DEF y
  <1> QED BY <1>7 DEF LossPerSession, Ended, EndPcs

(* The sender that ends loses the chunk it has, and adds itself to those   *)
(* that have ended.                                                        *)
LEMMA OneChunkLost ==
    ASSUME QueueIsNewest, QueueIsNewest', LossPerSession,
           NEW s \in Sessions \ Ended, Ended' = Ended \cup {s},
           NEW a \in Nat, NEW n \in 0..ChunkMax,
           Missing' \subseteq Missing \cup ((a + 1)..(a + n))
    PROVE  LossPerSession'
  <1> DEFINE lost == (a + 1)..(a + n)
             c == Cardinality(Ended)
             m == Cardinality(Missing)
  <1>1. n \in Nat /\ ChunkMax \in Nat /\ n <= ChunkMax /\ a + 1 \in Int /\ a + n \in Int
    BY Sizes
  <1>2. IsFiniteSet(lost) /\ Cardinality(lost) = n
    BY <1>1, FS_Interval
  <1>3. IsFiniteSet(Missing) /\ m \in Nat /\ IsFiniteSet(Ended) /\ c \in Nat
    BY Finite
  <1>4. /\ IsFiniteSet(Missing \cup lost)
        /\ Cardinality(Missing \cup lost) <= m + n
    <2> HIDE DEF lost
    <2>1. /\ IsFiniteSet(Missing \cup lost)
          /\ Cardinality(Missing \cup lost)
                = Cardinality(Missing) + Cardinality(lost) - Cardinality(Missing \cap lost)
      BY <1>2, <1>3, FS_Union
    <2>2. Cardinality(Missing \cap lost) \in Nat
      <3>1. Missing \cap lost \in SUBSET Missing
        OBVIOUS
      <3> QED BY <1>3, <3>1, FS_Subset, FS_CardinalityType
    <2> QED BY <1>1, <1>2, <1>3, <2>1, <2>2
  <1>5. Cardinality(Missing') \in Nat /\ Cardinality(Missing') <= m + n
    <2> HIDE DEF lost
    <2>1. Missing' \in SUBSET (Missing \cup lost)
      BY DEF lost
    <2>2. /\ IsFiniteSet(Missing') /\ Cardinality(Missing') <= Cardinality(Missing \cup lost)
      BY <1>4, <2>1, FS_Subset
    <2>3. Cardinality(Missing') \in Nat /\ Cardinality(Missing \cup lost) \in Nat
      BY <1>4, <2>2, FS_CardinalityType
    <2> QED BY <1>1, <1>3, <1>4, <2>2, <2>3
  <1>6. Cardinality(Ended') = c + 1
    BY <1>3, FS_AddElement
  <1>7. m <= ChunkMax * c
    BY DEF LossPerSession, Ended, EndPcs
  <1> HIDE DEF m, c
  <1>8. ChunkMax * (c + 1) = ChunkMax * c + ChunkMax /\ ChunkMax * c \in Nat
    BY <1>1, <1>3
  <1>9. m + n <= ChunkMax * (c + 1)
    BY <1>1, <1>3, <1>7, <1>8
  <1>10. Cardinality(Missing') <= ChunkMax * Cardinality(Ended')
    <2> DEFINE y == ChunkMax * (c + 1)
    <2>1. y \in Nat
      BY <1>1, <1>8
    <2> HIDE DEF y
    <2>2. Cardinality(Missing') <= y
      BY <1>1, <1>3, <1>5, <1>9, <2>1 DEF y
    <2> QED BY <1>6, <2>2 DEF y
  <1> QED BY <1>10 DEF LossPerSession, Ended, EndPcs

(* The end of a session costs one chunk at most, every other step nothing. *)
LEMMA LossNext == DataInv /\ DataInv' /\ LossPerSession /\ DataStep => LossPerSession'
  <1> SUFFICES ASSUME DataInv, DataInv', LossPerSession, DataStep PROVE LossPerSession'
    OBVIOUS
  <1>0. /\ QueueIsNewest /\ QueueIsNewest' /\ ChunksAreRuns /\ ChunksAreRuns'
        /\ chunk \in [Sessions -> Seq(Nat)] /\ sent \in Seq(Nat)
        /\ Gone \in Nat /\ received \in Nat
    BY InCache DEF DataInv, ChunksAreRuns, SentIsOld
  <1>1. \A b : b \in Missing' <=> MissingHere(b)'
    <2>1. Gone' \in Nat /\ received' \in Nat /\ Gone' <= received'
      BY <1>0, Sizes DEF QueueIsNewest, Gone
    <2>2. \A b \in 1..received' : Cached(b)' <=> Gone' < b
      <3> SUFFICES ASSUME NEW b \in 1..received' PROVE Cached(b)' <=> Gone' < b
        OBVIOUS
      <3> DEFINE g == Gone'
                 q == Len(queue')
      <3>1. g \in Nat /\ q \in Nat /\ received' = g + q /\ b \in Nat /\ b <= received'
        BY <1>0, <2>1 DEF QueueIsNewest, Gone
      <3>2. queue' = Run(g, q)
        BY <1>0 DEF QueueIsNewest
      <3> HIDE DEF g, q
      <3>3. DOMAIN queue' = 1..q /\ \A k \in 1..q : queue'[k] = g + k
        BY <3>1, <3>2 DEF Run
      <3>4. Cached(b)' => g < b
        BY <3>1, <3>3 DEF Cached
      <3>5. ASSUME g < b PROVE Cached(b)'
        <4>1. b - g \in 1..q /\ g + (b - g) = b
          BY <3>1, <3>5
        <4> QED BY <3>3, <4>1 DEF Cached
      <3> QED BY <3>4, <3>5 DEF g
    <2> QED BY <2>1, <2>2 DEF Missing, MissingHere
  <1>2. \A b : b \in Missing <=> MissingHere(b)
    BY <1>0, MissingIff
  <1>3. CASE Quiet
    <2>1. UNCHANGED <<queue, received, chunk, sent>> /\ Ended \subseteq Ended'
      BY <1>3 DEF Quiet, cacheVars, Ended
    <2>2. Missing' = Missing
      BY <2>1 DEF Missing, Cached, InHand, Sent
    <2> QED BY <1>0, <2>1, <2>2, NothingLost
  <1>4. ASSUME NEW n \in 1..ChunkMax, ComesIn(n) PROVE LossPerSession'
    <2>1. /\ received' = received + n /\ Gone <= Gone'
          /\ Gone' > Gone => Gone' + Capacity = received + n
          /\ UNCHANGED <<chunk, sent, tx>>
      BY <1>0, <1>4, ComesInEffect
    <2>2. Ended' = Ended
      BY <2>1 DEF Ended
    <2>3. Missing' \subseteq Missing
      <3> SUFFICES ASSUME NEW b, MissingHere(b)' PROVE MissingHere(b)
        BY <1>1, <1>2
      <3> DEFINE h == Gone'
                 r == received'
      <3>1. /\ b \in Nat /\ b > 0 /\ b <= h /\ b > r - Capacity
            /\ ~InHand(b) /\ ~Sent(b)
        BY <2>1 DEF MissingHere, InHand, Sent
      <3>2. /\ h \in Nat /\ Capacity \in Nat /\ n \in Nat /\ r = received + n
            /\ Gone <= h /\ (h > Gone => h + Capacity = received + n)
        BY <1>0, <2>1, Sizes DEF QueueIsNewest, Gone
      <3> HIDE DEF h, r
      <3>3. ~(h > Gone)
        BY <1>0, <3>1, <3>2
      <3>4. b <= Gone /\ b > received - Capacity
        BY <1>0, <3>1, <3>2, <3>3
      <3> QED BY <3>1, <3>4 DEF MissingHere
    <2> QED BY <1>0, <2>2, <2>3, NothingLost
  <1>5. ASSUME NEW s \in Sessions, Takes(s) PROVE LossPerSession'
    <2>1. /\ chunk[s] = <<>> /\ UNCHANGED <<received, sent>>
          /\ \E m \in 0..ChunkMax : /\ Gone' = Gone + m
                                    /\ chunk' = [chunk EXCEPT ![s] = Run(Gone, m)]
      BY <1>5, TakesEffect
    <2>2. PICK m \in 0..ChunkMax : /\ Gone' = Gone + m
                                   /\ chunk' = [chunk EXCEPT ![s] = Run(Gone, m)]
      BY <2>1
    <2>3. m \in Nat
      BY Sizes
    <2>4. Ended \subseteq Ended'
      BY <1>5 DEF Takes, OtherTx, Ended, EndPcs
    <2>5. Missing' \subseteq Missing
      <3> SUFFICES ASSUME NEW b, MissingHere(b)' PROVE MissingHere(b)
        BY <1>1, <1>2
      <3>1. /\ b \in Nat /\ b > 0 /\ b <= Gone + m /\ b > received - Capacity
            /\ ~InHand(b)' /\ ~Sent(b)
        BY <2>1, <2>2 DEF MissingHere, Sent
      <3>2. chunk'[s] = Run(Gone, m) /\ \A c \in Sessions : c # s => chunk'[c] = chunk[c]
        BY <1>0, <2>2
      <3>3. ~InHand(b)
        <4>1. DOMAIN chunk[s] = {}
          BY <2>1
        <4> QED BY <3>1, <3>2, <4>1 DEF InHand
      <3>4. b <= Gone
        <4> SUFFICES ASSUME b > Gone PROVE FALSE
          BY <1>0, <3>1
        <4>1. b - Gone \in 1..m /\ Gone + (b - Gone) = b
          BY <1>0, <2>3, <3>1
        <4>2. b - Gone \in DOMAIN chunk'[s] /\ chunk'[s][b - Gone] = b
          BY <3>2, <4>1 DEF Run
        <4> QED BY <3>1, <4>2 DEF InHand
      <3> QED BY <3>1, <3>3, <3>4 DEF MissingHere
    <2> QED BY <1>0, <2>4, <2>5, NothingLost
  <1>6. ASSUME NEW s \in Sessions, Delivers(s) PROVE LossPerSession'
    <2>1. /\ sent' = sent \o chunk[s] /\ UNCHANGED <<queue, received>>
          /\ chunk' = [chunk EXCEPT ![s] = <<>>]
      BY <1>6 DEF Delivers, Cache!Consume
    <2>2. Ended \subseteq Ended'
      BY <1>6 DEF Delivers, OtherTx, Ended, EndPcs, HoldPcs
    <2>3. Missing' \subseteq Missing
      <3> SUFFICES ASSUME NEW b, MissingHere(b)' PROVE MissingHere(b)
        BY <1>1, <1>2
      <3>1. /\ b \in Nat /\ b > 0 /\ b <= Gone /\ b > received - Capacity
            /\ ~InHand(b)' /\ ~Sent(b)'
        BY <2>1 DEF MissingHere, Gone
      <3> DEFINE t == chunk[s]
      <3>2. t \in Seq(Nat)
        BY <1>0
      <3>3. /\ DOMAIN t = 1..Len(t) /\ DOMAIN sent = 1..Len(sent)
            /\ Len(t) \in Nat /\ Len(sent) \in Nat
        <4> HIDE DEF t
        <4> QED BY <1>0, <3>2, LenProperties
      <3>4. /\ DOMAIN sent' = 1..(Len(sent) + Len(t))
            /\ \A k \in 1..(Len(sent) + Len(t)) :
                   sent'[k] = IF k <= Len(sent) THEN sent[k] ELSE t[k - Len(sent)]
        <4>1. sent' = sent \o t
          BY <2>1
        <4> HIDE DEF t
        <4>2. /\ sent' \in Seq(Nat) /\ Len(sent') = Len(sent) + Len(t)
              /\ \A k \in 1..(Len(sent) + Len(t)) :
                     sent'[k] = IF k <= Len(sent) THEN sent[k] ELSE t[k - Len(sent)]
          BY <1>0, <3>2, <4>1, ConcatProperties
        <4> QED BY <4>2, LenProperties
      <3>5. ~Sent(b)
        <4> SUFFICES ASSUME NEW k \in 1..Len(sent), sent[k] = b PROVE FALSE
          BY <3>3 DEF Sent
        <4>1. k \in 1..(Len(sent) + Len(t)) /\ k <= Len(sent)
          BY <3>3
        <4> QED BY <3>1, <3>4, <4>1 DEF Sent
      <3>6. \A k \in DOMAIN t : t[k] # b
        <4> SUFFICES ASSUME NEW k \in 1..Len(t), t[k] = b PROVE FALSE
          BY <3>3
        <4> DEFINE j == Len(sent) + k
        <4>1. /\ j \in 1..(Len(sent) + Len(t)) /\ ~(j <= Len(sent)) /\ j - Len(sent) = k
          BY <3>3
        <4> HIDE DEF j, t
        <4>2. sent'[j] = b
          BY <3>4, <4>1
        <4> QED BY <3>1, <3>4, <4>1, <4>2 DEF Sent
      <3>7. \A c \in Sessions : c # s => chunk'[c] = chunk[c]
        BY <1>0, <2>1
      <3>8. ~InHand(b)
        BY <3>1, <3>6, <3>7 DEF InHand
      <3> QED BY <3>1, <3>5, <3>8 DEF MissingHere
    <2> QED BY <1>0, <2>2, <2>3, NothingLost
  <1>7. ASSUME NEW s \in Sessions, Loses(s) PROVE LossPerSession'
    <2>1. /\ UNCHANGED <<sent, queue, received>> /\ chunk' = [chunk EXCEPT ![s] = <<>>]
          /\ tx[s].pc \in HoldPcs /\ tx'[s].pc \in EndPcs
          /\ \A c \in Sessions : c # s => tx'[c] = tx[c]
      BY <1>7 DEF Loses, OtherTx, Cache!Consume
    <2>2. s \in Sessions \ Ended /\ Ended' = Ended \cup {s}
      BY <2>1 DEF Ended, EndPcs, HoldPcs
    <2>3. PICK a \in Nat, n \in 0..ChunkMax : chunk[s] = Run(a, n)
      BY <1>0 DEF ChunksAreRuns, ChunkIsRun
    <2>4. Missing' \subseteq Missing \cup ((a + 1)..(a + n))
      <3> SUFFICES ASSUME NEW b, MissingHere(b)', b \notin (a + 1)..(a + n)
                   PROVE  MissingHere(b)
        BY <1>1, <1>2
      <3>1. /\ b \in Nat /\ b > 0 /\ b <= Gone /\ b > received - Capacity
            /\ ~InHand(b)' /\ ~Sent(b)
        BY <2>1 DEF MissingHere, Gone, Sent
      <3>2. \A k \in DOMAIN chunk[s] : chunk[s][k] # b
        <4> SUFFICES ASSUME NEW k \in 1..n, a + k = b PROVE FALSE
          BY <2>3 DEF Run
        <4>1. n \in Nat
          BY Sizes
        <4> QED BY <4>1
      <3>3. \A c \in Sessions : c # s => chunk'[c] = chunk[c]
        BY <1>0, <2>1
      <3>4. ~InHand(b)
        BY <3>1, <3>2, <3>3 DEF InHand
      <3> QED BY <3>1, <3>4 DEF MissingHere
    <2> QED BY <1>0, <2>2, <2>4, OneChunkLost
  <1> QED BY <1>3, <1>4, <1>5, <1>6, <1>7 DEF DataStep

(* Short of an overflow of the cache, every session that ends costs the    *)
(* stream at most the one chunk its sender held, whatever the order in     *)
(* which clients, tasks and web connections come and go.                   *)
THEOREM OneChunkPerSession == Spec => []LossPerSession
  <1>1. Init => LossPerSession
    <2> SUFFICES ASSUME Init PROVE LossPerSession
      OBVIOUS
    <2>1. received = 0
      BY DEF Init, Cache!Init
    <2>2. Missing = {}
      BY <2>1 DEF Missing
    <2>3. Cardinality(Missing) = 0
      BY <2>2, FS_EmptySet
    <2>4. ChunkMax * Cardinality(Ended) \in Nat
      <3> DEFINE c == Cardinality(Ended)
      <3>1. c \in Nat /\ ChunkMax \in Nat
        BY Finite, Sizes
      <3> HIDE DEF c
      <3>2. ChunkMax * c \in Nat
        BY <3>1
      <3> QED BY <3>2 DEF c
    <2>5. 0 <= ChunkMax * Cardinality(Ended)
      BY <2>4
    <2> QED BY <2>3, <2>5 DEF LossPerSession, Ended, EndPcs
  <1>2. IInv /\ DataInv /\ DataInv' /\ LossPerSession /\ [Next]_vars => LossPerSession'
    BY NextDataStep, LossNext
  <1> QED BY <1>1, <1>2, DataInvariance, PTL DEF Spec
-----------------------------------------------------------------------------
(* What was sent came before every byte a sender has in its hands.         *)
SentBeforeChunks ==
    \A s \in Sessions : \A k \in 1..Len(sent), j \in DOMAIN chunk[s] : sent[k] < chunk[s][j]

OrderInv == SentInOrder /\ SentBeforeChunks

(* As long as the tasks meet no web connection only the sender of the      *)
(* current client has a chunk, so that none is sent after a younger one.   *)
LEMMA OrderNext ==
    DataInv /\ OwnSession /\ OrderInv /\ DataStep => OrderInv'
  <1> SUFFICES ASSUME DataInv, OwnSession, OrderInv, DataStep PROVE OrderInv'
    OBVIOUS
  <1>0. /\ QueueIsNewest /\ ChunksAreRuns /\ SentIsOld /\ Gone \in Nat
        /\ chunk \in [Sessions -> Seq(Nat)] /\ sent \in Seq(Nat)
        /\ Len(sent) \in Nat /\ DOMAIN sent = 1..Len(sent)
        /\ \A k \in 1..Len(sent) : sent[k] \in Nat
    BY InCache, LenProperties, ElementOfSeq DEF DataInv, ChunksAreRuns, SentIsOld
  <1>1. CASE UNCHANGED <<chunk, sent>>
    BY <1>1 DEF OrderInv, SentInOrder, SentBeforeChunks
  <1>2. ASSUME NEW n \in 1..ChunkMax, ComesIn(n) PROVE OrderInv'
    BY <1>0, <1>1, <1>2, ComesInEffect
  <1>3. ASSUME NEW s \in Sessions, Takes(s) PROVE OrderInv'
    <2>1. PICK m \in 0..ChunkMax : chunk' = [chunk EXCEPT ![s] = Run(Gone, m)]
      BY <1>3, TakesEffect
    <2>2. sent' = sent
      BY <1>3, TakesEffect
    <2>3. SentBeforeChunks'
      <3> SUFFICES ASSUME NEW c \in Sessions, NEW k \in 1..Len(sent), NEW j \in DOMAIN chunk'[c]
                   PROVE  sent[k] < chunk'[c][j]
        BY <2>2 DEF SentBeforeChunks
      <3>1. CASE c = s
        <4>1. chunk'[c] = Run(Gone, m) /\ m \in Nat
          BY <1>0, <2>1, <3>1, Sizes
        <4>2. j \in 1..m /\ chunk'[c][j] = Gone + j
          BY <4>1 DEF Run
        <4>3. sent[k] \in Nat /\ sent[k] <= Gone
          BY <1>0 DEF SentIsOld
        <4> QED BY <1>0, <4>1, <4>2, <4>3
      <3>2. CASE c # s
        <4>1. chunk'[c] = chunk[c]
          BY <1>0, <2>1, <3>2
        <4> QED BY <4>1 DEF OrderInv, SentBeforeChunks
      <3> QED BY <3>1, <3>2
    <2> QED BY <2>2, <2>3 DEF OrderInv, SentInOrder
  <1>4. ASSUME NEW s \in Sessions, Delivers(s) \/ Loses(s) PROVE OrderInv'
    <2>1. chunk' = [chunk EXCEPT ![s] = <<>>] /\ tx[s].pc \in HoldPcs
      BY <1>4 DEF Delivers, Loses, Cache!Consume
    <2>2. \A c \in Sessions : DOMAIN chunk'[c] = {}
      <3>1. chunk'[s] = <<>> /\ \A c \in Sessions : c # s => chunk'[c] = chunk[c]
        BY <1>0, <2>1
      <3>2. \A c \in Sessions : tx[c].pc \in HoldPcs => c = cur
        BY DEF OwnSession, TasksOfCur, Live, HoldPcs
      <3>3. \A c \in Sessions : c # s => chunk[c] = <<>>
        BY <1>0, <2>1, <3>2 DEF ChunksAreRuns
      <3> QED BY <3>1, <3>3
    <2>3. SentBeforeChunks'
      BY <2>2 DEF SentBeforeChunks
    <2>4. SentInOrder'
      <3>1. CASE Loses(s)
        BY <3>1 DEF Loses, OrderInv, SentInOrder
      <3>2. CASE Delivers(s)
        <4> DEFINE t == chunk[s]
                   l == Len(sent)
        <4>1. PICK a \in Nat, n \in 0..ChunkMax : t = Run(a, n)
          BY <1>0 DEF ChunksAreRuns, ChunkIsRun
        <4>2. n \in Nat
          BY Sizes
        <4>3. /\ t \in Seq(Nat) /\ Len(t) = n /\ DOMAIN t = 1..n
              /\ \A k \in 1..n : t[k] = a + k
          BY <4>1, <4>2, RunIsSeq DEF Run
        <4>4. /\ l \in Nat /\ DOMAIN sent = 1..l /\ \A k \in 1..l : sent[k] \in Nat
              /\ \A j, k \in 1..l : j < k => sent[j] < sent[k]
              /\ \A j \in 1..l, k \in 1..n : sent[j] < a + k
          BY <1>0, <4>3 DEF OrderInv, SentInOrder, SentBeforeChunks
        <4>5. sent' = sent \o t
          BY <3>2 DEF Delivers
        <4> HIDE DEF t
        <4>6. /\ DOMAIN sent' = 1..(l + n)
              /\ \A k \in 1..(l + n) : sent'[k] = IF k <= l THEN sent[k] ELSE t[k - l]
          <5>1. /\ sent' \in Seq(Nat) /\ Len(sent') = l + n
                /\ \A k \in 1..(l + n) : sent'[k] = IF k <= l THEN sent[k] ELSE t[k - l]
            BY <1>0, <4>3, <4>5, ConcatProperties
          <5> QED BY <5>1, LenProperties
        <4> HIDE DEF l
        <4>7. \A k \in 1..(l + n) : /\ k <= l => k \in 1..l /\ sent'[k] = sent[k]
                                    /\ k > l => k - l \in 1..n /\ sent'[k] = a + (k - l)
          <5> SUFFICES ASSUME NEW k \in 1..(l + n)
                       PROVE  /\ k <= l => k \in 1..l /\ sent'[k] = sent[k]
                              /\ k > l => k - l \in 1..n /\ sent'[k] = a + (k - l)
            OBVIOUS
          <5>1. CASE k <= l
            BY <4>2, <4>4, <4>6, <5>1
          <5>2. CASE k > l
            <6>1. k - l \in 1..n /\ ~(k <= l)
              BY <4>2, <4>4, <5>2
            <6> QED BY <4>3, <4>6, <5>2, <6>1
          <5> QED BY <4>2, <4>4, <5>1, <5>2
        <4>8. ASSUME NEW j \in 1..(l + n), NEW k \in 1..(l + n), j < k
              PROVE  sent'[j] < sent'[k]
          <5>1. CASE k <= l
            <6>1. j <= l
              BY <4>4, <4>8, <5>1
            <6> QED BY <4>4, <4>7, <4>8, <5>1, <6>1
          <5>2. CASE j <= l /\ k > l
            BY <4>4, <4>7, <5>2
          <5>3. CASE j > l
            <6>1. k > l
              BY <4>4, <4>8, <5>3
            <6>2. sent'[j] = a + (j - l) /\ sent'[k] = a + (k - l)
              BY <4>7, <5>3, <6>1
            <6> QED BY <4>2, <4>4, <4>8, <6>2
          <5> QED BY <4>4, <5>1, <5>2, <5>3
        <4> QED BY <4>6, <4>8 DEF SentInOrder
      <3> QED BY <1>4, <3>1, <3>2
    <2> QED BY <2>3, <2>4 DEF OrderInv
  <1>5. CASE Quiet
    BY <1>1, <1>5 DEF Quiet, cacheVars
  <1> QED BY <1>2, <1>3, <1>4, <1>5 DEF DataStep

(* The clients get the serial bytes in the order they came in and none     *)
(* twice, across all the sessions, as long as no recv or send of a task is *)
(* on a connection of the web server.                                      *)
THEOREM BytesInOrder == Spec /\ []OnlyBridgeClients => []SentInOrder
  <1>1. Init => OrderInv
    <2> SUFFICES ASSUME Init PROVE OrderInv
      OBVIOUS
    <2>1. sent = <<>> /\ Len(<<>>) = 0
      BY EmptySeq DEF Init, Start
    <2> QED BY <2>1 DEF OrderInv, SentInOrder, SentBeforeChunks
  <1>2. IInv /\ DataInv /\ OwnSession /\ OrderInv /\ [Next]_vars => OrderInv'
    BY NextDataStep, OrderNext
  <1>3. OrderInv => SentInOrder
    BY DEF OrderInv
  <1> QED BY <1>1, <1>2, <1>3, DataInvariance, OwnSessionAlways, PTL DEF Spec

(* In particular when nobody opens the web page.                           *)
THEOREM BytesInOrderWithoutWeb == ASSUME MaxHttp = 0 PROVE Spec => []SentInOrder
  BY NoWebNoMixUp, BytesInOrder, MaxHttp = 0, PTL
=============================================================================
