------------------------------ MODULE NetThread ------------------------------
(***************************************************************************)
(* One WebServer::NetThread with its epoll instance, its EpollNotifier,    *)
(* the connections it owns, its receive and send queues, the WorkerThreads *)
(* bound to it, and the main thread that registers connections with it and *)
(* finally stops and joins it.                                             *)
(*                                                                         *)
(* A connection object is identified by the member of Conns it stands for  *)
(* (slots and their reuse are the subject of module ConnectionManager).    *)
(* Packet number k of connection c is the context <<c, k>>: it stands for  *)
(* the RecvContext and for the SendContext (seq k) made for its answer.    *)
(* What the bytes of a packet are is left out: a readable socket yields an *)
(* incomplete packet, a complete one, an upgrade request, a close, or an   *)
(* error, whichever the peer sent.                                         *)
(***************************************************************************)
EXTENDS Naturals, Sequences, FiniteSets

CONSTANTS
    Conns,          \* connections the listening socket hands out
    Workers,        \* WorkerThreads bound to this NetThread
    None,           \* no connection, no context
    MaxBacklog,     \* max_backlog_ of the configuration
    MaxConnections, \* max_connections_ of this NetThread
    MaxQueue,       \* max_size_ of both ThreadSafeDeques
    MaxPackets,     \* bound: complete packets per connection
    EpollMayFail,   \* whether ::epoll_wait may fail
    HandlerMayThrow \* whether WorkerThread::HandleImpl may throw

ASSUME NetThreadAssumption ==
    /\ Workers # {}
    /\ None \notin Conns \cup (Conns \X Nat)
    /\ MaxBacklog \in Nat /\ MaxConnections \in Nat
    /\ MaxQueue \in Nat /\ MaxPackets \in Nat
    /\ EpollMayFail \in BOOLEAN /\ HandlerMayThrow \in BOOLEAN

Ctx == Conns \X (1 .. MaxPackets)

VARIABLES
    conn,           \* life of each connection object
    parser,         \* application protocol it is configured for
    seq,            \* send_ctx_seq_
    send_contexts,  \* sequence numbers in send_contexts_
    pending,        \* pending_send_ctx_
    overdue,        \* now > timeout_ts_
    ready,          \* edges epoll has not reported yet, per connection
    notifier,       \* what the notifier socket is armed with
    events,         \* epoll_events_ not yet handled, per connection
    note,           \* the notifier's entry in epoll_events_, until handled
    notified,       \* the local vector notifications holds notification_send_
    npc,            \* control state of the NetThread
    packet,         \* _recv_ctx of HandleApplicationPacket, until pushed
    running,        \* Thread::running_ of the NetThread
    epoll_retry,    \* epoll_retry of Run
    recv_queue,
    terminated,     \* terminated_ of recv_queue
    send_queue,
    wpc,            \* control state of each WorkerThread
    wctx,           \* the context it works on
    valid,          \* contexts with is_tcp_conn_valid
    upgraded,       \* contexts made for the handshake of an upgrade
    busy,           \* contexts answered by HandleOverload
    sent,           \* contexts written to the socket to the last byte
    mpc,            \* control state of the main thread
    registering     \* the connection RegisterConnection is working on

connVars   == <<conn, parser, seq, send_contexts, pending, overdue>>
batchVars  == <<events, note, notified>>
localVars  == <<epoll_retry, packet>>
queueVars  == <<recv_queue, terminated, send_queue>>
workerVars == <<wpc, wctx>>
ctxVars    == <<valid, upgraded, busy, sent>>
mainVars   == <<mpc, registering>>
vars == <<connVars, ready, notifier, batchVars, npc, running, localVars,
          queueVars, workerVars, ctxVars, mainVars>>

Live == {c \in Conns : conn[c] = "live"}

(* CurrConnectionCnt counts every slot that is not free, and slot 0, which *)
(* no connection ever gets, is never free.                                 *)
CurrConnectionCnt == Cardinality(Live) + 1

(* ~ConnectionProfile of the connections of S resets is_tcp_conn_valid of  *)
(* the contexts they still list.                                           *)
Invalidate_Nothing(S) == valid
Invalidate(S) ==
    {x \in valid : ~(x[1] \in S /\ x[2] \in send_contexts[x[1]])}

(* The connections of S are deleted, and taken out of epoll.               *)
Delete(S) ==
    /\ conn' = [c \in Conns |-> IF c \in S THEN "closed" ELSE conn[c]]
    /\ pending' = [c \in Conns |-> IF c \in S THEN <<>> ELSE pending[c]]
    /\ send_contexts' =
           [c \in Conns |-> IF c \in S THEN {} ELSE send_contexts[c]]
    /\ valid' = Invalidate(S)
    /\ ready' = [c \in Conns |-> IF c \in S THEN {} ELSE ready[c]]
    /\ events' = [c \in Conns |-> IF c \in S THEN {} ELSE events[c]]
    /\ UNCHANGED <<parser, seq, overdue, upgraded, busy, sent>>

-----------------------------------------------------------------------------
(* The main thread.                                                        *)

(* _OnConnect, _RegisterConnection, RegisterConnection up to               *)
(* AddConnection: the connection is in epoll from here on.                 *)
RegisterConnection(c) ==
    /\ mpc = "serve" /\ registering = None /\ conn[c] = "new"
    /\ \/ /\ CurrConnectionCnt >= MaxConnections
          /\ conn' = [conn EXCEPT ![c] = "closed"]
          /\ UNCHANGED <<ready, registering>>
       \/ /\ CurrConnectionCnt < MaxConnections
          /\ conn' = [conn EXCEPT ![c] = "live"]
          /\ ready' = [ready EXCEPT ![c] = {"out"}]
          /\ registering' = c
    /\ UNCHANGED <<parser, seq, send_contexts, pending, overdue, notifier,
                   batchVars, npc, running, localVars, queueVars,
                   workerVars, ctxVars, mpc>>

(* The ConfigApplicationLayer call that ends RegisterConnection. If the    *)
(* NetThread has deleted the connection meanwhile, the write goes to freed *)
(* memory, and to no connection of the model.                              *)
ConfigApplicationLayer ==
    /\ registering # None
    /\ parser' = [parser EXCEPT ![registering] =
                     IF conn[registering] = "live" THEN "http" ELSE @]
    /\ registering' = None
    /\ UNCHANGED <<conn, seq, send_contexts, pending, overdue, ready,
                   notifier, batchVars, npc, running, localVars, queueVars,
                   workerVars, ctxVars, mpc>>

(* Serve leaves its loop; NotifyStop of the NetThread, first statement.    *)
NotifyStopRunning ==
    /\ mpc = "serve" /\ registering = None
    /\ running' = FALSE
    /\ mpc' = "notify"
    /\ UNCHANGED <<connVars, ready, notifier, batchVars, npc, localVars,
                   queueVars, workerVars, ctxVars, registering>>

(* NotifyStop, second statement: arm the notifier.                         *)
NotifyStopEpoll ==
    /\ mpc = "notify"
    /\ notifier' = "stop"
    /\ mpc' = "join"
    /\ UNCHANGED <<connVars, ready, batchVars, npc, running, localVars,
                   queueVars, workerVars, ctxVars, registering>>

(* Join returns once the thread is over; deleting the NetThread deletes    *)
(* its ConnectionManager and every connection left in it.                  *)
JoinNetThread ==
    /\ mpc = "join" /\ npc = "dead"
    /\ Delete(Live)
    /\ mpc' = "joined"
    /\ UNCHANGED <<notifier, note, notified, npc, running, localVars,
                   queueVars, workerVars, registering>>

-----------------------------------------------------------------------------
(* The NetThread.                                                          *)

(* Thread::Entry: OnStart has launched the workers; running_ is set (again *)
(* after Thread::Start) and Run is entered.                                *)
Entry ==
    /\ npc = "start"
    /\ running' = TRUE
    /\ npc' = "loop"
    /\ UNCHANGED <<connVars, ready, notifier, batchVars, localVars,
                   queueVars, workerVars, ctxVars, mainVars>>

(* The loop condition of Run is true: EpollWait is called, and blocks      *)
(* whatever becomes of running_ meanwhile.                                 *)
EnterLoop ==
    /\ npc = "loop" /\ running
    /\ npc' = "wait"
    /\ UNCHANGED <<connVars, ready, notifier, batchVars, running, localVars,
                   queueVars, workerVars, ctxVars, mainVars>>

(* The loop condition of Run is false.                                     *)
LeaveLoop ==
    /\ npc = "loop" /\ ~running
    /\ npc' = "stop"
    /\ UNCHANGED <<connVars, ready, notifier, batchVars, running, localVars,
                   queueVars, workerVars, ctxVars, mainVars>>

(* EpollWait returns every edge raised since the last call, once, with the *)
(* data each descriptor is armed with at this moment.                      *)
EpollWait ==
    /\ npc = "wait"
    /\ notifier # "none" \/ \E c \in Conns : ready[c] # {}
    /\ events' = ready
    /\ ready' = [c \in Conns |-> {}]
    /\ note' = notifier
    /\ notifier' = "none"
    /\ npc' = "events"
    /\ UNCHANGED <<connVars, notified, running, localVars, queueVars,
                   workerVars, ctxVars, mainVars>>

(* Mutant: a timeout of EpollWait goes straight back to waiting.           *)
EpollTimeout_Continues ==
    /\ npc = "wait"
    /\ notifier = "none" /\ \A c \in Conns : ready[c] = {}
    /\ npc' = "loop"
    /\ UNCHANGED <<connVars, ready, notifier, batchVars, running, localVars,
                   queueVars, workerVars, ctxVars, mainVars>>

(* EpollWait times out after clear_timeout_period.                         *)
EpollTimeout ==
    /\ npc = "wait"
    /\ notifier = "none" /\ \A c \in Conns : ready[c] = {}
    /\ npc' = "clear"
    /\ UNCHANGED <<connVars, ready, notifier, batchVars, running, localVars,
                   queueVars, workerVars, ctxVars, mainVars>>

(* EpollWait fails with something else than EINTR: the third time in the   *)
(* life of the thread it gives up.                                         *)
EpollFail ==
    /\ EpollMayFail
    /\ npc = "wait"
    /\ epoll_retry' = epoll_retry - 1
    /\ npc' = IF epoll_retry' > 0 THEN "loop" ELSE "stop"
    /\ UNCHANGED <<connVars, ready, notifier, batchVars, running, packet,
                   queueVars, workerVars, ctxVars, mainVars>>

(* The batch holds notification_stop_: Run returns at once, whatever is    *)
(* left of the batch and of the notifications already collected.           *)
OnNotifyStop ==
    /\ npc = "events" /\ note = "stop"
    /\ running' = FALSE
    /\ npc' = "stop"
    /\ UNCHANGED <<connVars, ready, notifier, batchVars, localVars, queueVars,
                   workerVars, ctxVars, mainVars>>

(* CheckNotification: notification_send_ is kept for after the events.     *)
CheckNotification ==
    /\ npc = "events" /\ note = "send"
    /\ note' = "none"
    /\ notified' = TRUE
    /\ UNCHANGED <<connVars, ready, notifier, events, npc, running, localVars,
                   queueVars, workerVars, ctxVars, mainVars>>

(* The entry of c has EPOLLERR set: __OnErrEvent deletes the connection.   *)
(* So does __OnReadEvent when Receive fails (a socket or parse error, no   *)
(* parser configured yet), when it has met the peer's FIN, and for a       *)
(* WebSocket close frame.                                                  *)
OnErrEvent(c) ==
    /\ npc = "events" /\ "in" \in events[c]
    /\ Delete({c})
    /\ UNCHANGED <<notifier, note, notified, npc, running, localVars,
                   queueVars, workerVars, mainVars>>

(* __OnReadEvent, the packet is not complete yet.                          *)
OnReadIncomplete(c) ==
    /\ npc = "events" /\ "in" \in events[c]
    /\ parser[c] # "none"
    /\ events' = [events EXCEPT ![c] = @ \ {"in"}]
    /\ UNCHANGED <<connVars, ready, notifier, note, notified, npc, running,
                   localVars, queueVars, workerVars, ctxVars, mainVars>>

IsWorkerFullyLoad_OffByOne == Len(recv_queue) > MaxBacklog
IsWorkerFullyLoad == Len(recv_queue) >= MaxBacklog

(* __OnReadEvent, a packet is complete: MakeRecvContext, MakeSendContext   *)
(* and, for an upgrade request, UpgradeApplicationProtocol; then           *)
(* HandleApplicationPacket looks at the length of the receive queue, and   *)
(* deletes the connection if the workers are fully loaded.                 *)
OnReadPacket(c, upgrade) ==
    LET x == <<c, seq[c] + 1>> IN
    /\ npc = "events" /\ "in" \in events[c]
    /\ parser[c] # "none"
    /\ seq[c] < MaxPackets
    /\ upgrade => parser[c] = "http"
    /\ \/ /\ IsWorkerFullyLoad
          /\ Delete({c})
          /\ UNCHANGED <<npc, packet>>
       \/ /\ ~IsWorkerFullyLoad
          /\ seq' = [seq EXCEPT ![c] = @ + 1]
          /\ send_contexts' = [send_contexts EXCEPT ![c] = @ \cup {x[2]}]
          /\ valid' = valid \cup {x}
          /\ parser' = IF upgrade THEN [parser EXCEPT ![c] = "ws"] ELSE parser
          /\ upgraded' = IF upgrade THEN upgraded \cup {x} ELSE upgraded
          /\ packet' = x
          /\ npc' = "push"
          /\ events' = [events EXCEPT ![c] = @ \ {"in"}]
          /\ UNCHANGED <<conn, pending, overdue, ready, busy, sent>>
    /\ UNCHANGED <<notifier, note, notified, running, epoll_retry, queueVars,
                   workerVars, mainVars>>

(* HandleApplicationPacket locks the receive queue a second time, to push  *)
(* the context: workers may have taken others since. push_back refuses     *)
(* beyond MaxQueue, and its result is ignored.                             *)
PushRecvContext ==
    /\ npc = "push"
    /\ recv_queue' = IF Len(recv_queue) > MaxQueue
                     THEN recv_queue ELSE Append(recv_queue, packet)
    /\ packet' = None
    /\ npc' = "events"
    /\ UNCHANGED <<connVars, ready, notifier, batchVars, running, epoll_retry,
                   terminated, send_queue, workerVars, ctxVars, mainVars>>

(* OnSendDone of the contexts ks of connection c, which are sent to the    *)
(* last byte: a short link gets a fresh timeout, the contexts leave the    *)
(* connection's list.                                                      *)
SendDone(c, ks) ==
    /\ sent' = sent \cup {<<c, k>> : k \in ks}
    /\ send_contexts' = [send_contexts EXCEPT ![c] = @ \ ks]
    /\ overdue' = [overdue EXCEPT ![c] = @ /\ (ks = {} \/ parser[c] = "ws")]

(* __OnWriteEvent: TrySendPendingPackets gets through the first n packets. *)
OnWriteEvent(c) ==
    /\ npc = "events" /\ events[c] = {"out"}
    /\ \E n \in 0 .. Len(pending[c]) :
          /\ SendDone(c, {pending[c][i] : i \in 1 .. n})
          /\ pending' =
                 [pending EXCEPT ![c] = SubSeq(@, n + 1, Len(@))]
    /\ events' = [events EXCEPT ![c] = {}]
    /\ UNCHANGED <<conn, parser, seq, ready, notifier, note, notified, npc,
                   running, localVars, queueVars, workerVars, valid,
                   upgraded, busy, mainVars>>

(* The batch is through: notifications are handled after the events.       *)
EventsDone ==
    /\ npc = "events" /\ note = "none" /\ \A c \in Conns : events[c] = {}
    /\ npc' = IF notified THEN "send" ELSE "clear"
    /\ UNCHANGED <<connVars, ready, notifier, batchVars, running, localVars,
                   queueVars, workerVars, ctxVars, mainVars>>

(* Whether TrySendAndMarkPendingIfUndone goes on to the socket.            *)
IsTcpConnValid_Unchecked(x) == TRUE
IsTcpConnValid(x) == x \in valid

(* Mutant: one context per notification instead of all that are queued.    *)
HandleSend_One ==
    /\ npc = "send" /\ send_queue # <<>>
    /\ send_queue' = Tail(send_queue)
    /\ SendDone(Head(send_queue)[1], {Head(send_queue)[2]})
    /\ notified' = FALSE
    /\ npc' = "clear"
    /\ UNCHANGED <<conn, parser, seq, pending, ready, notifier, events, note,
                   running, localVars, recv_queue, terminated, workerVars,
                   valid, upgraded, busy, mainVars>>

(* HandleSend, one round of its loop: TrySendAndMarkPendingIfUndone on the *)
(* next context. A context whose connection is gone is dropped; otherwise  *)
(* the write completes, or the rest is left for the next write event.      *)
HandleSend ==
    /\ npc = "send" /\ send_queue # <<>>
    /\ send_queue' = Tail(send_queue)
    /\ LET x == Head(send_queue) IN
       \/ /\ ~IsTcpConnValid(x)
          /\ UNCHANGED <<pending, send_contexts, overdue, sent>>
       \/ /\ IsTcpConnValid(x)
          /\ SendDone(x[1], {x[2]})
          /\ UNCHANGED pending
       \/ /\ IsTcpConnValid(x)
          /\ pending' = [pending EXCEPT ![x[1]] = Append(@, x[2])]
          /\ UNCHANGED <<send_contexts, overdue, sent>>
    /\ UNCHANGED <<conn, parser, seq, ready, notifier, batchVars, npc, running,
                   localVars, recv_queue, terminated, workerVars, valid,
                   upgraded, busy, mainVars>>

(* HandleSend finds the queue empty; notifications.clear().                *)
HandleSendDone ==
    /\ npc = "send" /\ send_queue = <<>>
    /\ notified' = FALSE
    /\ npc' = "clear"
    /\ UNCHANGED <<connVars, ready, notifier, events, note, running,
                   localVars, queueVars, workerVars, ctxVars, mainVars>>

(* The connections IsTimeout says are over: not a long link, and nothing   *)
(* pending.                                                                *)
TimedOut == {c \in Live : overdue[c] /\ parser[c] # "ws" /\ pending[c] = <<>>}

(* More than clear_timeout_period since the last time: ClearTimeout.       *)
ClearTimeout ==
    /\ npc = "clear"
    /\ Delete(TimedOut)
    /\ npc' = "loop"
    /\ UNCHANGED <<notifier, note, notified, running, localVars, queueVars,
                   workerVars, mainVars>>

(* Not yet more than clear_timeout_period.                                 *)
SkipClearTimeout ==
    /\ npc = "clear"
    /\ npc' = "loop"
    /\ UNCHANGED <<connVars, ready, notifier, batchVars, running, localVars,
                   queueVars, workerVars, ctxVars, mainVars>>

(* Mutant: the workers are joined without Terminate.                       *)
OnStop_NoTerminate ==
    /\ npc = "stop"
    /\ running' = FALSE
    /\ npc' = "join"
    /\ UNCHANGED <<connVars, ready, notifier, batchVars, localVars,
                   queueVars, workerVars, ctxVars, mainVars>>

(* Entry after Run: OnStop terminates the receive queue ...                *)
OnStop ==
    /\ npc = "stop"
    /\ running' = FALSE
    /\ terminated' = TRUE
    /\ npc' = "join"
    /\ UNCHANGED <<connVars, ready, notifier, batchVars, localVars,
                   recv_queue, send_queue, workerVars, ctxVars, mainVars>>

(* Mutant: the workers are not joined.                                     *)
JoinWorkers_Detach ==
    /\ npc = "join"
    /\ npc' = "dead"
    /\ UNCHANGED <<connVars, ready, notifier, batchVars, running, localVars,
                   queueVars, workerVars, ctxVars, mainVars>>

(* ... and joins the workers.                                              *)
JoinWorkers ==
    /\ npc = "join" /\ \A w \in Workers : wpc[w] = "dead"
    /\ npc' = "dead"
    /\ UNCHANGED <<connVars, ready, notifier, batchVars, running, localVars,
                   queueVars, workerVars, ctxVars, mainVars>>

-----------------------------------------------------------------------------
(* A WorkerThread.                                                         *)

(* Mutant: front in place of pop_front_to.                                 *)
PopFrontTo_Front(w) ==
    /\ wpc[w] = "pop"
    /\ ~terminated /\ recv_queue # <<>>
    /\ wctx' = [wctx EXCEPT ![w] = Head(recv_queue)]
    /\ wpc' = [wpc EXCEPT ![w] = "handle"]
    /\ UNCHANGED <<connVars, ready, notifier, batchVars, npc, running,
                   localVars, queueVars, ctxVars, mainVars>>

(* pop_front_to hands out the oldest context, or nothing once the queue is *)
(* terminated, whatever is left in it: Run is over.                        *)
PopFrontTo(w) ==
    /\ wpc[w] = "pop"
    /\ \/ /\ terminated
          /\ wpc' = [wpc EXCEPT ![w] = "dead"]
          /\ UNCHANGED <<recv_queue, wctx>>
       \/ /\ ~terminated /\ recv_queue # <<>>
          /\ wctx' = [wctx EXCEPT ![w] = Head(recv_queue)]
          /\ recv_queue' = Tail(recv_queue)
          /\ wpc' = [wpc EXCEPT ![w] = "handle"]
    /\ UNCHANGED <<connVars, ready, notifier, batchVars, npc, running,
                   localVars, terminated, send_queue, ctxVars, mainVars>>

IsWorkerOverload_OffByOne == Len(recv_queue) >= (MaxBacklog * 9) \div 10
IsWorkerOverload == Len(recv_queue) > (MaxBacklog * 9) \div 10

Handle(w) ==
    /\ wpc[w] = "handle"
    /\ wpc' = [wpc EXCEPT ![w] = "push"]
    /\ busy' = IF IsWorkerOverload THEN busy \cup {wctx[w]} ELSE busy
    /\ UNCHANGED <<connVars, ready, notifier, batchVars, npc, running,
                   localVars, queueVars, wctx, valid, upgraded, sent,
                   mainVars>>

(* HandleImpl throws: Thread::Entry catches it and the thread is over.     *)
HandleThrows(w) ==
    /\ HandlerMayThrow
    /\ wpc[w] = "handle" /\ ~IsWorkerOverload
    /\ wpc' = [wpc EXCEPT ![w] = "dead"]
    /\ wctx' = [wctx EXCEPT ![w] = None]
    /\ UNCHANGED <<connVars, ready, notifier, batchVars, npc, running,
                   localVars, queueVars, ctxVars, mainVars>>

(* Mutant: no NotifySend after the push.                                   *)
PushBack_NoNotify(w) ==
    /\ wpc[w] = "push"
    /\ send_queue' = Append(send_queue, wctx[w])
    /\ wctx' = [wctx EXCEPT ![w] = None]
    /\ wpc' = [wpc EXCEPT ![w] = "pop"]
    /\ UNCHANGED <<connVars, ready, notifier, batchVars, npc, running,
                   localVars, recv_queue, terminated, ctxVars, mainVars>>

(* push_back of the return packet; a full send queue refuses it. (Nothing  *)
(* ever adds to packets_push_others.)                                      *)
PushBack(w) ==
    /\ wpc[w] = "push"
    /\ send_queue' = IF Len(send_queue) > MaxQueue
                     THEN send_queue ELSE Append(send_queue, wctx[w])
    /\ wctx' = [wctx EXCEPT ![w] = None]
    /\ wpc' = [wpc EXCEPT ![w] = "notify"]
    /\ UNCHANGED <<connVars, ready, notifier, batchVars, npc, running,
                   localVars, recv_queue, terminated, ctxVars, mainVars>>

(* NotifySend re-arms the one notifier socket, over whatever it held.      *)
NotifySend(w) ==
    /\ wpc[w] = "notify"
    /\ notifier' = "send"
    /\ wpc' = [wpc EXCEPT ![w] = "pop"]
    /\ UNCHANGED <<connVars, ready, batchVars, npc, running, localVars,
                   queueVars, wctx, ctxVars, mainVars>>

-----------------------------------------------------------------------------
(* The peers, the network and the clock.                                   *)

(* A live connection becomes readable (data, FIN or an error, which epoll  *)
(* reports as readable too) or, when a write has filled its buffer,        *)
(* writable again.                                                         *)
SocketEvent(c, e) ==
    /\ c \in Live /\ e \notin ready[c]
    /\ e = "out" => pending[c] # <<>>
    /\ ready' = [ready EXCEPT ![c] = @ \cup {e}]
    /\ UNCHANGED <<connVars, notifier, batchVars, npc, running, localVars,
                   queueVars, workerVars, ctxVars, mainVars>>

(* timeout_ts_ passes.                                                     *)
Expire(c) ==
    /\ c \in Live /\ ~overdue[c]
    /\ overdue' = [overdue EXCEPT ![c] = TRUE]
    /\ UNCHANGED <<conn, parser, seq, send_contexts, pending, ready, notifier,
                   batchVars, npc, running, localVars, queueVars,
                   workerVars, ctxVars, mainVars>>

(* The process has stopped.                                                *)
Stopped == mpc = "joined" /\ UNCHANGED vars

-----------------------------------------------------------------------------
Init ==
    /\ conn = [c \in Conns |-> "new"]
    /\ parser = [c \in Conns |-> "none"]
    /\ seq = [c \in Conns |-> 0]
    /\ send_contexts = [c \in Conns |-> {}]
    /\ pending = [c \in Conns |-> <<>>]
    /\ overdue = [c \in Conns |-> FALSE]
    /\ ready = [c \in Conns |-> {}]
    /\ events = [c \in Conns |-> {}]
    /\ notifier = "none" /\ note = "none" /\ notified = FALSE
    /\ npc = "start" /\ running = TRUE /\ epoll_retry = 3
    /\ packet = None
    /\ recv_queue = <<>> /\ terminated = FALSE /\ send_queue = <<>>
    /\ wpc = [w \in Workers |-> "pop"]
    /\ wctx = [w \in Workers |-> None]
    /\ valid = {} /\ upgraded = {} /\ busy = {} /\ sent = {}
    /\ mpc = "serve" /\ registering = None

MainStep ==
    \/ \E c \in Conns : RegisterConnection(c)
    \/ ConfigApplicationLayer \/ NotifyStopRunning \/ NotifyStopEpoll
    \/ JoinNetThread

OnEvent(c) ==
    \/ OnErrEvent(c) \/ OnReadIncomplete(c) \/ OnWriteEvent(c)
    \/ \E upgrade \in BOOLEAN : OnReadPacket(c, upgrade)

(* Run of the NetThread, from Entry to the end of OnStop.                  *)
NetThreadStep ==
    \/ Entry \/ EnterLoop \/ LeaveLoop \/ EpollWait \/ EpollTimeout
    \/ OnNotifyStop \/ CheckNotification \/ \E c \in Conns : OnEvent(c)
    \/ PushRecvContext \/ EventsDone \/ HandleSend \/ HandleSendDone
    \/ ClearTimeout \/ SkipClearTimeout \/ OnStop \/ JoinWorkers

WorkerStep(w) == PopFrontTo(w) \/ Handle(w) \/ PushBack(w) \/ NotifySend(w)

Environment ==
    \/ \E c \in Conns : Expire(c)
    \/ \E c \in Conns, e \in {"in", "out"} : SocketEvent(c, e)
    \/ EpollFail
    \/ \E w \in Workers : HandleThrows(w)

Next ==
    \/ MainStep
    \/ NetThreadStep
    \/ \E w \in Workers : WorkerStep(w)
    \/ Environment
    \/ Stopped

(* Threads that can run do run; Join, Config and NotifyEpoll calls of the  *)
(* main thread return; the clock advances, so that the ClearTimeout branch *)
(* is taken if the loop comes past it again and again. When connections    *)
(* arrive, the server is stopped, data comes in, handlers throw or         *)
(* epoll_wait fails is up to the environment.                              *)
Fairness ==
    /\ WF_vars(NetThreadStep)
    /\ SF_vars(ClearTimeout)
    /\ \A w \in Workers : WF_vars(WorkerStep(w))
    /\ WF_vars(ConfigApplicationLayer \/ NotifyStopEpoll \/ JoinNetThread)

Spec == Init /\ [][Next]_vars

FairSpec == Spec /\ Fairness

-----------------------------------------------------------------------------
(* The variables have their types.                                         *)
TypeOK ==
    /\ conn \in [Conns -> {"new", "live", "closed"}]
    /\ parser \in [Conns -> {"none", "http", "ws"}]
    /\ seq \in [Conns -> 0 .. MaxPackets]
    /\ send_contexts \in [Conns -> SUBSET (1 .. MaxPackets)]
    /\ pending \in [Conns -> Seq(1 .. MaxPackets)]
    /\ overdue \in [Conns -> BOOLEAN]
    /\ ready \in [Conns -> SUBSET {"in", "out"}]
    /\ events \in [Conns -> SUBSET {"in", "out"}]
    /\ notifier \in {"none", "send", "stop"}
    /\ note \in {"none", "send", "stop"}
    /\ notified \in BOOLEAN /\ running \in BOOLEAN /\ terminated \in BOOLEAN
    /\ npc \in {"start", "loop", "wait", "events", "push", "send", "clear",
                "stop", "join", "dead"}
    /\ epoll_retry \in 0 .. 3 /\ packet \in Ctx \cup {None}
    /\ recv_queue \in Seq(Ctx) /\ send_queue \in Seq(Ctx)
    /\ wpc \in [Workers -> {"pop", "handle", "push", "notify", "dead"}]
    /\ wctx \in [Workers -> Ctx \cup {None}]
    /\ valid \in SUBSET Ctx /\ upgraded \in SUBSET Ctx
    /\ busy \in SUBSET Ctx /\ sent \in SUBSET Ctx
    /\ mpc \in {"serve", "notify", "join", "joined"}
    /\ registering \in Conns \cup {None}

(* NotifySend and NotifyStop share one notifier socket, whose armed value  *)
(* the later call overwrites (NotifyEpoll). Still no answer is stranded:   *)
(* if the NetThread is about to block in EpollWait while the send queue    *)
(* holds an answer, the notifier is armed or a worker is about to arm it.  *)
NoLostWakeup ==
    npc = "wait" /\ send_queue # <<>> =>
        notifier # "none" \/ \E w \in Workers : wpc[w] = "notify"

(* HandleApplicationPacket looks at the length of the receive queue and    *)
(* pushes in two separate critical sections, between which workers take    *)
(* contexts out; the backlog never exceeds max_backlog, since no other     *)
(* thread pushes.                                                          *)
BacklogBounded == Len(recv_queue) <= MaxBacklog

(* The contexts made so far.                                               *)
Issued == {x \in Ctx : x[2] <= seq[x[1]]}

(* HandleOverload answers a request only if more than nine tenths of       *)
(* max_backlog requests besides it have been accepted: a worker compares   *)
(* after it has taken its own out of the queue, which may have been        *)
(* refilled meanwhile. A lone request is served, however small max_backlog *)
(* is.                                                                     *)
RefusedUnderLoad ==
    busy # {} => 10 * (Cardinality(Issued) - 1) > 9 * MaxBacklog

(* The places that hold a context: HandleApplicationPacket, a slot of the  *)
(* receive queue, a worker, a slot of the send queue, a slot of its        *)
(* connection's pending queue.                                             *)
Owners(x) ==
    ({"net"} \X {p \in {packet} : p = x})
    \cup ({"recv"} \X {i \in DOMAIN recv_queue : recv_queue[i] = x})
    \cup ({"worker"} \X {w \in Workers : wctx[w] = x})
    \cup ({"send"} \X {i \in DOMAIN send_queue : send_queue[i] = x})
    \cup ({"pending"} \X {i \in DOMAIN pending[x[1]] : pending[x[1]][i] = x[2]})

(* A context is handed from the NetThread to a worker, back, and into the  *)
(* pending queue without ever being in two places, and a context that has  *)
(* been sent is in none: no packet is answered twice, no buffer is shared  *)
(* by two threads.                                                         *)
OneOwner ==
    \A x \in Ctx : /\ \A p, q \in Owners(x) : p = q
                   /\ x \in sent => Owners(x) = {}

(* is_tcp_conn_valid tells the truth about every context still on its way: *)
(* it is set exactly while the connection the answer belongs to is alive.  *)
ValidIffLive ==
    \A x \in Ctx : Owners(x) # {} => (x \in valid <=> x[1] \in Live)

(* Nothing is written to the socket of a connection that has been deleted  *)
(* (by FIN, error, timeout or overload) while its request was with a       *)
(* worker.                                                                 *)
NothingSentAfterDelete == [][\A x \in sent' \ sent : x[1] \in Live]_vars

(* A worker arms the notifier and uses the queues of the NetThread only    *)
(* while that object exists: it is deleted after the NetThread joined all  *)
(* of its workers.                                                         *)
WorkersOutlived == mpc = "joined" => \A w \in Workers : wpc[w] = "dead"

(* Every packet accepted into the receive queue is answered: its answer is *)
(* sent or left pending on the socket, unless the connection is deleted or *)
(* the server is stopped.                                                  *)
AnsweredEventually ==
    \A x \in Ctx :
        (\E i \in DOMAIN recv_queue : recv_queue[i] = x)
            ~> \/ x \in sent \/ x[1] \notin Live \/ mpc # "serve"
               \/ \E i \in DOMAIN pending[x[1]] : pending[x[1]][i] = x[2]

(* A stop requested once the NetThread is in Run ends with all threads     *)
(* joined, even when a NotifySend overwrites the stop notification before  *)
(* EpollWait has seen it. (A stop that comes before Thread::Entry has set  *)
(* running_ for the second time is not covered: Entry undoes the first     *)
(* half of NotifyStop, and a NotifySend may then undo the second.)         *)
ShutdownCompletes ==
    (mpc = "notify" /\ ~running /\ npc # "start") ~> (mpc = "joined")

(* A short-link connection past its timeout with nothing pending is        *)
(* removed, or answered in time, even if no descriptor is ever ready again *)
(* (EpollWait is bounded by clear_timeout_period).                         *)
TimeoutEnforced ==
    \A c \in Conns : (c \in TimedOut) ~> (c \notin TimedOut \/ ~running)

-----------------------------------------------------------------------------
(* What comments and messages say, and the code does not do.               *)

(* __OnReadEvent: after an upgrade, the request needs "a packet to send    *)
(* back handshake". HandleOverload answers it with a WebSocket frame       *)
(* instead, and the packets that follow count as handshaken.               *)
UpgradeAnsweredByHandshake == upgraded \cap busy = {}

(* kDefaultTimeout: a client connection is considered timed out "if no     *)
(* data is sent within such interval". Data received does not move         *)
(* timeout_ts_: a client that sent a request, and whose request is still   *)
(* with the workers, is cut off by ClearTimeout.                           *)
NoTimeoutWhileUnanswered ==
    [][npc = "clear" =>
          \A c \in Live : conn'[c] = "closed" =>
              \A k \in 1 .. seq[c] : <<c, k>> \in sent]_vars

(* ParseProtocol: "please config application protocol first".              *)
(* RegisterConnection puts the connection into epoll before it configures  *)
(* it, and the NetThread deletes it on data that arrives in between, while *)
(* the main thread still writes to it.                                     *)
NotDeletedWhileRegistering ==
    [][registering # None /\ conn[registering] = "live" =>
          conn'[registering] = "live"]_vars
=============================================================================
