--------------------------- MODULE NetThreadProofs ---------------------------
(* Theorems about NetThread, for any connections, workers and limits.      *)
EXTENDS NetThread, SequenceTheorems, TLAPS

USE DEF localVars

(* What TypeOK needs to be inductive: a worker between pop_front_to and    *)
(* push_back holds a context, so does HandleApplicationPacket until it     *)
(* pushes, and Run does not go on with epoll_retry 0.                      *)
TypeInv ==
    /\ TypeOK
    /\ npc = "push" => packet \in Ctx
    /\ \A w \in Workers : wpc[w] \in {"handle", "push"} => wctx[w] \in Ctx
    /\ epoll_retry = 0 => npc \in {"stop", "join", "dead"}

(* The part of TypeOK that Delete can disturb.                             *)
ConnTypeOK ==
    /\ conn \in [Conns -> {"new", "live", "closed"}]
    /\ parser \in [Conns -> {"none", "http", "ws"}]
    /\ seq \in [Conns -> 0 .. MaxPackets]
    /\ send_contexts \in [Conns -> SUBSET (1 .. MaxPackets)]
    /\ pending \in [Conns -> Seq(1 .. MaxPackets)]
    /\ overdue \in [Conns -> BOOLEAN]
    /\ ready \in [Conns -> SUBSET {"in", "out"}]
    /\ events \in [Conns -> SUBSET {"in", "out"}]
    /\ valid \in SUBSET Ctx /\ upgraded \in SUBSET Ctx
    /\ busy \in SUBSET Ctx /\ sent \in SUBSET Ctx

(* Delete keeps the types of what it changes.                              *)
LEMMA DeleteType ==
    ASSUME NEW S \in SUBSET Conns, TypeOK, Delete(S)
    PROVE  ConnTypeOK'
  <1>1. conn' \in [Conns -> {"new", "live", "closed"}]
    BY DEF Delete, TypeOK
  <1>2. pending' \in [Conns -> Seq(1 .. MaxPackets)]
    <2>1. <<>> \in Seq(1 .. MaxPackets)
      OBVIOUS
    <2>2. \A c \in Conns : pending[c] \in Seq(1 .. MaxPackets)
      BY DEF TypeOK
    <2> DEFINE P(c) == IF c \in S THEN <<>> ELSE pending[c]
    <2>3. \A c \in Conns : P(c) \in Seq(1 .. MaxPackets)
      BY <2>1, <2>2
    <2>4. pending' = [c \in Conns |-> P(c)]
      BY DEF Delete
    <2> HIDE DEF P
    <2> QED BY <2>3, <2>4
  <1>3. send_contexts' \in [Conns -> SUBSET (1 .. MaxPackets)]
    BY DEF Delete, TypeOK
  <1>4. valid' \in SUBSET Ctx
    BY DEF Delete, Invalidate, TypeOK
  <1>5. ready' \in [Conns -> SUBSET {"in", "out"}]
    BY DEF Delete, TypeOK
  <1>6. events' \in [Conns -> SUBSET {"in", "out"}]
    BY DEF Delete, TypeOK
  <1>7. UNCHANGED <<parser, seq, overdue, upgraded, busy, sent>>
    BY DEF Delete
  <1> QED
    BY <1>1, <1>2, <1>3, <1>4, <1>5, <1>6, <1>7 DEF ConnTypeOK, TypeOK

(* SendDone keeps the types of what it changes.                            *)
LEMMA SendDoneType ==
    ASSUME NEW c \in Conns, NEW ks \in SUBSET (1 .. MaxPackets), TypeOK,
           SendDone(c, ks)
    PROVE  /\ sent' \in SUBSET Ctx
           /\ send_contexts' \in [Conns -> SUBSET (1 .. MaxPackets)]
           /\ overdue' \in [Conns -> BOOLEAN]
  <1>1. sent' \in SUBSET Ctx
    BY DEF SendDone, TypeOK, Ctx
  <1>2. send_contexts' \in [Conns -> SUBSET (1 .. MaxPackets)]
    BY DEF SendDone, TypeOK
  <1>3. overdue' \in [Conns -> BOOLEAN]
    BY DEF SendDone, TypeOK
  <1> QED BY <1>1, <1>2, <1>3

(* The initial state has the right types.                                  *)
LEMMA TypeInit == Init => TypeInv
  <1> SUFFICES ASSUME Init PROVE TypeInv
    OBVIOUS
  <1>1. pending \in [Conns -> Seq(1 .. MaxPackets)]
    BY DEF Init
  <1>2. /\ send_contexts \in [Conns -> SUBSET (1 .. MaxPackets)]
        /\ ready \in [Conns -> SUBSET {"in", "out"}]
        /\ events \in [Conns -> SUBSET {"in", "out"}]
    BY DEF Init
  <1>3. /\ conn \in [Conns -> {"new", "live", "closed"}]
        /\ parser \in [Conns -> {"none", "http", "ws"}]
        /\ overdue \in [Conns -> BOOLEAN]
        /\ seq \in [Conns -> 0 .. MaxPackets]
    BY NetThreadAssumption DEF Init
  <1>4. /\ recv_queue \in Seq(Ctx) /\ send_queue \in Seq(Ctx)
        /\ wctx \in [Workers -> Ctx \cup {None}]
        /\ wpc \in [Workers -> {"pop", "handle", "push", "notify", "dead"}]
        /\ \A w \in Workers : wpc[w] = "pop"
    BY DEF Init
  <1>5. /\ notifier = "none" /\ note = "none" /\ npc = "start"
        /\ mpc = "serve" /\ registering = None /\ epoll_retry = 3
        /\ packet = None
        /\ valid = {} /\ upgraded = {} /\ busy = {} /\ sent = {}
    BY DEF Init
  <1>6. notified \in BOOLEAN /\ running \in BOOLEAN /\ terminated \in BOOLEAN
    BY DEF Init
  <1>7. TypeOK
    BY <1>1, <1>2, <1>3, <1>4, <1>5, <1>6 DEF TypeOK
  <1> QED BY <1>4, <1>5, <1>7 DEF TypeInv

(* The steps of the main thread keep the types.                            *)
LEMMA TypeMain == TypeInv /\ MainStep => TypeInv'
  <1> SUFFICES ASSUME TypeInv, MainStep PROVE TypeInv'
    OBVIOUS
  <1> USE DEF TypeInv
  <1>1. ASSUME NEW c \in Conns, RegisterConnection(c) PROVE TypeInv'
    <2>1. conn' \in [Conns -> {"new", "live", "closed"}]
      BY <1>1, ZenonT(60) DEF RegisterConnection, TypeOK
    <2>2. ready' \in [Conns -> SUBSET {"in", "out"}]
      <3>1. {"out"} \in SUBSET {"in", "out"}
        OBVIOUS
      <3>2. ready' = [ready EXCEPT ![c] = {"out"}] \/ ready' = ready
        BY <1>1 DEF RegisterConnection
      <3> QED BY <3>1, <3>2 DEF TypeOK
    <2>3. registering' \in Conns \cup {None}
      BY <1>1 DEF RegisterConnection, TypeOK
    <2> QED
      BY <1>1, <2>1, <2>2, <2>3
      DEF RegisterConnection, TypeOK, batchVars, queueVars, workerVars, ctxVars
  <1>2. CASE ConfigApplicationLayer
    BY <1>2 DEF ConfigApplicationLayer, TypeOK, Ctx, batchVars, queueVars, workerVars, ctxVars
  <1>3. CASE NotifyStopRunning
    BY <1>3, ZenonT(60)
    DEF NotifyStopRunning, TypeOK, Ctx, connVars, batchVars, queueVars, workerVars, ctxVars
  <1>4. CASE NotifyStopEpoll
    BY <1>4, SMTT(40)
    DEF NotifyStopEpoll, TypeOK, Ctx, connVars, batchVars, queueVars, workerVars, ctxVars
  <1>5. CASE JoinNetThread
    <2>1. Live \in SUBSET Conns BY DEF Live
    <2>2. Delete(Live) BY <1>5 DEF JoinNetThread
    <2>3. ConnTypeOK'
      BY <2>1, <2>2, DeleteType
    <2> QED
      BY <1>5, <2>3 DEF JoinNetThread, TypeOK, ConnTypeOK, queueVars, workerVars
  <1> QED BY <1>1, <1>2, <1>3, <1>4, <1>5 DEF MainStep

(* The steps of the NetThread keep the types.                              *)
LEMMA TypeNet == TypeInv /\ NetThreadStep => TypeInv'
  <1> SUFFICES ASSUME TypeInv, NetThreadStep PROVE TypeInv'
    OBVIOUS
  <1> USE DEF TypeInv
  <1>1. CASE Entry \/ EnterLoop \/ LeaveLoop
    BY <1>1, ZenonT(60) DEF Entry, EnterLoop, LeaveLoop, TypeOK, connVars, batchVars, queueVars,
                workerVars, ctxVars, mainVars
  <1>2. CASE EpollWait
    BY <1>2 DEF EpollWait, TypeOK, connVars, queueVars, workerVars, ctxVars,
                mainVars
  <1>3. CASE EpollTimeout \/ OnNotifyStop
    BY <1>3, ZenonT(60) DEF EpollTimeout, OnNotifyStop, TypeOK, connVars, batchVars,
                queueVars, workerVars, ctxVars, mainVars
  <1>4. CASE CheckNotification \/ EventsDone
    BY <1>4, ZenonT(60) DEF CheckNotification, EventsDone, TypeOK, connVars, batchVars,
                queueVars, workerVars, ctxVars, mainVars
  <1>5. ASSUME NEW c \in Conns, OnErrEvent(c) PROVE TypeInv'
    <2>1. Delete({c}) /\ {c} \in SUBSET Conns
      BY <1>5 DEF OnErrEvent
    <2>2. UNCHANGED <<notifier, note, notified, npc, running, epoll_retry, packet,
                      recv_queue, terminated, send_queue, wpc, wctx, mpc,
                      registering>>
      BY <1>5 DEF OnErrEvent, queueVars, workerVars, mainVars
    <2>3. ConnTypeOK'
      BY <2>1, DeleteType
    <2> QED BY <2>2, <2>3 DEF TypeOK, ConnTypeOK
  <1>6. ASSUME NEW c \in Conns, OnReadIncomplete(c) PROVE TypeInv'
    BY <1>6 DEF OnReadIncomplete, TypeOK, connVars, queueVars, workerVars,
                ctxVars, mainVars
  <1>7. ASSUME NEW c \in Conns, NEW upgrade \in BOOLEAN,
               OnReadPacket(c, upgrade)
        PROVE  TypeInv'
    <2> DEFINE x == <<c, seq[c] + 1>>
    <2>1. seq[c] + 1 \in 1 .. MaxPackets /\ x \in Ctx
      <3>1. seq[c] \in 0 .. MaxPackets /\ seq[c] < MaxPackets
        BY <1>7 DEF OnReadPacket, TypeOK
      <3>2. seq[c] + 1 \in 1 .. MaxPackets
        BY <3>1, NetThreadAssumption
      <3> QED BY <3>2 DEF Ctx
    <2>2. CASE IsWorkerFullyLoad /\ Delete({c}) /\ UNCHANGED <<npc, packet>>
      <3>1. {c} \in SUBSET Conns
        OBVIOUS
      <3>2. UNCHANGED <<notifier, note, notified, running, epoll_retry,
                        recv_queue, terminated, send_queue, wpc, wctx, mpc,
                        registering>>
        BY <1>7 DEF OnReadPacket, queueVars, workerVars, mainVars
      <3>3. ConnTypeOK'
        BY <2>2, <3>1, DeleteType
      <3> QED BY <2>2, <3>2, <3>3 DEF TypeOK, ConnTypeOK
    <2>3. CASE ~IsWorkerFullyLoad
      <3>1. /\ seq' \in [Conns -> 0 .. MaxPackets]
            /\ send_contexts' \in [Conns -> SUBSET (1 .. MaxPackets)]
        <4>1. /\ seq' = [seq EXCEPT ![c] = @ + 1]
              /\ send_contexts' =
                     [send_contexts EXCEPT ![c] = @ \cup {seq[c] + 1}]
          BY <1>7, <2>3 DEF OnReadPacket
        <4>2. seq[c] + 1 \in 0 .. MaxPackets
          BY <2>1
        <4>3. seq' \in [Conns -> 0 .. MaxPackets]
          BY <4>1, <4>2 DEF TypeOK
        <4>4. send_contexts[c] \cup {seq[c] + 1} \in SUBSET (1 .. MaxPackets)
          BY <2>1 DEF TypeOK
        <4> QED BY <4>1, <4>3, <4>4 DEF TypeOK
      <3>2. valid' \in SUBSET Ctx /\ upgraded' \in SUBSET Ctx
        <4>1. /\ valid' = valid \cup {x}
              /\ upgraded' = upgraded \cup {x} \/ upgraded' = upgraded
          BY <1>7, <2>3 DEF OnReadPacket
        <4> HIDE DEF x
        <4> QED BY <2>1, <4>1 DEF TypeOK
      <3>3. parser' \in [Conns -> {"none", "http", "ws"}]
        <4>1. parser' = parser \/ parser' = [parser EXCEPT ![c] = "ws"]
          BY <1>7, <2>3 DEF OnReadPacket
        <4>2. parser \in [Conns -> {"none", "http", "ws"}]
          BY DEF TypeOK
        <4> QED BY <4>1, <4>2
      <3>4. packet' \in Ctx /\ npc' = "push"
        BY <1>7, <2>1, <2>3 DEF OnReadPacket
      <3>5. events' \in [Conns -> SUBSET {"in", "out"}]
        <4>1. events' = [events EXCEPT ![c] = @ \ {"in"}]
          BY <1>7, <2>3 DEF OnReadPacket
        <4> QED BY <4>1 DEF TypeOK
      <3>6. UNCHANGED <<conn, pending, overdue, ready, busy, sent>>
        BY <1>7, <2>3 DEF OnReadPacket
      <3>7. UNCHANGED <<notifier, note, notified, running, epoll_retry,
                        recv_queue, terminated, send_queue, wpc, wctx, mpc,
                        registering>>
        BY <1>7 DEF OnReadPacket, queueVars, workerVars, mainVars
      <3>8. epoll_retry # 0
        BY <1>7 DEF OnReadPacket
      <3> QED
        BY <3>1, <3>2, <3>3, <3>4, <3>5, <3>6, <3>7, <3>8 DEF TypeOK
    <2> QED BY <1>7, <2>2, <2>3 DEF OnReadPacket
  <1>15. CASE PushRecvContext
    <2>1. packet \in Ctx /\ recv_queue \in Seq(Ctx)
      BY <1>15 DEF PushRecvContext, TypeOK
    <2>2. recv_queue' \in Seq(Ctx)
      <3>1. recv_queue' = recv_queue \/ recv_queue' = Append(recv_queue, packet)
        BY <1>15 DEF PushRecvContext
      <3> QED BY <2>1, <3>1, AppendProperties
    <2>3. /\ npc = "push" /\ npc' = "events" /\ packet' = None
          /\ UNCHANGED <<connVars, ready, notifier, batchVars, running,
                         epoll_retry, terminated, send_queue, workerVars,
                         ctxVars, mainVars>>
      BY <1>15 DEF PushRecvContext
    <2> QED
      BY <2>2, <2>3
      DEF TypeOK, connVars, batchVars, workerVars, ctxVars, mainVars
  <1>8. ASSUME NEW c \in Conns, OnWriteEvent(c) PROVE TypeInv'
    <2>1. PICK n \in 0 .. Len(pending[c]) :
             /\ SendDone(c, {pending[c][i] : i \in 1 .. n})
             /\ pending' = [pending EXCEPT
                               ![c] = SubSeq(@, n + 1, Len(@))]
      BY <1>8 DEF OnWriteEvent
    <2>2. pending[c] \in Seq(1 .. MaxPackets)
      BY DEF TypeOK
    <2> DEFINE len == Len(pending[c])
    <2>9. len \in Nat
      BY <2>2, LenProperties
    <2>10. \A i \in 1 .. len : pending[c][i] \in 1 .. MaxPackets
      BY <2>2, ElementOfSeq
    <2>3. {pending[c][i] : i \in 1 .. n} \in SUBSET (1 .. MaxPackets)
      BY <2>9, <2>10
    <2>4. SubSeq(pending[c], n + 1, len) \in Seq(1 .. MaxPackets)
      <3> HIDE DEF len
      <3>1. \A i \in n + 1 .. len : pending[c][i] \in 1 .. MaxPackets
        BY <2>9, <2>10
      <3> QED BY <2>9, <3>1, SubSeqProperties
    <2>5. pending' \in [Conns -> Seq(1 .. MaxPackets)]
      BY <2>1, <2>4 DEF TypeOK
    <2>6. /\ sent' \in SUBSET Ctx
          /\ send_contexts' \in [Conns -> SUBSET (1 .. MaxPackets)]
          /\ overdue' \in [Conns -> BOOLEAN]
      BY <2>1, <2>3, SendDoneType
    <2>7. events' \in [Conns -> SUBSET {"in", "out"}]
      BY <1>8 DEF OnWriteEvent, TypeOK
    <2> QED
      BY <1>8, <2>5, <2>6, <2>7
      DEF OnWriteEvent, TypeOK, queueVars, workerVars, mainVars
  <1>9. CASE HandleSend
    <2> DEFINE x == Head(send_queue)
    <2>1. x \in Ctx /\ send_queue' \in Seq(Ctx)
      BY <1>9 DEF HandleSend, TypeOK
    <2>2. x[1] \in Conns /\ x[2] \in 1 .. MaxPackets
      BY <2>1 DEF Ctx
    <2>3. UNCHANGED <<conn, parser, seq, ready, notifier, events, note,
                      notified, npc, running, epoll_retry, packet, recv_queue,
                      terminated, wpc, wctx, valid, upgraded, busy, mpc,
                      registering>>
      BY <1>9 DEF HandleSend, batchVars, workerVars, mainVars
    <2>4. /\ pending' \in [Conns -> Seq(1 .. MaxPackets)]
          /\ sent' \in SUBSET Ctx
          /\ send_contexts' \in [Conns -> SUBSET (1 .. MaxPackets)]
          /\ overdue' \in [Conns -> BOOLEAN]
      <3>1. CASE UNCHANGED <<pending, send_contexts, overdue, sent>>
        BY <3>1 DEF TypeOK
      <3>2. CASE SendDone(x[1], {x[2]}) /\ UNCHANGED pending
        <4>1. {x[2]} \in SUBSET (1 .. MaxPackets)
          BY <2>2
        <4> HIDE DEF x
        <4> QED BY <2>2, <3>2, <4>1, SendDoneType DEF TypeOK
      <3>3. CASE /\ pending' = [pending EXCEPT ![x[1]] = Append(@, x[2])]
                 /\ UNCHANGED <<send_contexts, overdue, sent>>
        <4>1. Append(pending[x[1]], x[2]) \in Seq(1 .. MaxPackets)
          BY <2>2 DEF TypeOK
        <4> HIDE DEF x
        <4> QED BY <2>2, <3>3, <4>1 DEF TypeOK
      <3> QED BY <1>9, <3>1, <3>2, <3>3 DEF HandleSend
    <2> QED BY <2>1, <2>3, <2>4 DEF TypeOK
  <1>10. CASE HandleSendDone
    <2>1. npc = "send" /\ npc' = "clear" /\ notified' = FALSE
      BY <1>10 DEF HandleSendDone
    <2>2. UNCHANGED <<conn, parser, seq, send_contexts, pending, overdue,
                      ready, notifier, events, note, running, epoll_retry,
                      packet, recv_queue, terminated, send_queue, wpc, wctx,
                      valid, upgraded, busy, sent, mpc, registering>>
      BY <1>10 DEF HandleSendDone, connVars, queueVars, workerVars, ctxVars,
                   mainVars
    <2> QED
      BY <2>1, <2>2 DEF TypeOK
  <1>13. CASE SkipClearTimeout
    BY <1>13 DEF SkipClearTimeout, TypeOK, connVars, batchVars, queueVars,
                 workerVars, ctxVars, mainVars
  <1>11. CASE ClearTimeout
    <2>1. Delete(TimedOut) /\ TimedOut \in SUBSET Conns
      BY <1>11 DEF ClearTimeout, TimedOut, Live
    <2>2. npc' = "loop" /\ npc = "clear"
      BY <1>11 DEF ClearTimeout
    <2>3. UNCHANGED <<notifier, note, notified, running, epoll_retry, packet,
                      recv_queue, terminated, send_queue, wpc, wctx, mpc,
                      registering>>
      BY <1>11 DEF ClearTimeout, queueVars, workerVars, mainVars
    <2>4. ConnTypeOK'
      BY <2>1, DeleteType
    <2> QED BY <2>2, <2>3, <2>4 DEF TypeOK, ConnTypeOK
  <1>12. CASE OnStop
    BY <1>12 DEF OnStop, TypeOK, connVars, batchVars, workerVars, ctxVars,
                 mainVars
  <1>14. CASE JoinWorkers
    BY <1>14 DEF JoinWorkers, TypeOK, connVars, batchVars, queueVars,
                 workerVars, ctxVars, mainVars
  <1> QED
    BY <1>1, <1>2, <1>3, <1>4, <1>5, <1>6, <1>7, <1>8, <1>9, <1>10, <1>11,
       <1>12, <1>13, <1>14, <1>15
    DEF NetThreadStep, OnEvent

(* The steps of a worker keep the types.                                   *)
LEMMA TypeWorker == ASSUME NEW w \in Workers, TypeInv, WorkerStep(w) PROVE TypeInv'
  <1> USE DEF TypeInv
  <1>1. CASE PopFrontTo(w)
    <2>1. recv_queue' \in Seq(Ctx)
      <3>1. recv_queue \in Seq(Ctx)
        BY DEF TypeOK
      <3>2. \/ recv_queue' = recv_queue
            \/ recv_queue # <<>> /\ recv_queue' = Tail(recv_queue)
        BY <1>1 DEF PopFrontTo
      <3> QED BY <3>1, <3>2, HeadTailProperties
    <2>2. wctx' \in [Workers -> Ctx \cup {None}]
      <3>1. recv_queue # <<>> => Head(recv_queue) \in Ctx
        BY HeadTailProperties DEF TypeOK
      <3> QED BY <1>1, <3>1 DEF PopFrontTo, TypeOK
    <2>3. wpc' \in [Workers -> {"pop", "handle", "push", "notify", "dead"}]
      BY <1>1, ZenonT(60) DEF PopFrontTo, TypeOK
    <2>4. \A v \in Workers : wpc'[v] \in {"handle", "push"} => wctx'[v] \in Ctx
      <3>1. recv_queue # <<>> => Head(recv_queue) \in Ctx
        BY HeadTailProperties DEF TypeOK
      <3> QED BY <1>1, <3>1 DEF PopFrontTo, TypeOK
    <2>5. UNCHANGED <<connVars, ready, notifier, batchVars, npc, running,
                      localVars, terminated, send_queue, ctxVars, mainVars>>
      BY <1>1 DEF PopFrontTo
    <2>6. TypeOK'
      BY <2>1, <2>2, <2>3, <2>5
      DEF TypeOK, connVars, batchVars, ctxVars, mainVars
    <2> QED
      BY <2>4, <2>5, <2>6
  <1>2. CASE Handle(w)
    <2>1. wctx[w] \in Ctx
      BY <1>2 DEF Handle
    <2>2. busy' \in SUBSET Ctx
      BY <1>2, <2>1 DEF Handle, TypeOK
    <2>3. wpc' \in [Workers -> {"pop", "handle", "push", "notify", "dead"}]
      BY <1>2 DEF Handle, TypeOK
    <2>4. wctx' = wctx /\ wpc' = [wpc EXCEPT ![w] = "push"]
      BY <1>2 DEF Handle
    <2>5. UNCHANGED <<connVars, ready, notifier, batchVars, npc, running,
                      localVars, queueVars, valid, upgraded, sent, mainVars>>
      BY <1>2 DEF Handle
    <2>6. TypeOK'
      BY <2>2, <2>3, <2>4, <2>5
      DEF TypeOK, connVars, batchVars, queueVars, mainVars
    <2>7. wpc \in [Workers -> {"pop", "handle", "push", "notify", "dead"}]
      BY DEF TypeOK
    <2> QED
      BY <2>1, <2>4, <2>5, <2>6, <2>7
  <1>3. CASE PushBack(w)
    <2>1. wctx[w] \in Ctx
      BY <1>3 DEF PushBack
    <2>2. send_queue' \in Seq(Ctx)
      <3>1. send_queue' = send_queue \/ send_queue' = Append(send_queue, wctx[w])
        BY <1>3 DEF PushBack
      <3>2. send_queue \in Seq(Ctx)
        BY DEF TypeOK
      <3> QED BY <2>1, <3>1, <3>2, AppendProperties, ZenonT(60)
    <2>3. /\ wpc' = [wpc EXCEPT ![w] = "notify"]
          /\ wctx' = [wctx EXCEPT ![w] = None]
      BY <1>3 DEF PushBack
    <2>4. UNCHANGED <<connVars, ready, notifier, batchVars, npc, running,
                      localVars, recv_queue, terminated, ctxVars, mainVars>>
      BY <1>3 DEF PushBack
    <2>5. wctx' \in [Workers -> Ctx \cup {None}]
      BY <2>3 DEF TypeOK
    <2>6. wpc' \in [Workers -> {"pop", "handle", "push", "notify", "dead"}]
      BY <2>3 DEF TypeOK
    <2>7. TypeOK'
      BY <2>2, <2>4, <2>5, <2>6
      DEF TypeOK, connVars, batchVars, ctxVars, mainVars
    <2>8. \A v \in Workers : v # w => wpc'[v] = wpc[v] /\ wctx'[v] = wctx[v]
      BY <2>3 DEF TypeOK
    <2>9. wpc'[w] = "notify"
      BY <2>3 DEF TypeOK
    <2> QED
      BY <2>4, <2>7, <2>8, <2>9
  <1>4. CASE NotifySend(w)
    BY <1>4 DEF NotifySend, TypeOK, connVars, batchVars, queueVars, ctxVars,
                mainVars
  <1> QED BY <1>1, <1>2, <1>3, <1>4 DEF WorkerStep

(* The steps of the peers, the clock and the kernel keep the types.        *)
LEMMA TypeEnvironment == TypeInv /\ Environment => TypeInv'
  <1> SUFFICES ASSUME TypeInv, Environment PROVE TypeInv'
    OBVIOUS
  <1> USE DEF TypeInv
  <1>1. ASSUME NEW c \in Conns, Expire(c) PROVE TypeInv'
    BY <1>1 DEF Expire, TypeOK, batchVars, queueVars, workerVars, ctxVars,
                mainVars
  <1>2. ASSUME NEW c \in Conns, NEW e \in {"in", "out"}, SocketEvent(c, e)
        PROVE  TypeInv'
    <2>1. ready[c] \cup {e} \in SUBSET {"in", "out"}
      BY DEF TypeOK
    <2>2. ready' \in [Conns -> SUBSET {"in", "out"}]
      BY <1>2, <2>1 DEF SocketEvent, TypeOK
    <2> QED
      BY <1>2, <2>2 DEF SocketEvent, TypeOK, connVars, batchVars, queueVars,
                        workerVars, ctxVars, mainVars
  <1>3. CASE EpollFail
    BY <1>3 DEF EpollFail, TypeOK, connVars, batchVars, queueVars, workerVars,
                ctxVars, mainVars
  <1>4. ASSUME NEW w \in Workers, HandleThrows(w) PROVE TypeInv'
    BY <1>4 DEF HandleThrows, TypeOK, connVars, batchVars, queueVars, ctxVars,
                mainVars
  <1> QED BY <1>1, <1>2, <1>3, <1>4 DEF Environment

(* A step that changes nothing keeps the types.                            *)
LEMMA TypeStutter == TypeInv /\ UNCHANGED vars => TypeInv'
  BY DEF TypeInv, TypeOK, vars, connVars, batchVars, queueVars, workerVars,
         ctxVars, mainVars

(* TypeInv is inductive.                                                   *)
LEMMA TypeNext == TypeInv /\ [Next]_vars => TypeInv'
  BY TypeMain, TypeNet, TypeWorker, TypeEnvironment, TypeStutter
  DEF Next, Stopped

(* The variables of the NetThread, its workers and its queues keep their   *)
(* types in every behaviour of the server.                                 *)
THEOREM TypeCorrect == Spec => []TypeOK
  <1>1. Spec => []TypeInv
    BY TypeInit, TypeNext, PTL DEF Spec
  <1> QED BY <1>1, PTL DEF TypeInv

-----------------------------------------------------------------------------
(* The wakeup protocol. While the NetThread is not on its way out, a       *)
(* queued answer has a wakeup somewhere between the worker that pushed it  *)
(* and HandleSend: a worker about to call NotifySend, the armed notifier,  *)
(* the entry of the batch, or the collected notification. An entry exists  *)
(* only while a batch is handled, a collected notification until HandleSend*)
(* has emptied the queue.                                                  *)
Leaving == npc \in {"stop", "join", "dead"}

WakeupInv ==
    /\ send_queue # <<>> /\ ~Leaving =>
          \/ notifier # "none" \/ note # "none" \/ notified
          \/ \E w \in Workers : wpc[w] = "notify"
    /\ npc \notin {"events", "push"} /\ ~Leaving => note = "none"
    /\ npc \notin {"events", "push", "send"} /\ ~Leaving => ~notified

(* No step of a worker, of the main thread or of the NetThread loses the   *)
(* wakeup.                                                                 *)
LEMMA WakeupNext == TypeOK /\ WakeupInv /\ [Next]_vars => WakeupInv'
  <1> SUFFICES ASSUME TypeOK, WakeupInv, [Next]_vars PROVE WakeupInv'
    OBVIOUS
  <1> USE DEF WakeupInv, Leaving
  <1>1. CASE UNCHANGED vars
    BY <1>1 DEF vars, batchVars, queueVars, workerVars
  <1>2. CASE MainStep
    BY <1>2 DEF MainStep, RegisterConnection, ConfigApplicationLayer,
                NotifyStopRunning, NotifyStopEpoll, JoinNetThread, batchVars,
                queueVars, workerVars
  <1>3. CASE \/ Entry \/ EnterLoop \/ LeaveLoop \/ EpollWait \/ EpollTimeout
             \/ OnNotifyStop
    BY <1>3 DEF Entry, EnterLoop, LeaveLoop, EpollWait, EpollTimeout, OnNotifyStop,
                batchVars, queueVars, workerVars
  <1>4. CASE CheckNotification \/ EventsDone
    <2>1. CASE CheckNotification
      <3>1. notified' /\ npc' = "events"
        BY <2>1 DEF CheckNotification
      <3> QED
        BY <3>1
    <2>2. CASE EventsDone
      <3>1. /\ UNCHANGED <<send_queue, notifier, note, notified, wpc>>
            /\ note = "none" /\ npc' \in {"send", "clear"}
            /\ npc' = "clear" => ~notified
        BY <2>2 DEF EventsDone, batchVars, queueVars, workerVars
      <3>2. npc = "events"
        BY <2>2 DEF EventsDone
      <3> QED
        BY <3>1, <3>2
    <2> QED
      BY <1>4, <2>1, <2>2
  <1>11. CASE PushRecvContext
    BY <1>11 DEF PushRecvContext, batchVars, workerVars
  <1>5. ASSUME NEW c \in Conns, OnEvent(c) PROVE WakeupInv'
    BY <1>5 DEF OnEvent, OnErrEvent, OnReadIncomplete, OnWriteEvent,
                OnReadPacket, batchVars, queueVars, workerVars
  <1>6. CASE HandleSend
    BY <1>6 DEF HandleSend, batchVars, workerVars
  <1>7. CASE HandleSendDone
    BY <1>7 DEF HandleSendDone, queueVars, workerVars
  <1>8. CASE ClearTimeout \/ SkipClearTimeout \/ OnStop \/ JoinWorkers
    BY <1>8 DEF ClearTimeout, SkipClearTimeout, OnStop, JoinWorkers, batchVars,
                queueVars, workerVars
  <1>9. ASSUME NEW w \in Workers, WorkerStep(w) PROVE WakeupInv'
    <2>1. CASE PopFrontTo(w)
      <3>1. \A v \in Workers : wpc[v] = "notify" => wpc'[v] = "notify"
        BY <2>1 DEF PopFrontTo, TypeOK
      <3> QED
        BY <2>1, <3>1 DEF PopFrontTo, batchVars
    <2>2. CASE Handle(w)
      <3>1. \A v \in Workers : wpc[v] = "notify" => wpc'[v] = "notify"
        BY <2>2 DEF Handle, TypeOK
      <3> QED
        BY <2>2, <3>1 DEF Handle, batchVars, queueVars
    <2>3. CASE PushBack(w)
      <3>1. wpc'[w] = "notify"
        BY <2>3 DEF PushBack, TypeOK
      <3> QED
        BY <2>3, <3>1 DEF PushBack, batchVars
    <2>4. CASE NotifySend(w)
      BY <2>4 DEF NotifySend, batchVars, queueVars
    <2> QED
      BY <1>9, <2>1, <2>2, <2>3, <2>4 DEF WorkerStep
  <1>10. CASE Environment
    <2>1. ASSUME NEW c \in Conns, Expire(c) PROVE WakeupInv'
      BY <2>1 DEF Expire, batchVars, queueVars, workerVars
    <2>2. ASSUME NEW c \in Conns, NEW e \in {"in", "out"}, SocketEvent(c, e)
          PROVE  WakeupInv'
      BY <2>2 DEF SocketEvent, batchVars, queueVars, workerVars
    <2>3. CASE EpollFail
      BY <2>3 DEF EpollFail, batchVars, queueVars, workerVars
    <2>4. ASSUME NEW w \in Workers, HandleThrows(w) PROVE WakeupInv'
      BY <2>4 DEF HandleThrows, batchVars, queueVars, TypeOK
    <2> QED
      BY <1>10, <2>1, <2>2, <2>3, <2>4 DEF Environment
  <1> QED
    BY <1>1, <1>2, <1>3, <1>4, <1>5, <1>6, <1>7, <1>8, <1>9, <1>10, <1>11
    DEF Next, NetThreadStep, Stopped

(* No answer is left in the send queue while the NetThread sleeps: the     *)
(* single notifier socket, whose data every NotifyEpoll overwrites, never  *)
(* loses the wakeup of an answer.                                          *)
THEOREM WakeupNeverLost == Spec => []NoLostWakeup
  <1>1. Init => WakeupInv
    BY DEF Init, WakeupInv
  <1>2. WakeupInv => NoLostWakeup
    BY DEF WakeupInv, NoLostWakeup, Leaving
  <1> QED BY <1>1, <1>2, WakeupNext, TypeCorrect, PTL DEF Spec

-----------------------------------------------------------------------------
(* BacklogBounded with what makes it inductive: between the length check   *)
(* and the push of HandleApplicationPacket there is room, since no thread  *)
(* but the NetThread makes recv_queue longer.                              *)
BacklogInv ==
    /\ BacklogBounded
    /\ npc = "push" => Len(recv_queue) < MaxBacklog

(* BacklogInv is inductive.                                                *)
LEMMA BacklogNext == TypeInv /\ BacklogInv /\ [Next]_vars => BacklogInv'
  <1> SUFFICES ASSUME TypeInv, BacklogInv, [Next]_vars PROVE BacklogInv'
    OBVIOUS
  <1> USE DEF BacklogInv
  <1>1. recv_queue \in Seq(Ctx) /\ Len(recv_queue) \in Nat /\ TypeOK
    BY LenProperties DEF TypeInv, TypeOK
  <1>2. ASSUME UNCHANGED recv_queue, npc' # "push" \/ npc' = npc PROVE BacklogInv'
    BY <1>2 DEF BacklogBounded
  <1>3. ASSUME NEW c \in Conns, NEW upgrade \in BOOLEAN, OnReadPacket(c, upgrade)
        PROVE  BacklogInv'
    <2>1. UNCHANGED recv_queue /\ npc = "events"
      BY <1>3 DEF OnReadPacket, queueVars
    <2>2. CASE IsWorkerFullyLoad
      BY <1>2, <1>3, <2>1, <2>2 DEF OnReadPacket
    <2>3. CASE ~IsWorkerFullyLoad
      <3>1. Len(recv_queue) < MaxBacklog
        BY <1>1, <2>3, NetThreadAssumption DEF IsWorkerFullyLoad
      <3> QED
        BY <2>1, <3>1 DEF BacklogBounded
    <2> QED BY <2>2, <2>3
  <1>11. CASE PushRecvContext
    <2>1. /\ npc = "push" /\ npc' = "events"
          /\ recv_queue' = recv_queue \/ recv_queue' = Append(recv_queue, packet)
      BY <1>11 DEF PushRecvContext
    <2>2. Len(recv_queue)' \in {Len(recv_queue), Len(recv_queue) + 1}
      BY <1>1, <2>1, AppendProperties DEF TypeInv
    <2> QED
      BY <1>1, <2>1, <2>2, NetThreadAssumption DEF BacklogBounded
  <1>4. ASSUME NEW w \in Workers, PopFrontTo(w) PROVE BacklogInv'
    <2>1. /\ \/ recv_queue' = recv_queue
             \/ recv_queue # <<>> /\ recv_queue' = Tail(recv_queue)
          /\ UNCHANGED npc
      BY <1>4 DEF PopFrontTo
    <2>2. Len(recv_queue)' \in {Len(recv_queue), Len(recv_queue) - 1}
      BY <1>1, <2>1, HeadTailProperties
    <2> QED BY <1>1, <2>1, <2>2, NetThreadAssumption DEF BacklogBounded
  <1>5. CASE MainStep
    BY <1>2, <1>5 DEF MainStep, RegisterConnection, ConfigApplicationLayer,
                      NotifyStopRunning, NotifyStopEpoll, JoinNetThread, queueVars
  <1>6. CASE \/ Entry \/ EnterLoop \/ LeaveLoop \/ EpollWait \/ EpollTimeout
             \/ OnNotifyStop \/ CheckNotification \/ EventsDone \/ HandleSend
             \/ HandleSendDone \/ ClearTimeout \/ SkipClearTimeout \/ OnStop
             \/ JoinWorkers
    BY <1>2, <1>6 DEF Entry, EnterLoop, LeaveLoop, EpollWait, EpollTimeout,
                      OnNotifyStop, CheckNotification, EventsDone, HandleSend,
                      HandleSendDone, ClearTimeout, SkipClearTimeout, OnStop,
                      JoinWorkers, queueVars
  <1>7. ASSUME NEW c \in Conns, OnEvent(c) PROVE BacklogInv'
    BY <1>2, <1>3, <1>7 DEF OnEvent, OnErrEvent, OnReadIncomplete, OnWriteEvent,
                            queueVars
  <1>8. ASSUME NEW w \in Workers, WorkerStep(w) PROVE BacklogInv'
    BY <1>2, <1>4, <1>8 DEF WorkerStep, Handle, PushBack, NotifySend, queueVars
  <1>9. CASE Environment
    BY <1>2, <1>9 DEF Environment, Expire, SocketEvent, EpollFail, HandleThrows,
                      queueVars
  <1>10. CASE UNCHANGED vars
    BY <1>2, <1>10 DEF vars, queueVars
  <1> QED
    BY <1>5, <1>6, <1>7, <1>8, <1>9, <1>10, <1>11 DEF Next, NetThreadStep, Stopped

(* HandleApplicationPacket looks at the length of the receive queue and    *)
(* pushes in two critical sections. Whatever the workers take out in       *)
(* between, there is still room for the push, and the backlog stays within *)
(* max_backlog: no other thread pushes.                                    *)
THEOREM BacklogAlwaysBounded == Spec => []BacklogBounded
  <1>1. Init => BacklogInv
    BY NetThreadAssumption DEF Init, BacklogInv, BacklogBounded
  <1>2. Spec => []TypeInv
    BY TypeInit, TypeNext, PTL DEF Spec
  <1> QED BY <1>1, <1>2, BacklogNext, PTL DEF Spec, BacklogInv

-----------------------------------------------------------------------------
(* The NetThread is over only when its workers are; it is deleted only     *)
(* when it is over.                                                        *)
JoinInv ==
    /\ npc = "dead" => \A w \in Workers : wpc[w] = "dead"
    /\ mpc = "joined" => npc = "dead"

(* JoinInv is inductive: a dead worker stays dead.                         *)
LEMMA JoinNext == TypeOK /\ JoinInv /\ [Next]_vars => JoinInv'
  <1> SUFFICES ASSUME TypeOK, JoinInv, [Next]_vars PROVE JoinInv'
    OBVIOUS
  <1> USE DEF JoinInv
  <1>1. CASE UNCHANGED vars
    BY <1>1 DEF vars, workerVars, mainVars
  <1>2. CASE MainStep
    BY <1>2 DEF MainStep, RegisterConnection, ConfigApplicationLayer,
                NotifyStopRunning, NotifyStopEpoll, JoinNetThread, workerVars
  <1>3. CASE NetThreadStep /\ ~\E c \in Conns : OnEvent(c)
    BY <1>3 DEF NetThreadStep, Entry, EnterLoop, LeaveLoop, EpollWait,
                EpollTimeout, OnNotifyStop, CheckNotification,
                PushRecvContext, EventsDone, HandleSend,
                HandleSendDone, ClearTimeout, SkipClearTimeout, OnStop,
                JoinWorkers, workerVars, mainVars
  <1>4. ASSUME NEW c \in Conns, OnEvent(c) PROVE JoinInv'
    BY <1>4 DEF OnEvent, OnErrEvent, OnReadIncomplete, OnWriteEvent,
                OnReadPacket, workerVars, mainVars
  <1>5. ASSUME NEW w \in Workers, WorkerStep(w) PROVE JoinInv'
    BY <1>5 DEF WorkerStep, PopFrontTo, Handle, PushBack, NotifySend, mainVars
  <1>6. CASE Environment
    BY <1>6 DEF Environment, Expire, SocketEvent, EpollFail, HandleThrows,
                workerVars, mainVars
  <1> QED BY <1>1, <1>2, <1>3, <1>4, <1>5, <1>6 DEF Next, Stopped

(* No worker survives the NetThread object whose queues and notifier it    *)
(* uses: _NotifyNetThreadsStop deletes it after OnStop joined the workers. *)
THEOREM WorkersAlwaysOutlived == Spec => []WorkersOutlived
  <1>1. Init => JoinInv
    BY DEF Init, JoinInv
  <1>2. JoinInv => WorkersOutlived
    BY DEF JoinInv, WorkersOutlived
  <1> QED BY <1>1, <1>2, JoinNext, TypeCorrect, PTL DEF Spec
=============================================================================
