-------------------------- MODULE OwnershipProofs --------------------------
(* Proofs about who has a context of a NetThread, for any connections,     *)
(* workers and limits: it is in one place at a time, is_tcp_conn_valid     *)
(* tells whether its connection is alive, and nothing is written to a      *)
(* connection that is gone.                                                *)
EXTENDS NetThreadProofs, ListLemmas

USE DEF localVars

(* Edges are those of live connections, and a connection that is not       *)
(* registered has no packets.                                              *)
EventInv ==
    /\ \A c \in Conns : ready[c] # {} \/ events[c] # {} => conn[c] = "live"
    /\ \A c \in Conns : conn[c] = "new" => seq[c] = 0

(* Deleting connections clears their edges.                                *)
LEMMA EventDelete ==
    ASSUME NEW S \in SUBSET Conns, TypeOK, EventInv, Delete(S) PROVE EventInv'
  BY DEF EventInv, Delete, TypeOK

(* EventInv is inductive.                                                  *)
LEMMA EventNext == ASSUME TypeOK, EventInv, [Next]_vars PROVE EventInv'
  <1> USE DEF connVars, batchVars
  <1>1. ASSUME UNCHANGED <<conn, seq, ready, events>> PROVE EventInv'
    BY <1>1 DEF EventInv
  <1>2. ASSUME NEW c \in Conns, RegisterConnection(c) PROVE EventInv'
    BY <1>2 DEF RegisterConnection, EventInv, TypeOK
  <1>3. CASE JoinNetThread \/ ClearTimeout
    BY <1>3, EventDelete DEF JoinNetThread, ClearTimeout, Live, TimedOut
  <1>4. CASE EpollWait
    BY <1>4 DEF EpollWait, EventInv, TypeOK
  <1>5. ASSUME NEW c \in Conns, OnErrEvent(c) PROVE EventInv'
    BY <1>5, EventDelete DEF OnErrEvent
  <1>6. ASSUME NEW c \in Conns, OnReadIncomplete(c) \/ OnWriteEvent(c) PROVE EventInv'
    BY <1>6 DEF OnReadIncomplete, OnWriteEvent, EventInv, TypeOK
  <1>7. ASSUME NEW c \in Conns, NEW upgrade \in BOOLEAN, OnReadPacket(c, upgrade)
        PROVE  EventInv'
    <2>1. CASE Delete({c})
      BY <2>1, EventDelete
    <2>2. CASE ~Delete({c})
      BY <1>7, <2>2 DEF OnReadPacket, EventInv, TypeOK
    <2> QED BY <2>1, <2>2
  <1>8. ASSUME NEW c \in Conns, NEW e \in {"in", "out"}, SocketEvent(c, e) PROVE EventInv'
    BY <1>8 DEF SocketEvent, EventInv, TypeOK, Live
  <1>9. CASE \/ ConfigApplicationLayer \/ NotifyStopRunning \/ NotifyStopEpoll \/ Entry
             \/ EnterLoop \/ LeaveLoop \/ EpollTimeout \/ EpollFail \/ OnNotifyStop
             \/ CheckNotification \/ PushRecvContext \/ EventsDone \/ HandleSend \/ HandleSendDone
             \/ SkipClearTimeout \/ OnStop
             \/ JoinWorkers \/ UNCHANGED vars
    BY <1>1, <1>9
    DEF ConfigApplicationLayer, NotifyStopRunning, NotifyStopEpoll, Entry, EnterLoop, LeaveLoop,
        EpollTimeout, EpollFail, OnNotifyStop, CheckNotification, PushRecvContext,
        EventsDone, HandleSend, HandleSendDone, SkipClearTimeout, OnStop, JoinWorkers, vars
  <1>10. ASSUME NEW w \in Workers, WorkerStep(w) \/ HandleThrows(w) PROVE EventInv'
    BY <1>1, <1>10 DEF WorkerStep, PopFrontTo, Handle, PushBack, NotifySend, HandleThrows
  <1>11. ASSUME NEW c \in Conns, Expire(c) PROVE EventInv'
    BY <1>1, <1>11 DEF Expire
  <1> QED
    BY <1>2, <1>3, <1>4, <1>5, <1>6, <1>7, <1>8, <1>9, <1>10, <1>11
    DEF Next, MainStep, NetThreadStep, OnEvent, Environment, Stopped

-----------------------------------------------------------------------------
(* The places of contexts, as sets.                                        *)
Arrived == {packet} \ {None}
Received == Listed(recv_queue)
Working == {wctx[w] : w \in Workers} \ {None}
Answered == Listed(send_queue)
Pending == {x \in Ctx : x[2] \in Listed(pending[x[1]])}
Held == Arrived \cup Received \cup Working \cup Answered \cup Pending

(* No context is in two kinds of places, or sent and still in one.         *)
Apart ==
    /\ Arrived \cap (Received \cup Working \cup Answered \cup Pending \cup sent) = {}
    /\ Received \cap (Working \cup Answered \cup Pending \cup sent) = {}
    /\ Working \cap (Answered \cup Pending \cup sent) = {}
    /\ Answered \cap (Pending \cup sent) = {}
    /\ Pending \cap sent = {}

(* Nor is it twice in places of one kind.                                  *)
NoneTwice ==
    /\ Once(recv_queue) /\ Once(send_queue)
    /\ \A c \in Conns : Once(pending[c])
    /\ \A v, w \in Workers : wctx[v] = wctx[w] /\ wctx[v] # None => v = w

PlacesInv == Apart /\ NoneTwice /\ Held \subseteq Issued /\ sent \subseteq Issued

(* Steps that leave the queues, the workers and what was sent alone.       *)
LEMMA PlacesKept ==
    ASSUME PlacesInv,
           UNCHANGED <<packet, recv_queue, send_queue, pending, wctx, sent, seq>>
    PROVE  PlacesInv' /\ Held' = Held
  BY DEF PlacesInv, Apart, NoneTwice, Held, Arrived, Received, Working, Answered, Pending, Issued

(* A step that only takes contexts away.                                   *)
LEMMA ApartFewer ==
    ASSUME Apart, Arrived' = Arrived,
           Received' \subseteq Received, Working' \subseteq Working,
           Answered' \subseteq Answered, Pending' \subseteq Pending, sent' = sent
    PROVE  Apart' /\ Held' \subseteq Held
  BY DEF Apart, Held

(* Deleting connections takes their pending contexts away.                 *)
LEMMA PlacesDelete ==
    ASSUME NEW S \in SUBSET Conns, TypeOK, PlacesInv, Delete(S),
           UNCHANGED <<packet, recv_queue, send_queue, wctx>>
    PROVE  PlacesInv' /\ Held' \subseteq Held
  <1>1. /\ UNCHANGED <<seq, sent>>
        /\ \A c \in Conns : pending'[c] = IF c \in S THEN <<>> ELSE pending[c]
    BY DEF Delete
  <1>2. /\ Arrived' = Arrived /\ Received' = Received /\ Working' = Working
        /\ Answered' = Answered /\ Issued' = Issued
    BY <1>1 DEF Arrived, Received, Working, Answered, Issued
  <1>3. Listed(<<>>) = {} /\ Once(<<>>)
    BY DEF Listed, Once
  <1>4. Pending' \subseteq Pending
    BY <1>1, <1>3 DEF Pending, Ctx
  <1>5. Apart' /\ Held' \subseteq Held
    BY <1>1, <1>2, <1>4, ApartFewer DEF PlacesInv
  <1>6. NoneTwice'
    BY <1>1, <1>3 DEF PlacesInv, NoneTwice
  <1> QED
    BY <1>1, <1>2, <1>5, <1>6 DEF PlacesInv

(* A packet that is accepted gets a context nobody has had.                *)
LEMMA PlacesRead ==
    ASSUME TypeOK, PlacesInv, NEW c \in Conns, NEW upgrade \in BOOLEAN,
           OnReadPacket(c, upgrade), ~Delete({c})
    PROVE  PlacesInv' /\ Held' \subseteq Held \cup {<<c, seq[c] + 1>>}
  <1> DEFINE x == <<c, seq[c] + 1>>
  <1>1. /\ seq[c] < MaxPackets /\ seq' = [seq EXCEPT ![c] = @ + 1]
        /\ packet' = x
        /\ UNCHANGED <<recv_queue, send_queue, pending, wctx, sent>>
    BY DEF OnReadPacket, queueVars, workerVars
  <1>2. x \in Ctx /\ x \notin Issued /\ x \in Issued' /\ Issued \subseteq Issued'
    BY <1>1, NetThreadAssumption, SMTT(40) DEF TypeOK, Ctx, Issued
  <1> HIDE DEF x
  <1>3. /\ Received' = Received /\ Working' = Working /\ Answered' = Answered
        /\ Pending' = Pending
    BY <1>1 DEF Received, Working, Answered, Pending
  <1>4. Arrived' \subseteq {x}
    BY <1>1 DEF Arrived
  <1>5. x \notin Received \cup Working \cup Answered \cup Pending \cup sent
    BY <1>2 DEF PlacesInv, Held
  <1>6. Apart'
    BY <1>1, <1>3, <1>4, <1>5 DEF PlacesInv, Apart
  <1>7. NoneTwice'
    BY <1>1 DEF PlacesInv, NoneTwice
  <1>8. Held' \subseteq Held \cup {x}
    BY <1>3, <1>4 DEF Held
  <1>9. Held' \subseteq Issued' /\ sent' \subseteq Issued'
    BY <1>1, <1>2, <1>8 DEF PlacesInv
  <1> QED
    BY <1>6, <1>7, <1>8, <1>9 DEF PlacesInv, x

(* HandleApplicationPacket moves its context into the receive queue.       *)
LEMMA PlacesQueue ==
    ASSUME TypeInv, PlacesInv, PushRecvContext
    PROVE  PlacesInv' /\ Held' \subseteq Held
  <1>1. /\ npc = "push" /\ packet' = None
        /\ recv_queue' = recv_queue \/ recv_queue' = Append(recv_queue, packet)
        /\ UNCHANGED <<send_queue, pending, wctx, sent, seq>>
    BY DEF PushRecvContext, connVars, workerVars, ctxVars
  <1>2. packet \in Ctx /\ packet # None /\ packet \in Arrived /\ TypeOK
    BY <1>1, NetThreadAssumption DEF TypeInv, Ctx, Arrived
  <1>3. /\ Working' = Working /\ Answered' = Answered /\ Pending' = Pending
        /\ Issued' = Issued /\ Arrived' = {}
    BY <1>1 DEF Working, Answered, Pending, Issued, Arrived
  <1>4. packet \notin Received \cup Working \cup Answered \cup Pending \cup sent
    BY <1>2 DEF PlacesInv, Apart
  <1>5. Once(recv_queue') /\ (Received' = Received \/ Received' = Received \cup {packet})
    <2>1. CASE recv_queue' = recv_queue
      BY <2>1 DEF PlacesInv, NoneTwice, Received
    <2>2. CASE recv_queue' = Append(recv_queue, packet)
      <3>1. /\ packet \notin Listed(recv_queue) /\ Once(recv_queue)
            /\ recv_queue \in Seq(Ctx)
        BY <1>2, <1>4 DEF PlacesInv, NoneTwice, Received, TypeOK
      <3>2. /\ Once(Append(recv_queue, packet))
            /\ Listed(Append(recv_queue, packet)) = Listed(recv_queue) \cup {packet}
        BY <1>2, <3>1, PushBackOnce
      <3> QED
        BY <2>2, <3>2 DEF Received
    <2> QED
      BY <1>1, <2>1, <2>2
  <1>6. Apart' /\ Held' \subseteq Held
    BY <1>1, <1>2, <1>3, <1>4, <1>5 DEF PlacesInv, Apart, Held
  <1>7. NoneTwice'
    BY <1>1, <1>5 DEF PlacesInv, NoneTwice
  <1> QED
    BY <1>1, <1>3, <1>6, <1>7 DEF PlacesInv

(* Where the contexts of the workers are when worker w gets y in place of  *)
(* the one it has.                                                         *)
LEMMA WorkingChanged ==
    ASSUME TypeOK, NoneTwice, NEW w \in Workers, NEW y \in Ctx \cup {None},
           wctx' = [wctx EXCEPT ![w] = y], y \in Ctx => y \notin Working
    PROVE  /\ Working' = (Working \ {wctx[w]}) \cup ({y} \ {None})
           /\ \A u, v \in Workers : wctx'[u] = wctx'[v] /\ wctx'[u] # None => u = v
  <1>1. \A v \in Workers : wctx'[v] = IF v = w THEN y ELSE wctx[v]
    BY DEF TypeOK
  <1>2. \A v \in Workers : v # w /\ wctx[v] # None => wctx[v] # wctx[w] /\ wctx[v] # y
    BY DEF NoneTwice, Working, TypeOK
  <1>3. \A x : x \in Working' <=> x \in (Working \ {wctx[w]}) \cup ({y} \ {None})
    BY <1>1, <1>2 DEF Working
  <1>4. \A u, v \in Workers : wctx'[u] = wctx'[v] /\ wctx'[u] # None => u = v
    BY <1>1, <1>2 DEF NoneTwice
  <1> QED
    BY <1>3, <1>4

(* pop_front_to moves the oldest context from the queue to the worker.     *)
LEMMA PlacesPop ==
    ASSUME TypeOK, PlacesInv, NEW w \in Workers, PopFrontTo(w)
    PROVE  PlacesInv' /\ Held' \subseteq Held
  <1>0. UNCHANGED <<packet, send_queue, pending, sent, seq>>
    BY DEF PopFrontTo, connVars, ctxVars
  <1>1. CASE terminated
    BY <1>0, <1>1, PlacesKept DEF PopFrontTo
  <1>2. CASE ~terminated
    <2> DEFINE y == Head(recv_queue)
    <2>1. /\ recv_queue # <<>> /\ recv_queue' = Tail(recv_queue)
          /\ wctx' = [wctx EXCEPT ![w] = y]
      BY <1>2 DEF PopFrontTo
    <2>2. /\ Once(recv_queue') /\ Received' = Received \ {y} /\ y \in Received
      <3>1. recv_queue \in Seq(Ctx) /\ Once(recv_queue)
        BY DEF TypeOK, PlacesInv, NoneTwice
      <3> QED
        BY <2>1, <3>1, PopFront DEF Received
    <2>3. y \in Ctx /\ y \notin Working
      BY <2>2 DEF PlacesInv, Apart, Held, Issued
    <2> HIDE DEF y
    <2>4. /\ Working' = (Working \ {wctx[w]}) \cup ({y} \ {None})
          /\ \A u, v \in Workers : wctx'[u] = wctx'[v] /\ wctx'[u] # None => u = v
      BY <2>1, <2>3, WorkingChanged DEF PlacesInv
    <2>5. /\ Arrived' = Arrived /\ Answered' = Answered /\ Pending' = Pending
          /\ Issued' = Issued
      BY <1>0 DEF Arrived, Answered, Pending, Issued
    <2>6. Apart' /\ Held' \subseteq Held
      BY <1>0, <2>2, <2>4, <2>5 DEF PlacesInv, Apart, Held
    <2>7. NoneTwice'
      BY <1>0, <2>2, <2>4 DEF PlacesInv, NoneTwice
    <2> QED
      BY <1>0, <2>5, <2>6, <2>7 DEF PlacesInv
  <1> QED
    BY <1>1, <1>2

(* A worker that ends drops its context.                                   *)
LEMMA PlacesThrow ==
    ASSUME TypeOK, PlacesInv, NEW w \in Workers, HandleThrows(w)
    PROVE  PlacesInv' /\ Held' \subseteq Held
  <1>0. UNCHANGED <<packet, recv_queue, send_queue, pending, sent, seq>>
        /\ wctx' = [wctx EXCEPT ![w] = None]
    BY DEF HandleThrows, connVars, queueVars, ctxVars
  <1>1. None \notin Ctx
    BY NetThreadAssumption DEF Ctx
  <1>2. /\ Working' = (Working \ {wctx[w]}) \cup ({None} \ {None})
        /\ \A u, v \in Workers : wctx'[u] = wctx'[v] /\ wctx'[u] # None => u = v
    BY <1>0, <1>1, WorkingChanged DEF PlacesInv
  <1>3. /\ Arrived' = Arrived /\ Received' = Received /\ Answered' = Answered
        /\ Pending' = Pending /\ Issued' = Issued
    BY <1>0 DEF Arrived, Received, Answered, Pending, Issued
  <1>4. Apart' /\ Held' \subseteq Held
    BY <1>0, <1>2, <1>3, ApartFewer DEF PlacesInv
  <1>5. NoneTwice'
    BY <1>0, <1>2 DEF PlacesInv, NoneTwice
  <1> QED
    BY <1>0, <1>3, <1>4, <1>5 DEF PlacesInv

(* push_back moves a context from the worker to the send queue.            *)
LEMMA PlacesPush ==
    ASSUME TypeInv, PlacesInv, NEW w \in Workers, PushBack(w)
    PROVE  PlacesInv' /\ Held' \subseteq Held
  <1> DEFINE y == wctx[w]
  <1>0. /\ UNCHANGED <<packet, recv_queue, pending, sent, seq>>
        /\ wctx' = [wctx EXCEPT ![w] = None]
        /\ send_queue' = send_queue \/ send_queue' = Append(send_queue, y)
    BY DEF PushBack, connVars, ctxVars
  <1>1. None \notin Ctx /\ y \in Ctx /\ y \in Working /\ TypeOK
    BY NetThreadAssumption DEF Ctx, TypeInv, PushBack, Working
  <1>2. /\ Working' = (Working \ {y}) \cup ({None} \ {None})
        /\ \A u, v \in Workers : wctx'[u] = wctx'[v] /\ wctx'[u] # None => u = v
    BY <1>0, <1>1, WorkingChanged DEF PlacesInv
  <1> HIDE DEF y
  <1>3. y \notin Answered
    BY <1>1 DEF PlacesInv, Apart
  <1>4. Once(send_queue') /\ (Answered' = Answered \/ Answered' = Answered \cup {y})
    <2>1. CASE send_queue' = send_queue
      BY <2>1 DEF PlacesInv, NoneTwice, Answered
    <2>2. CASE send_queue' = Append(send_queue, y)
      <3>1. y \notin Listed(send_queue) /\ Once(send_queue) /\ send_queue \in Seq(Ctx)
        BY <1>1, <1>3 DEF PlacesInv, NoneTwice, Answered, TypeOK
      <3>2. /\ Once(Append(send_queue, y))
            /\ Listed(Append(send_queue, y)) = Listed(send_queue) \cup {y}
        BY <1>1, <3>1, PushBackOnce
      <3> QED
        BY <2>2, <3>2 DEF Answered
    <2> QED
      BY <1>0, <2>1, <2>2
  <1>5. /\ Arrived' = Arrived /\ Received' = Received /\ Pending' = Pending
        /\ Issued' = Issued
    BY <1>0 DEF Arrived, Received, Pending, Issued
  <1>6. Apart' /\ Held' \subseteq Held
    BY <1>0, <1>1, <1>2, <1>4, <1>5 DEF PlacesInv, Apart, Held
  <1>7. NoneTwice'
    BY <1>0, <1>2, <1>4 DEF PlacesInv, NoneTwice
  <1> QED
    BY <1>0, <1>5, <1>6, <1>7 DEF PlacesInv

(* HandleSend takes the oldest answer, and drops it, sends it or leaves it *)
(* pending.                                                                *)
LEMMA PlacesSend ==
    ASSUME TypeOK, PlacesInv, HandleSend
    PROVE  PlacesInv' /\ Held' \subseteq Held
  <1> DEFINE x == Head(send_queue)
  <1>0. /\ UNCHANGED <<packet, recv_queue, wctx, seq>>
        /\ send_queue # <<>> /\ send_queue' = Tail(send_queue)
    BY DEF HandleSend, workerVars
  <1>s. \/ UNCHANGED <<pending, sent>>
        \/ UNCHANGED pending /\ sent' = sent \cup {<<x[1], x[2]>>}
        \/ UNCHANGED sent /\ pending' = [pending EXCEPT ![x[1]] = Append(@, x[2])]
    <2>1. SendDone(x[1], {x[2]}) => sent' = sent \cup {<<x[1], x[2]>>}
      BY DEF SendDone
    <2> QED
      BY <2>1 DEF HandleSend
  <1>1. /\ Once(send_queue') /\ Answered' = Answered \ {x} /\ x \in Answered
    <2>1. send_queue \in Seq(Ctx) /\ Once(send_queue)
      BY DEF TypeOK, PlacesInv, NoneTwice
    <2> QED
      BY <1>0, <2>1, PopFront DEF Answered
  <1>2. /\ x \in Ctx /\ x \in Issued
        /\ x \notin Arrived \cup Received \cup Working \cup Pending \cup sent
    BY <1>1 DEF PlacesInv, Apart, Held, Issued
  <1>3. x = <<x[1], x[2]>> /\ x[1] \in Conns /\ x[2] \in 1 .. MaxPackets
    BY <1>2 DEF Ctx
  <1> HIDE DEF x
  <1>4. /\ Arrived' = Arrived /\ Received' = Received /\ Working' = Working
        /\ Issued' = Issued
    BY <1>0 DEF Arrived, Received, Working, Issued
  <1>5. CASE UNCHANGED <<pending, sent>>
    <2>1. Pending' = Pending
      BY <1>5 DEF Pending
    <2>2. Apart' /\ Held' \subseteq Held
      BY <1>1, <1>4, <1>5, <2>1, ApartFewer DEF PlacesInv
    <2>3. NoneTwice'
      BY <1>0, <1>1, <1>5 DEF PlacesInv, NoneTwice
    <2> QED
      BY <1>4, <1>5, <2>2, <2>3 DEF PlacesInv
  <1>6. CASE UNCHANGED pending /\ sent' = sent \cup {<<x[1], x[2]>>}
    <2>1. Pending' = Pending /\ sent' = sent \cup {x}
      BY <1>3, <1>6 DEF Pending
    <2>2. Apart' /\ Held' \subseteq Held
      BY <1>1, <1>2, <1>4, <2>1 DEF PlacesInv, Apart, Held
    <2>3. NoneTwice'
      BY <1>0, <1>1, <1>6 DEF PlacesInv, NoneTwice
    <2> QED
      BY <1>2, <1>4, <2>1, <2>2, <2>3 DEF PlacesInv
  <1>7. CASE UNCHANGED sent /\ pending' = [pending EXCEPT ![x[1]] = Append(@, x[2])]
    <2> DEFINE p == pending[x[1]]
    <2>1. p \in Seq(1 .. MaxPackets) /\ Once(p) /\ x[2] \notin Listed(p)
      BY <1>2, <1>3 DEF TypeOK, PlacesInv, NoneTwice, Pending
    <2>2. /\ Once(Append(p, x[2]))
          /\ Listed(Append(p, x[2])) = Listed(p) \cup {x[2]}
      <3> DEFINE k == x[2]
                 K == 1 .. MaxPackets
      <3>1. p \in Seq(K) /\ k \in K /\ Once(p) /\ k \notin Listed(p)
        BY <1>3, <2>1
      <3> HIDE DEF k, K, p
      <3>2. Once(Append(p, k)) /\ Listed(Append(p, k)) = Listed(p) \cup {k}
        BY <3>1, PushBackOnce
      <3> QED
        BY <3>2 DEF k
    <2>3. \A c \in Conns : pending'[c] = IF c = x[1] THEN Append(p, x[2]) ELSE pending[c]
      BY <1>3, <1>7 DEF TypeOK
    <2> HIDE DEF p
    <2>4. p = pending[x[1]]
      BY DEF p
    <2>5. Pending' = Pending \cup {x}
      <3>1. \A y \in Ctx : y \in Pending' <=> y \in Pending \/ y = x
        <4> TAKE y \in Ctx
        <4>1. y[1] \in Conns /\ y = <<y[1], y[2]>>
          BY DEF Ctx
        <4>2. CASE y[1] = x[1]
          <5>1. y \in Pending' <=> y[2] \in Listed(p) \cup {x[2]}
            BY <2>2, <2>3, <4>1, <4>2 DEF Pending
          <5>2. y \in Pending <=> y[2] \in Listed(p)
            BY <2>4, <4>2 DEF Pending
          <5>3. y = x <=> y[2] = x[2]
            BY <1>3, <4>1, <4>2
          <5> QED
            BY <5>1, <5>2, <5>3
        <4>3. CASE y[1] # x[1]
          BY <2>3, <4>1, <4>3 DEF Pending
        <4> QED
          BY <4>2, <4>3
      <3>2. Pending \subseteq Ctx /\ Pending' \subseteq Ctx
        BY DEF Pending
      <3> QED
        BY <1>2, <3>1, <3>2
    <2>6. Apart' /\ Held' \subseteq Held
      BY <1>1, <1>2, <1>4, <1>7, <2>5 DEF PlacesInv, Apart, Held
    <2>7. NoneTwice'
      BY <1>0, <1>1, <2>2, <2>3 DEF PlacesInv, NoneTwice
    <2> QED
      BY <1>4, <1>7, <2>6, <2>7 DEF PlacesInv
  <1> QED
    BY <1>s, <1>5, <1>6, <1>7

(* __OnWriteEvent sends a first part of the pending answers.               *)
LEMMA PlacesWrite ==
    ASSUME TypeOK, PlacesInv, NEW c \in Conns, OnWriteEvent(c)
    PROVE  PlacesInv' /\ Held' \subseteq Held
  <1> DEFINE p == pending[c]
  <1>1. PICK n \in 0 .. Len(p) :
            /\ sent' = sent \cup {<<c, k>> : k \in {p[i] : i \in 1 .. n}}
            /\ pending' = [pending EXCEPT ![c] = SubSeq(p, n + 1, Len(p))]
    BY DEF OnWriteEvent, SendDone
  <1>0. UNCHANGED <<packet, recv_queue, send_queue, wctx, seq>>
    BY DEF OnWriteEvent, queueVars, workerVars
  <1> DEFINE q == SubSeq(p, n + 1, Len(p))
  <1>2. p \in Seq(1 .. MaxPackets) /\ Once(p)
    BY DEF TypeOK, PlacesInv, NoneTwice
  <1>3. /\ Once(q) /\ Listed(q) \subseteq Listed(p)
        /\ \A i \in 1 .. n : p[i] \in Listed(p) /\ p[i] \notin Listed(q)
    BY <1>2, DropFront
  <1>4. \A d \in Conns : pending'[d] = IF d = c THEN q ELSE pending[d]
    BY <1>1 DEF TypeOK
  <1>5. Listed(p) \subseteq 1 .. MaxPackets
    <2> DEFINE K == 1 .. MaxPackets
    <2>1. p \in Seq(K)
      BY <1>2
    <2> HIDE DEF K, p
    <2>2. \A i \in DOMAIN p : p[i] \in K
      BY <2>1, ElementOfSeq, LenProperties
    <2> QED
      BY <2>2 DEF Listed, K
  <1>6. p = pending[c]
    OBVIOUS
  <1> HIDE DEF p, q
  <1>7. Pending' \subseteq Pending
    BY <1>3, <1>4, <1>6 DEF Pending, Ctx
  <1>8. \A y \in sent' \ sent : y \in Pending /\ y \notin Pending'
    <2> TAKE y \in sent' \ sent
    <2>1. PICK i \in 1 .. n : y = <<c, p[i]>>
      BY <1>1
    <2>2. p[i] \in Listed(p) /\ p[i] \notin Listed(q) /\ p[i] \in 1 .. MaxPackets
      BY <1>3, <1>5
    <2>3. y \in Ctx /\ y[1] = c /\ y[2] = p[i]
      BY <2>1, <2>2 DEF Ctx
    <2> QED
      BY <1>4, <1>6, <2>2, <2>3 DEF Pending
  <1>9. /\ Arrived' = Arrived /\ Received' = Received /\ Working' = Working
        /\ Answered' = Answered /\ Issued' = Issued
    BY <1>0 DEF Arrived, Received, Working, Answered, Issued
  <1>10. sent \subseteq sent'
    BY <1>1
  <1>11. Apart' /\ Held' \subseteq Held
    BY <1>7, <1>8, <1>9 DEF PlacesInv, Apart, Held
  <1>12. NoneTwice'
    BY <1>0, <1>3, <1>4 DEF PlacesInv, NoneTwice
  <1>13. sent' \subseteq Issued
    BY <1>8 DEF PlacesInv, Held
  <1> QED
    BY <1>9, <1>11, <1>12, <1>13 DEF PlacesInv

-----------------------------------------------------------------------------
(* A context on its way is valid, and listed by its connection, as long as *)
(* the connection is alive, and not valid once it is gone.                 *)
ValidInv ==
    \A x \in Held : IF x[1] \in Live THEN x \in valid /\ x[2] \in send_contexts[x[1]]
                                     ELSE x \notin valid

(* Steps that hand contexts on, or drop them.                              *)
LEMMA ValidKept ==
    ASSUME ValidInv, Held' \subseteq Held, UNCHANGED <<conn, valid, send_contexts>>
    PROVE  ValidInv'
  BY DEF ValidInv, Live

(* ~ConnectionProfile finds every context of its connection that is still  *)
(* on its way in send_contexts_.                                           *)
LEMMA ValidDelete ==
    ASSUME NEW S \in SUBSET Live, Held \subseteq Ctx, ValidInv, Held' \subseteq Held,
           Delete(S)
    PROVE  ValidInv'
  <1> SUFFICES ASSUME NEW x \in Held'
               PROVE  IF x[1] \in Live' THEN x \in valid' /\ x[2] \in send_contexts'[x[1]]
                                        ELSE x \notin valid'
    BY DEF ValidInv
  <1>1. x \in Held /\ x[1] \in Conns
    BY DEF Ctx
  <1>2. /\ conn'[x[1]] = IF x[1] \in S THEN "closed" ELSE conn[x[1]]
        /\ send_contexts'[x[1]] = IF x[1] \in S THEN {} ELSE send_contexts[x[1]]
        /\ x \in valid' <=> x \in valid /\ ~(x[1] \in S /\ x[2] \in send_contexts[x[1]])
    BY <1>1 DEF Delete, Invalidate
  <1>3. CASE x[1] \in S
    BY <1>1, <1>2, <1>3 DEF ValidInv, Live
  <1>4. CASE x[1] \notin S
    BY <1>1, <1>2, <1>4 DEF ValidInv, Live
  <1> QED
    BY <1>3, <1>4

(* OnSendDone takes only contexts off the list that are nowhere any more.  *)
LEMMA ValidSent ==
    ASSUME NEW c \in Conns, NEW ks, TypeOK, Held \subseteq Ctx, ValidInv, Held' \subseteq Held,
           Apart', SendDone(c, ks), UNCHANGED <<conn, valid>>
    PROVE  ValidInv'
  <1> SUFFICES ASSUME NEW x \in Held'
               PROVE  IF x[1] \in Live' THEN x \in valid' /\ x[2] \in send_contexts'[x[1]]
                                        ELSE x \notin valid'
    BY DEF ValidInv
  <1>1. x \in Held /\ x[1] \in Conns /\ x = <<x[1], x[2]>>
    BY DEF Ctx
  <1>2. x \notin sent'
    BY DEF Apart, Held
  <1>3. ~(x[1] = c /\ x[2] \in ks)
    BY <1>1, <1>2 DEF SendDone
  <1>4. x[2] \in send_contexts[x[1]] => x[2] \in send_contexts'[x[1]]
    BY <1>1, <1>3 DEF SendDone, TypeOK
  <1> QED
    BY <1>1, <1>4 DEF ValidInv, Live

(* MakeSendContext lists the new context; it is a new one.                 *)
LEMMA ValidRead ==
    ASSUME NEW c \in Live, NEW upgrade \in BOOLEAN, TypeOK, PlacesInv, ValidInv,
           OnReadPacket(c, upgrade), ~Delete({c}),
           Held' \subseteq Held \cup {<<c, seq[c] + 1>>}
    PROVE  ValidInv'
  <1> DEFINE z == <<c, seq[c] + 1>>
  <1>1. /\ UNCHANGED conn /\ valid' = valid \cup {z}
        /\ send_contexts' = [send_contexts EXCEPT ![c] = @ \cup {z[2]}]
    BY DEF OnReadPacket
  <1>2. c \in Conns /\ z[1] = c
    BY DEF Live
  <1>3. z \notin Issued
    BY <1>2 DEF Issued, TypeOK
  <1> HIDE DEF z
  <1>4. \A d \in Conns : /\ send_contexts[d] \subseteq send_contexts'[d]
                         /\ d = c => z[2] \in send_contexts'[d]
    BY <1>1, <1>2 DEF TypeOK
  <1> SUFFICES ASSUME NEW x \in Held'
               PROVE  IF x[1] \in Live' THEN x \in valid' /\ x[2] \in send_contexts'[x[1]]
                                        ELSE x \notin valid'
    BY DEF ValidInv
  <1>5. Live' = Live
    BY <1>1 DEF Live
  <1>6. CASE x = z
    BY <1>1, <1>2, <1>4, <1>5, <1>6
  <1>7. CASE x # z
    <2>1. x \in Held
      BY <1>7 DEF z
    <2>2. x[1] \in Conns
      BY <2>1 DEF PlacesInv, Issued, Ctx
    <2> QED
      BY <1>1, <1>4, <1>5, <1>7, <2>1, <2>2 DEF ValidInv
  <1> QED
    BY <1>6, <1>7

(* A connection is registered before it has contexts.                      *)
LEMMA ValidRegister ==
    ASSUME NEW c \in Conns, TypeOK, EventInv, PlacesInv, ValidInv, RegisterConnection(c),
           Held' = Held
    PROVE  ValidInv'
  <1>1. /\ conn[c] = "new" /\ UNCHANGED <<valid, send_contexts>>
        /\ \A d \in Conns \ {c} : conn'[d] = conn[d]
    BY DEF RegisterConnection, ctxVars, TypeOK
  <1>2. seq[c] = 0
    BY <1>1 DEF EventInv
  <1>3. \A x \in Held : x[1] \in Conns \ {c}
    BY <1>2 DEF PlacesInv, Issued, Ctx
  <1> QED
    BY <1>1, <1>3 DEF ValidInv, Live

(* Both are inductive, given that edges are those of live connections.     *)
LEMMA OwnedNext ==
    ASSUME TypeInv, EventInv, PlacesInv, ValidInv, [Next]_vars
    PROVE  PlacesInv' /\ ValidInv'
  <1> USE DEF connVars, batchVars, queueVars, workerVars, ctxVars
  <1>t. TypeOK /\ Held \subseteq Ctx
    BY DEF TypeInv, PlacesInv, Issued
  <1>k. ASSUME UNCHANGED <<packet, recv_queue, send_queue, pending, wctx, sent, seq, conn,
                           valid, send_contexts>>
        PROVE  PlacesInv' /\ ValidInv'
    BY <1>k, PlacesKept, ValidKept
  <1>d. ASSUME NEW S \in SUBSET Live, Delete(S), UNCHANGED <<packet, recv_queue, send_queue, wctx>>
        PROVE  PlacesInv' /\ ValidInv'
    <2>1. S \in SUBSET Conns
      BY DEF Live
    <2> QED
      BY <1>t, <1>d, <2>1, PlacesDelete, ValidDelete
  <1>1. ASSUME NEW c \in Conns, RegisterConnection(c) PROVE PlacesInv' /\ ValidInv'
    <2>1. PlacesInv' /\ Held' = Held
      BY <1>1, PlacesKept DEF RegisterConnection
    <2> QED
      BY <1>t, <1>1, <2>1, ValidRegister
  <1>2. CASE JoinNetThread \/ ClearTimeout
    BY <1>2, <1>d DEF JoinNetThread, ClearTimeout, TimedOut
  <1>3. ASSUME NEW c \in Conns, OnErrEvent(c) PROVE PlacesInv' /\ ValidInv'
    <2>1. {c} \in SUBSET Live
      BY <1>3 DEF OnErrEvent, EventInv, Live
    <2> QED
      BY <1>3, <1>d, <2>1 DEF OnErrEvent
  <1>4. ASSUME NEW c \in Conns, NEW upgrade \in BOOLEAN, OnReadPacket(c, upgrade)
        PROVE  PlacesInv' /\ ValidInv'
    <2>1. c \in Live
      BY <1>4 DEF OnReadPacket, EventInv, Live
    <2>2. CASE Delete({c})
      <3>1. UNCHANGED <<recv_queue, send_queue, wctx>> /\ {c} \in SUBSET Live
        BY <1>4, <2>1 DEF OnReadPacket
      <3>2. UNCHANGED packet
        <4>1. seq' = seq /\ seq[c] \in Nat
          BY <1>t, <2>2 DEF Delete, TypeOK
        <4>2. ASSUME seq' = [seq EXCEPT ![c] = @ + 1] PROVE FALSE
          <5>1. seq'[c] = seq[c] + 1
            BY <1>t, <4>2 DEF TypeOK
          <5> QED
            BY <4>1, <5>1
        <4> QED
          BY <1>4, <4>2 DEF OnReadPacket
      <3> QED
        BY <1>d, <2>2, <3>1, <3>2
    <2>3. CASE ~Delete({c})
      <3>1. PlacesInv' /\ Held' \subseteq Held \cup {<<c, seq[c] + 1>>}
        BY <1>t, <1>4, <2>3, PlacesRead
      <3> QED
        BY <1>t, <1>4, <2>1, <2>3, <3>1, ValidRead
    <2> QED
      BY <2>2, <2>3
  <1>5. ASSUME NEW c \in Conns, OnWriteEvent(c) PROVE PlacesInv' /\ ValidInv'
    <2>1. PlacesInv' /\ Held' \subseteq Held /\ Apart'
      BY <1>t, <1>5, PlacesWrite DEF PlacesInv
    <2>2. PICK ks : SendDone(c, ks)
      BY <1>5 DEF OnWriteEvent
    <2>3. UNCHANGED <<conn, valid>>
      BY <1>5 DEF OnWriteEvent
    <2> QED
      BY <1>t, <2>1, <2>2, <2>3, ValidSent
  <1>6. CASE HandleSend
    <2>1. PlacesInv' /\ Held' \subseteq Held /\ Apart'
      BY <1>t, <1>6, PlacesSend DEF PlacesInv
    <2>2. UNCHANGED <<conn, valid>>
      BY <1>6 DEF HandleSend
    <2>3. CASE UNCHANGED send_contexts
      BY <2>1, <2>2, <2>3, ValidKept
    <2>4. CASE SendDone(Head(send_queue)[1], {Head(send_queue)[2]})
      <3>1. Head(send_queue)[1] \in Conns
        <4>1. send_queue \in Seq(Ctx) /\ send_queue # <<>>
          BY <1>t, <1>6 DEF TypeOK, HandleSend
        <4>2. Head(send_queue) \in Ctx
          BY <4>1
        <4> QED
          BY <4>2 DEF Ctx
      <3> QED
        BY <1>t, <2>1, <2>2, <2>4, <3>1, ValidSent
    <2> QED
      BY <1>6, <2>3, <2>4 DEF HandleSend
  <1>7. ASSUME NEW w \in Workers, PopFrontTo(w) \/ HandleThrows(w) \/ PushBack(w)
        PROVE  PlacesInv' /\ ValidInv'
    <2>1. PlacesInv' /\ Held' \subseteq Held
      BY <1>t, <1>7, PlacesPop, PlacesThrow, PlacesPush
    <2>2. UNCHANGED <<conn, valid, send_contexts>>
      BY <1>7 DEF PopFrontTo, HandleThrows, PushBack
    <2> QED
      BY <2>1, <2>2, ValidKept
  <1>12. CASE PushRecvContext
    <2>1. PlacesInv' /\ Held' \subseteq Held
      BY <1>12, PlacesQueue
    <2>2. UNCHANGED <<conn, valid, send_contexts>>
      BY <1>12 DEF PushRecvContext
    <2> QED
      BY <2>1, <2>2, ValidKept
  <1>8. ASSUME NEW w \in Workers, Handle(w) \/ NotifySend(w) PROVE PlacesInv' /\ ValidInv'
    BY <1>k, <1>8 DEF Handle, NotifySend
  <1>9. CASE \/ ConfigApplicationLayer \/ NotifyStopRunning \/ NotifyStopEpoll \/ Entry
             \/ EnterLoop \/ LeaveLoop \/ EpollWait \/ EpollTimeout \/ EpollFail \/ OnNotifyStop
             \/ CheckNotification \/ EventsDone \/ HandleSendDone \/ SkipClearTimeout
             \/ OnStop \/ JoinWorkers \/ UNCHANGED vars
    BY <1>k, <1>9
    DEF ConfigApplicationLayer, NotifyStopRunning, NotifyStopEpoll, Entry, EnterLoop, LeaveLoop,
        EpollWait, EpollTimeout, EpollFail, OnNotifyStop, CheckNotification, EventsDone,
        HandleSendDone, SkipClearTimeout, OnStop, JoinWorkers, vars
  <1>10. ASSUME NEW c \in Conns, OnReadIncomplete(c) \/ Expire(c) PROVE PlacesInv' /\ ValidInv'
    BY <1>k, <1>10 DEF OnReadIncomplete, Expire
  <1>11. ASSUME NEW c \in Conns, NEW e \in {"in", "out"}, SocketEvent(c, e)
         PROVE  PlacesInv' /\ ValidInv'
    BY <1>k, <1>11 DEF SocketEvent
  <1> QED
    BY <1>1, <1>2, <1>3, <1>4, <1>5, <1>6, <1>7, <1>8, <1>9, <1>10, <1>11, <1>12
    DEF Next, MainStep, NetThreadStep, OnEvent, WorkerStep, Environment, Stopped

OwnedInv == TypeInv /\ EventInv /\ PlacesInv /\ ValidInv

(* At the start no context has been made.                                  *)
LEMMA OwnedInit == Init => OwnedInv
  <1> SUFFICES ASSUME Init PROVE OwnedInv
    OBVIOUS
  <1>1. TypeInv
    BY TypeInit
  <1>2. EventInv
    BY DEF Init, EventInv
  <1>3. Listed(<<>>) = {} /\ Once(<<>>)
    BY DEF Listed, Once
  <1>4. Held = {} /\ sent = {} /\ Apart
    BY <1>3 DEF Init, Held, Arrived, Received, Working, Answered, Pending, Ctx, Apart
  <1>5. NoneTwice
    BY <1>3 DEF Init, NoneTwice
  <1> QED
    BY <1>1, <1>2, <1>4, <1>5 DEF OwnedInv, PlacesInv, ValidInv

(* The four parts together are an invariant of the NetThread.              *)
LEMMA OwnedAlways == Spec => []OwnedInv
  <1>1. ASSUME OwnedInv, [Next]_vars PROVE OwnedInv'
    <2>1. TypeInv'
      BY <1>1, TypeNext DEF OwnedInv
    <2>2. EventInv'
      BY <1>1, EventNext DEF OwnedInv, TypeInv
    <2>3. PlacesInv' /\ ValidInv'
      BY <1>1, OwnedNext DEF OwnedInv
    <2> QED
      BY <2>1, <2>2, <2>3 DEF OwnedInv
  <1> QED
    BY <1>1, OwnedInit, PTL DEF Spec

(* What an owner of a context is.                                          *)
OwnerOf(p, x) ==
    /\ p = <<p[1], p[2]>>
    /\ \/ p[1] = "net" /\ x \in Arrived /\ p[2] = packet
       \/ /\ p[1] = "recv" /\ x \in Received
          /\ p[2] \in DOMAIN recv_queue /\ recv_queue[p[2]] = x
       \/ /\ p[1] = "worker" /\ x \in Working
          /\ p[2] \in Workers /\ wctx[p[2]] = x
       \/ /\ p[1] = "send" /\ x \in Answered
          /\ p[2] \in DOMAIN send_queue /\ send_queue[p[2]] = x
       \/ /\ p[1] = "pending" /\ x \in Pending
          /\ p[2] \in DOMAIN pending[x[1]] /\ pending[x[1]][p[2]] = x[2]

(* Every member of Owners is one.                                          *)
LEMMA OwnerCases ==
    ASSUME TypeOK, NEW x \in Ctx, NEW p \in Owners(x) PROVE OwnerOf(p, x)
  <1> USE DEF OwnerOf
  <1>0. None # x
    BY NetThreadAssumption DEF Ctx
  <1>5. CASE p \in {"net"} \X {q \in {packet} : q = x}
    BY <1>0, <1>5 DEF Arrived
  <1>1. CASE p \in {"recv"} \X {i \in DOMAIN recv_queue : recv_queue[i] = x}
    <2>1. p = <<p[1], p[2]>> /\ p[1] = "recv" /\ p[2] \in DOMAIN recv_queue /\ recv_queue[p[2]] = x
      BY <1>1
    <2>2. x \in Received
      BY <2>1 DEF Received, Listed
    <2> QED
      BY <2>1, <2>2
  <1>2. CASE p \in {"worker"} \X {w \in Workers : wctx[w] = x}
    BY <1>0, <1>2 DEF Working
  <1>3. CASE p \in {"send"} \X {i \in DOMAIN send_queue : send_queue[i] = x}
    <2>1. p = <<p[1], p[2]>> /\ p[1] = "send" /\ p[2] \in DOMAIN send_queue /\ send_queue[p[2]] = x
      BY <1>3
    <2>2. x \in Answered
      BY <2>1 DEF Answered, Listed
    <2> QED
      BY <2>1, <2>2
  <1>4. CASE p \in {"pending"} \X {i \in DOMAIN pending[x[1]] : pending[x[1]][i] = x[2]}
    BY <1>4 DEF Pending, Listed
  <1> QED
    BY <1>1, <1>2, <1>3, <1>4, <1>5 DEF Owners

(* A context is handed from the NetThread to a worker, back through the    *)
(* send queue and into the pending queue of its connection without ever    *)
(* being in two places, whatever is dropped, deleted or thrown on the way. *)
THEOREM AlwaysOneOwner == Spec => []OneOwner
  <1>1. ASSUME OwnedInv PROVE OneOwner
    <2> SUFFICES ASSUME NEW x \in Ctx
                 PROVE  /\ \A p, q \in Owners(x) : p = q
                        /\ x \in sent => Owners(x) = {}
      BY DEF OneOwner
    <2>1. TypeOK /\ Apart /\ NoneTwice
      BY <1>1 DEF OwnedInv, TypeInv, PlacesInv
    <2>2. ASSUME x \in sent, NEW p \in Owners(x) PROVE FALSE
      <3>1. x \in Held
        BY <2>1, OwnerCases DEF Held, OwnerOf
      <3> QED
        BY <2>1, <2>2, <3>1 DEF Apart, Held
    <2>3. ASSUME NEW p \in Owners(x), NEW q \in Owners(x) PROVE p = q
      <3> USE DEF OwnerOf
      <3>1. OwnerOf(p, x)
        BY <2>1, OwnerCases
      <3>2. OwnerOf(q, x)
        BY <2>1, OwnerCases
      <3>3. p[1] = q[1]
        BY <2>1, <3>1, <3>2 DEF Apart
      <3>4. x[1] \in Conns /\ x # None
        BY NetThreadAssumption DEF Ctx
      <3>5. p[2] = q[2]
        BY <2>1, <3>1, <3>2, <3>3, <3>4, SMTT(40) DEF NoneTwice, Once
      <3> QED
        BY <3>1, <3>2, <3>3, <3>5
    <2> QED
      BY <2>2, <2>3
  <1> QED
    BY <1>1, OwnedAlways, PTL

(* is_tcp_conn_valid of a context still on its way says whether its        *)
(* connection is alive, however the connection came to be deleted.         *)
THEOREM AlwaysValidIffLive == Spec => []ValidIffLive
  <1>1. ASSUME OwnedInv PROVE ValidIffLive
    <2> SUFFICES ASSUME NEW x \in Ctx, NEW p \in Owners(x)
                 PROVE  x \in valid <=> x[1] \in Live
      BY DEF ValidIffLive
    <2>1. x \in Held
      BY <1>1, OwnerCases DEF OwnedInv, TypeInv, Held, OwnerOf
    <2> QED
      BY <1>1, <2>1 DEF OwnedInv, ValidInv
  <1> QED
    BY <1>1, OwnedAlways, PTL

(* The step that sends an answer finds its connection alive: HandleSend    *)
(* because the context is valid, __OnWriteEvent because an edge was        *)
(* reported.                                                               *)
LEMMA SentToLive ==
    ASSUME OwnedInv, [Next]_vars PROVE \A x \in sent' \ sent : x[1] \in Live
  <1> USE DEF connVars, ctxVars
  <1>1. CASE HandleSend
    <2> DEFINE z == Head(send_queue)
    <2>1. send_queue \in Seq(Ctx) /\ send_queue # <<>>
      BY <1>1 DEF OwnedInv, TypeInv, TypeOK, HandleSend
    <2>2. z \in Answered
      <3>1. 1 \in DOMAIN send_queue /\ z = send_queue[1]
        BY <2>1
      <3> QED
        BY <3>1 DEF Answered, Listed
    <2>3. sent' = sent \/ (z \in valid /\ sent' = sent \cup {<<z[1], z[2]>>})
      BY <1>1 DEF HandleSend, SendDone, IsTcpConnValid
    <2>4. z \in valid => z[1] \in Live
      BY <2>2 DEF OwnedInv, ValidInv, Held
    <2> HIDE DEF z
    <2> QED
      BY <2>3, <2>4
  <1>2. ASSUME NEW c \in Conns, OnWriteEvent(c) PROVE \A x \in sent' \ sent : x[1] \in Live
    <2>1. c \in Live
      BY <1>2 DEF OnWriteEvent, OwnedInv, EventInv, Live
    <2>2. PICK ks : SendDone(c, ks)
      BY <1>2 DEF OnWriteEvent
    <2>3. sent' = sent \cup {<<c, k>> : k \in ks}
      BY <2>2 DEF SendDone
    <2> QED
      <3> SUFFICES ASSUME NEW x \in sent' \ sent PROVE x[1] \in Live
        OBVIOUS
      <3>1. PICK k \in ks : x = <<c, k>>
        BY <2>3
      <3> QED
        BY <2>1, <3>1
  <1>3. ASSUME NEW c \in Conns, OnErrEvent(c) \/ OnReadIncomplete(c) \/ RegisterConnection(c)
                                \/ Expire(c)
        PROVE  sent' = sent
    BY <1>3 DEF OnErrEvent, OnReadIncomplete, RegisterConnection, Expire, Delete
  <1>4. ASSUME NEW c \in Conns, NEW upgrade \in BOOLEAN, OnReadPacket(c, upgrade)
        PROVE  sent' = sent
    BY <1>4 DEF OnReadPacket, Delete
  <1>5. ASSUME NEW w \in Workers, WorkerStep(w) \/ HandleThrows(w) PROVE sent' = sent
    BY <1>5 DEF WorkerStep, PopFrontTo, Handle, PushBack, NotifySend, HandleThrows
  <1>6. ASSUME NEW c \in Conns, NEW e \in {"in", "out"}, SocketEvent(c, e) PROVE sent' = sent
    BY <1>6 DEF SocketEvent
  <1>7. ASSUME \/ ConfigApplicationLayer \/ NotifyStopRunning \/ NotifyStopEpoll
               \/ JoinNetThread \/ Entry \/ EnterLoop \/ LeaveLoop \/ EpollWait \/ EpollTimeout
               \/ EpollFail \/ OnNotifyStop \/ CheckNotification \/ PushRecvContext
               \/ EventsDone
               \/ HandleSendDone \/ ClearTimeout \/ SkipClearTimeout \/ OnStop
               \/ JoinWorkers \/ UNCHANGED vars
        PROVE  sent' = sent
    BY <1>7
    DEF ConfigApplicationLayer, NotifyStopRunning, NotifyStopEpoll, JoinNetThread, Entry,
        EnterLoop, LeaveLoop, EpollWait, EpollTimeout, EpollFail, OnNotifyStop, CheckNotification,
        PushRecvContext, EventsDone, HandleSendDone, ClearTimeout, SkipClearTimeout, OnStop,
        JoinWorkers, Delete, vars
  <1>8. sent' = sent => \A x \in sent' \ sent : x[1] \in Live
    OBVIOUS
  <1> QED
    BY <1>1, <1>2, <1>3, <1>4, <1>5, <1>6, <1>7, <1>8
    DEF Next, MainStep, NetThreadStep, OnEvent, Environment, Stopped

(* Nothing is written to a connection that has been deleted while its      *)
(* request was with a worker or its answer was queued.                     *)
THEOREM NeverSentAfterDelete == Spec => NothingSentAfterDelete
  <1>1. OwnedInv /\ [Next]_vars => [\A x \in sent' \ sent : x[1] \in Live]_vars
    BY SentToLive
  <1> QED
    BY <1>1, OwnedAlways, PTL DEF Spec, NothingSentAfterDelete
=============================================================================
