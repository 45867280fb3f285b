-------------------------- MODULE ReverseProxyProofs --------------------------
(***************************************************************************)
(* Proofs about ReverseProxy for any connections and web servers, with a   *)
(* pool that may grow any number of times: the proxy uses the connection   *)
(* pool only through its operations, so what is proved of the pool holds   *)
(* in it; conn_map_ keeps what the handlers rely on; and a response goes   *)
(* to the client that asked or to nobody.                                  *)
(***************************************************************************)
EXTENDS ReverseProxy, TLAPS

PoolProofs == INSTANCE ConnectionManagerProofs WITH Makers <- {"net"}

\* The initial pool is the one the proofs about the pool start from.
LEMMA SameInit == Pool!Init => PoolProofs!Init
BY DEF Pool!Init, PoolProofs!Init, Pool!Threads, PoolProofs!Threads, Pool!kInvalidUid,
       PoolProofs!kInvalidUid

\* The operations of the pool are those the proofs about the pool speak of.
LEMMA SameOperations ==
    /\ \A c : Pool!RegisterConnection(c) => PoolProofs!RegisterConnection(c)
    /\ \A c : Pool!MakeConnection("net", c) => PoolProofs!MakeConnection("net", c)
    /\ \A t : Pool!CheckCapacity(t) => PoolProofs!CheckCapacity(t)
    /\ \A t : Pool!AddConnection(t) => PoolProofs!AddConnection(t)
    /\ \A c : Pool!DelConnection(c) => PoolProofs!DelConnection(c)
<1> USE DEF Pool!Unlocked, PoolProofs!Unlocked, Pool!poolVars, PoolProofs!poolVars, Pool!connVars,
            PoolProofs!connVars
<1>1. ASSUME NEW c PROVE Pool!RegisterConnection(c) => PoolProofs!RegisterConnection(c)
  BY DEF Pool!RegisterConnection, PoolProofs!RegisterConnection, Pool!AtLimit,
         PoolProofs!AtLimit, Pool!CurrConnectionCnt, PoolProofs!CurrConnectionCnt
<1>2. ASSUME NEW c PROVE Pool!MakeConnection("net", c) => PoolProofs!MakeConnection("net", c)
  BY DEF Pool!MakeConnection, PoolProofs!MakeConnection
<1>3. ASSUME NEW t PROVE Pool!CheckCapacity(t) => PoolProofs!CheckCapacity(t)
  BY DEF Pool!CheckCapacity, PoolProofs!CheckCapacity, Pool!NewCapacity,
         PoolProofs!NewCapacity, Pool!Reallocated, PoolProofs!Reallocated, Pool!NewPlaces,
         PoolProofs!NewPlaces
<1>4. ASSUME NEW t PROVE Pool!AddConnection(t) => PoolProofs!AddConnection(t)
  BY DEF Pool!AddConnection, PoolProofs!AddConnection
<1>5. ASSUME NEW c PROVE Pool!DelConnection(c) => PoolProofs!DelConnection(c)
  BY DEF Pool!DelConnection, PoolProofs!DelConnection, Pool!Release, PoolProofs!Release
<1> QED
  BY <1>1, <1>2, <1>3, <1>4, <1>5

\* The handler that deletes a web server's connection has one.
DeleteInv == job.stage = "delete" => job.conn \in Conns

\* HandleHttpResponse deletes the connection its response came on.
LEMMA DeleteInvAlways == Spec => []DeleteInv
<1>1. Init => DeleteInv
  BY DEF Init, DeleteInv, NoJob
<1>2. DeleteInv /\ [Next]_vars => DeleteInv'
  <2> SUFFICES ASSUME DeleteInv, [Next]_vars PROVE DeleteInv'
    OBVIOUS
  <2>1. ASSUME UNCHANGED job PROVE DeleteInv'
    BY <2>1 DEF DeleteInv
  <2>2. ASSUME NEW c \in Conns, HandleHttpRequest(c) \/ HandleHttpResponse(c) PROVE DeleteInv'
    BY <2>2 DEF HandleHttpRequest, HandleHttpResponse, DeleteInv
  <2>3. ASSUME Forward \/ DelWebServerConnection PROVE DeleteInv'
    BY <2>3 DEF Forward, DelWebServerConnection, DeleteInv, NoJob
  <2>4. ASSUME NEW d \in Conns, MakeConnection(d) PROVE DeleteInv'
    <3>1. job'.stage = "forward" \/ job' = job
      BY <2>4 DEF MakeConnection
    <3> QED
      BY <3>1 DEF DeleteInv
  <2>5. ASSUME NEW c \in Conns,
               RegisterConnection(c) \/ DelConnection(c) \/ HandleHeartbeat(c) \/ WritePending(c)
        PROVE  UNCHANGED job
    BY <2>5 DEF RegisterConnection, DelConnection, HandleHeartbeat, WritePending, proxy
  <2>6. ASSUME NEW t, AddConnection(t) PROVE UNCHANGED job
    BY <2>6 DEF AddConnection, proxy
  <2>7. ASSUME LoadBalance \/ Peer \/ PeerSelects \/ UNCHANGED vars PROVE UNCHANGED job
    BY <2>7 DEF LoadBalance, Peer, PeerSelects, vars, proxy
  <2> QED
    BY <2>1, <2>2, <2>3, <2>4, <2>5, <2>6, <2>7 DEF Next, Handler
<1> QED
  BY <1>1, <1>2, PTL DEF Spec

\* A step of the proxy leaves the pool alone or is one of its operations.
LEMMA PoolStep == DeleteInv /\ [Next]_vars => [PoolProofs!Next]_(PoolProofs!vars)
<1> SUFFICES ASSUME DeleteInv, [Next]_vars PROVE [PoolProofs!Next]_(PoolProofs!vars)
  OBVIOUS
<1> USE DEF PoolProofs!Next, PoolProofs!Threads
<1>1. ASSUME UNCHANGED poolState PROVE UNCHANGED PoolProofs!vars
  BY <1>1 DEF poolState, PoolProofs!vars, PoolProofs!poolVars, PoolProofs!connVars
<1>2. ASSUME NEW c \in Conns, RegisterConnection(c) PROVE PoolProofs!Next
  BY <1>2, SameOperations DEF RegisterConnection
<1>3. ASSUME NEW t \in {"main", "net"}, AddConnection(t) PROVE PoolProofs!Next
  BY <1>3, SameOperations DEF AddConnection
<1>4. ASSUME NEW c \in Conns, DelConnection(c) \/ HandleHeartbeat(c) PROVE PoolProofs!Next
  BY <1>4, SameOperations DEF DelConnection, HandleHeartbeat
<1>5. ASSUME NEW d \in Conns, MakeConnection(d) PROVE PoolProofs!Next
  BY <1>5, SameOperations DEF MakeConnection
<1>6. ASSUME DelWebServerConnection PROVE PoolProofs!Next
  BY <1>6, SameOperations DEF DelWebServerConnection, DeleteInv
<1>7. ASSUME NEW c \in Conns, HandleHttpRequest(c) \/ HandleHttpResponse(c) \/ WritePending(c)
      PROVE  UNCHANGED poolState
  BY <1>7 DEF HandleHttpRequest, HandleHttpResponse, WritePending
<1>8. ASSUME LoadBalance \/ Forward \/ Peer \/ PeerSelects \/ UNCHANGED vars
      PROVE  UNCHANGED poolState
  BY <1>8 DEF LoadBalance, Forward, Peer, PeerSelects, vars
<1> HIDE DEF PoolProofs!Next
<1> QED
  BY <1>1, <1>2, <1>3, <1>4, <1>5, <1>6, <1>7, <1>8 DEF Next, Handler

\* What is proved of the pool holds in the proxy.
PoolInv == PoolProofs!TypeInv /\ PoolProofs!Partition

\* The proxy implements the pool, so the pool's invariants hold in it.
LEMMA PoolInvAlways == Spec => []PoolInv
<1>1. Init => PoolProofs!Init
  BY SameInit DEF Init
<1>2. Init => PoolInv
  BY <1>1, PoolProofs!TypeInit, PoolProofs!PartitionInit, ReverseProxyAssumption
  DEF PoolInv, PoolProofs!Threads
<1>3. PoolInv /\ DeleteInv /\ [Next]_vars => PoolInv'
  BY PoolStep, PoolProofs!TypeNext, PoolProofs!PartitionNext, ReverseProxyAssumption
  DEF PoolInv, PoolProofs!Threads
<1> QED
  BY <1>2, <1>3, DeleteInvAlways, PTL DEF Spec

\* With the NetThread making connections while the main thread registers some,
\* every uid of the proxy's pool is free exactly once or one live connection's.
THEOREM ProxyUidsPartitioned == Spec => []UidsPartitioned
<1>1. PoolInv => UidsPartitioned
  BY DEF PoolInv, UidsPartitioned, Pool!UidsPartitioned, Pool!Live, PoolProofs!Partition,
         PoolProofs!Once, PoolProofs!Listed, PoolProofs!Used, PoolProofs!Live
<1> QED
  BY <1>1, PoolInvAlways, PTL

-----------------------------------------------------------------------------
\* A connection that has been live keeps its uid and is never live again.
Settled(c) == life[c] \in {"live", "closed"}

LifeStep ==
    /\ \A c \in Conns : Settled(c) => Settled(c)' /\ uid'[c] = uid[c]
    /\ \A c \in Conns : life[c] = "closed" => life'[c] = "closed"

\* Deleting a connection closes one that is live.
LEMMA LifeRelease ==
    ASSUME PoolInv, NEW u \in 0..(capacity - 1), pool[u] # None, PoolProofs!Release(u),
           UNCHANGED uid
    PROVE  LifeStep
<1>1. pool[u] \in Conns /\ life[pool[u]] = "live"
  BY DEF PoolInv, PoolProofs!TypeInv, PoolProofs!TypeOK, PoolProofs!PoolSound
<1>2. life' = [life EXCEPT ![pool[u]] = "closed"] /\ life \in [Conns -> {"new", "made", "live", "closed"}]
  BY DEF PoolInv, PoolProofs!TypeInv, PoolProofs!TypeOK, PoolProofs!Release
<1> QED
  BY <1>1, <1>2 DEF LifeStep, Settled

\* Every operation of the pool makes a LifeStep.
LEMMA LifeStepLemma ==
    ASSUME PoolInv, PoolInv', [PoolProofs!Next]_(PoolProofs!vars) PROVE LifeStep
<1> USE DEF PoolProofs!poolVars, PoolProofs!connVars
<1>0. /\ life \in [Conns -> {"new", "made", "live", "closed"}] /\ uid \in [Conns -> Nat]
  BY DEF PoolInv, PoolProofs!TypeInv, PoolProofs!TypeOK
<1>1. ASSUME UNCHANGED <<life, uid>> PROVE LifeStep
  BY <1>1 DEF LifeStep, Settled
<1>2. ASSUME NEW c \in Conns, PoolProofs!RegisterConnection(c) PROVE LifeStep
  BY <1>0, <1>2 DEF PoolProofs!RegisterConnection, LifeStep, Settled
<1>3. ASSUME NEW t \in PoolProofs!Threads, NEW c \in Conns, PoolProofs!MakeConnection(t, c)
      PROVE  LifeStep
  BY <1>0, <1>3 DEF PoolProofs!MakeConnection, LifeStep, Settled
<1>4. ASSUME NEW t \in PoolProofs!Threads, PoolProofs!CheckCapacity(t) PROVE LifeStep
  BY <1>1, <1>4 DEF PoolProofs!CheckCapacity
<1>5. ASSUME NEW t \in PoolProofs!Threads, PoolProofs!AddConnection(t) PROVE LifeStep
  <2>1. CASE free = <<>>
    BY <1>1, <1>5, <2>1 DEF PoolProofs!AddConnection
  <2>2. CASE free # <<>>
    <3>1. arg[t] \in Conns /\ life[arg[t]] = "made"
      BY <1>5 DEF PoolProofs!AddConnection, PoolInv, PoolProofs!TypeInv, PoolProofs!ThreadInv,
                  PoolProofs!Adding
    <3>2. /\ life' = [life EXCEPT ![arg[t]] = "live"] /\ capacity' = capacity
          /\ uid' = [uid EXCEPT ![arg[t]] = Head(free)]
      BY <1>5, <2>2 DEF PoolProofs!AddConnection
    <3> QED
      BY <1>0, <3>1, <3>2 DEF LifeStep, Settled
  <2> QED
    BY <2>1, <2>2
<1>6. ASSUME NEW c \in Conns, PoolProofs!DelConnection(c) PROVE LifeStep
  <2>1. CASE pool[uid[c]] = None
    BY <1>1, <1>6, <2>1 DEF PoolProofs!DelConnection
  <2>2. CASE pool[uid[c]] # None
    BY <1>6, <2>2, LifeRelease
    DEF PoolProofs!DelConnection, PoolInv, PoolProofs!TypeInv, PoolProofs!TypeOK
  <2> QED
    BY <2>1, <2>2
<1>7. CASE PoolProofs!ClearTimeoutVisit
  <2>1. CASE pool[sweep] \in overdue
    <3>1. sweep \in 0..(capacity - 1) /\ pool[sweep] # None
      BY <1>7, <2>1, ReverseProxyAssumption
      DEF PoolProofs!ClearTimeoutVisit, PoolProofs!LastVisited, PoolInv, PoolProofs!TypeInv,
          PoolProofs!TypeOK
    <3> QED
      BY <1>7, <2>1, <3>1, LifeRelease DEF PoolProofs!ClearTimeoutVisit
  <2>2. CASE pool[sweep] \notin overdue
    BY <1>1, <1>7, <2>2 DEF PoolProofs!ClearTimeoutVisit
  <2> QED
    BY <2>1, <2>2
<1>8. CASE PoolProofs!ClearTimeout \/ PoolProofs!ClearTimeoutDone
  BY <1>1, <1>8 DEF PoolProofs!ClearTimeout, PoolProofs!ClearTimeoutDone
<1>9. ASSUME NEW c \in Conns, PoolProofs!Expire(c) PROVE LifeStep
  BY <1>1, <1>9 DEF PoolProofs!Expire
<1>10. CASE UNCHANGED PoolProofs!vars
  BY <1>1, <1>10 DEF PoolProofs!vars
<1> QED
  BY <1>2, <1>3, <1>4, <1>5, <1>6, <1>7, <1>8, <1>9, <1>10
  DEF PoolProofs!Next, PoolProofs!Stopped

-----------------------------------------------------------------------------
\* From LoadBalance to Forward the client is live; from MakeConnection on the
\* NetThread is adding the connection to the web server, or has added it.
JobInv ==
    /\ job \in [stage : {"none", "select", "forward", "delete"},
                conn : Conns \cup {None}, to : Conns \cup {None}]
    /\ job.stage \in {"select", "forward"} => job.conn \in Accepted /\ IsLive(job.conn)
    /\ job.stage = "forward" =>
          /\ job.to \in Conns \ Accepted
          /\ crash = "none" => IF pc["net"] = "idle" THEN IsLive(job.to) ELSE arg["net"] = job.to

\* What HandleHttpRequest knows of its connections stays true until it returns.
LEMMA JobNext == ASSUME PoolInv, JobInv, [Next]_vars PROVE JobInv'
<1>0. /\ life \in [Conns -> {"new", "made", "live", "closed"}]
      /\ pc \in [{"main", "net"} -> {"idle", "check", "add", "sweep"}]
      /\ arg \in [{"main", "net"} -> Conns \cup {None}]
      /\ Accepted \subseteq Conns
  BY ReverseProxyAssumption
  DEF PoolInv, PoolProofs!TypeInv, PoolProofs!TypeOK, PoolProofs!Threads
<1>1. ASSUME UNCHANGED <<job, crash, life, pc, arg>> PROVE JobInv'
  BY <1>1 DEF JobInv, IsLive
<1>2. ASSUME NEW c \in Conns, RegisterConnection(c) PROVE JobInv'
  <2>1. /\ UNCHANGED <<job, crash>> /\ pc'["net"] = pc["net"] /\ arg'["net"] = arg["net"]
        /\ \A d \in Conns : IsLive(d) => IsLive(d)'
    BY <1>0, <1>2 DEF RegisterConnection, Pool!RegisterConnection, proxy, IsLive
  <2> QED
    BY <1>0, <2>1 DEF JobInv
<1>3. ASSUME AddConnection("main") PROVE JobInv'
  <2>1. /\ UNCHANGED <<job, crash>> /\ pc'["net"] = pc["net"] /\ arg'["net"] = arg["net"]
    BY <1>0, <1>3 DEF AddConnection, Pool!CheckCapacity, Pool!AddConnection, Pool!connVars, proxy
  <2>2. \A d \in Conns : IsLive(d) => IsLive(d)'
    BY <1>0, <1>3 DEF AddConnection, Pool!CheckCapacity, Pool!AddConnection, Pool!connVars, IsLive
  <2> QED
    BY <1>0, <2>1, <2>2 DEF JobInv
<1>4. ASSUME AddConnection("net") PROVE JobInv'
  <2>1. UNCHANGED <<job, crash>>
    BY <1>4 DEF AddConnection, proxy
  <2>2. \A d \in Conns : IsLive(d) => IsLive(d)'
    BY <1>0, <1>4 DEF AddConnection, Pool!CheckCapacity, Pool!AddConnection, Pool!connVars, IsLive
  <2>3. pc["net"] # "idle"
    BY <1>4 DEF AddConnection, Pool!CheckCapacity, Pool!AddConnection
  <2>4. \/ pc'["net"] # "idle" /\ arg'["net"] = arg["net"]
        \/ pc'["net"] = "idle" /\ life' = [life EXCEPT ![arg["net"]] = "live"]
    BY <1>0, <1>4 DEF AddConnection, Pool!CheckCapacity, Pool!AddConnection, Pool!connVars
  <2> QED
    BY <1>0, <2>1, <2>2, <2>3, <2>4 DEF JobInv, IsLive
<1>5. ASSUME NEW d \in Conns, MakeConnection(d) PROVE JobInv'
  <2>1. job.stage = "select" /\ d \in Conns \ Accepted
    BY <1>5 DEF MakeConnection
  <2>2. \A c \in Conns : IsLive(c) => IsLive(c)'
    BY <1>0, <1>5 DEF MakeConnection, Pool!MakeConnection, IsLive
  <2>3. /\ job'.stage = "forward" /\ job'.conn = job.conn /\ job'.to = d
        /\ job' \in [stage : {"none", "select", "forward", "delete"},
                     conn : Conns \cup {None}, to : Conns \cup {None}]
    BY <1>5 DEF MakeConnection, JobInv
  <2>4. crash' = "none" => pc'["net"] # "idle" /\ arg'["net"] = d
    BY <1>0, <1>5 DEF MakeConnection, Pool!MakeConnection
  <2> QED
    BY <1>0, <2>1, <2>2, <2>3, <2>4 DEF JobInv
<1>6. ASSUME job'.stage \in {"none", "delete"},
             job' \in [stage : {"none", "select", "forward", "delete"},
                       conn : Conns \cup {None}, to : Conns \cup {None}]
      PROVE  JobInv'
  BY <1>6 DEF JobInv
<1>7. ASSUME NEW c \in Conns, DelConnection(c) \/ HandleHeartbeat(c) \/ WritePending(c)
      PROVE  JobInv'
  <2>1. job = NoJob /\ job' = NoJob
    BY <1>7 DEF DelConnection, HandleHeartbeat, WritePending, Idle, proxy
  <2> QED
    BY <1>6, <2>1 DEF NoJob
<1>8. ASSUME NEW c \in Conns, HandleHttpRequest(c) PROVE JobInv'
  <2>1. CASE UNCHANGED job
    BY <1>6, <1>8, <2>1 DEF HandleHttpRequest, Idle, NoJob
  <2>2. CASE job' = [stage |-> "select", conn |-> c, to |-> None]
    BY <1>8, <2>2 DEF HandleHttpRequest, poolState, JobInv, IsLive
  <2> QED
    BY <1>8, <2>1, <2>2 DEF HandleHttpRequest
<1>9. ASSUME NEW d \in Conns, HandleHttpResponse(d) PROVE JobInv'
  <2>1. job = NoJob
    BY <1>9 DEF HandleHttpResponse, Idle
  <2>2. job' = job \/ job' = [stage |-> "delete", conn |-> d, to |-> None]
    BY <1>9 DEF HandleHttpResponse
  <2> QED
    BY <1>6, <2>1, <2>2 DEF NoJob
<1>10. ASSUME Forward \/ DelWebServerConnection PROVE JobInv'
  <2>1. job' = NoJob
    BY <1>10 DEF Forward, DelWebServerConnection
  <2> QED
    BY <1>6, <2>1 DEF NoJob
<1>11. ASSUME LoadBalance \/ Peer \/ PeerSelects \/ UNCHANGED vars PROVE JobInv'
  BY <1>1, <1>11 DEF LoadBalance, Peer, PeerSelects, vars, proxy, poolState
<1> QED
  BY <1>2, <1>3, <1>4, <1>5, <1>7, <1>8, <1>9, <1>10, <1>11 DEF Next, Handler

-----------------------------------------------------------------------------
\* A request is carried by a connection of the proxy's own, for an accepted
\* one; both have been in the pool.
CarriesInv ==
    /\ carries \in [Conns -> Conns \cup {None}]
    /\ \A d \in Conns : carries[d] # None =>
          d \notin Accepted /\ carries[d] \in Accepted /\ Settled(d) /\ Settled(carries[d])

GotInv == got \in [Conns -> SUBSET Conns] /\ ResponseToItsClient

MapInv == CarriesInv /\ ForwardedIsMapped /\ GotInv

\* The uid of a live connection is no other's.
LEMMA LiveUidUnique ==
    ASSUME PoolInv, NEW c \in Conns, NEW d \in Conns, IsLive(c), IsLive(d), uid[c] = uid[d]
    PROVE  c = d
BY DEF PoolInv, PoolProofs!Partition, PoolProofs!Live, IsLive

\* Steps that leave conn_map_ alone keep what it says: a connection that goes
\* stays gone, and none gets another uid.
LEMMA MapKept ==
    ASSUME CarriesInv, ForwardedIsMapped, LifeStep, UNCHANGED <<connMap, carries>>
    PROVE  CarriesInv' /\ ForwardedIsMapped'
<1>0. Accepted \subseteq Conns /\ None \notin Conns
  BY ReverseProxyAssumption
<1>1. CarriesInv'
  BY <1>0 DEF CarriesInv, LifeStep
<1>2. ASSUME NEW d \in Conns, IsLive(d)', carries[d] # None
      PROVE  IF uid'[d] \in DOMAIN connMap THEN connMap[uid'[d]] = Entry(carries[d])'
             ELSE \E c \in Accepted : life'[c] = "closed" /\ uid'[c] = uid'[d]
  <2>1. Settled(d) /\ carries[d] \in Conns /\ Settled(carries[d])
    BY <1>0, <1>2 DEF CarriesInv
  <2>2. IsLive(d)
    BY <1>2, <2>1 DEF LifeStep, IsLive, Settled
  <2>3. uid'[d] = uid[d] /\ uid'[carries[d]] = uid[carries[d]]
    BY <2>1 DEF LifeStep
  <2>4. CASE uid[d] \in DOMAIN connMap
    <3>1. connMap[uid[d]] = Entry(carries[d])
      BY <1>2, <2>2, <2>4 DEF ForwardedIsMapped
    <3> QED
      BY <2>3, <2>4, <3>1 DEF Entry
  <2>5. CASE uid[d] \notin DOMAIN connMap
    <3>1. PICK c \in Accepted : life[c] = "closed" /\ uid[c] = uid[d]
      BY <1>2, <2>2, <2>5 DEF ForwardedIsMapped
    <3>2. life'[c] = "closed" /\ uid'[c] = uid[c]
      BY <1>0, <3>1 DEF LifeStep, Settled
    <3> QED
      BY <2>3, <2>5, <3>1, <3>2
  <2> QED
    BY <2>4, <2>5
<1>3. ForwardedIsMapped'
  BY <1>2 DEF ForwardedIsMapped
<1> QED
  BY <1>1, <1>3

\* Forward puts the entry in its place; no other live connection has it.
LEMMA MapForward == ASSUME PoolInv, JobInv, MapInv, Forward PROVE MapInv'
<1> DEFINE d0 == job.to
           c0 == job.conn
<1>0. /\ d0 \in Conns \ Accepted /\ IsLive(d0) /\ c0 \in Accepted /\ c0 \in Conns /\ IsLive(c0)
      /\ c0 # None
  BY ReverseProxyAssumption DEF JobInv, Forward
<1>1. /\ UNCHANGED <<life, uid, got>> /\ connMap' = Mapped(d0, c0)
      /\ carries' = [carries EXCEPT ![d0] = c0]
  BY DEF Forward, poolState
<1> HIDE DEF d0, c0
<1>2. CarriesInv'
  BY <1>0, <1>1 DEF MapInv, CarriesInv, Settled, IsLive
<1>3. ASSUME NEW d \in Conns, IsLive(d), carries'[d] # None
      PROVE  IF uid[d] \in DOMAIN connMap' THEN connMap'[uid[d]] = Entry(carries'[d])
             ELSE \E c \in Accepted : life[c] = "closed" /\ uid[c] = uid[d]
  <2>1. CASE d = d0
    BY <1>0, <1>1, <2>1 DEF Mapped, MapInv, CarriesInv
  <2>2. CASE d # d0
    <3>1. uid[d] # uid[d0]
      BY <1>0, <1>3, <2>2, LiveUidUnique
    <3>2. carries'[d] = carries[d]
      BY <1>0, <1>1, <2>2 DEF MapInv, CarriesInv
    <3>3. /\ uid[d] \in DOMAIN connMap' <=> uid[d] \in DOMAIN connMap
          /\ uid[d] \in DOMAIN connMap => connMap'[uid[d]] = connMap[uid[d]]
      BY <1>1, <3>1 DEF Mapped
    <3> QED
      BY <1>3, <3>2, <3>3 DEF MapInv, ForwardedIsMapped
  <2> QED
    BY <2>1, <2>2
<1>4. ForwardedIsMapped'
  BY <1>1, <1>3 DEF ForwardedIsMapped, IsLive, Entry
<1>5. GotInv'
  BY <1>1 DEF MapInv, GotInv, ResponseToItsClient
<1> QED
  BY <1>2, <1>4, <1>5 DEF MapInv

\* HandleHttpResponse sends to the client the response is for.  The entry it
\* erases is that of a live connection only if the client has left.
LEMMA MapResponse ==
    ASSUME PoolInv, MapInv, NEW d0 \in Conns, HandleHttpResponse(d0) PROVE MapInv'
<1>0. /\ IsLive(d0) /\ carries[d0] # None /\ UNCHANGED <<life, uid, carries>>
      /\ carries[d0] \in Accepted /\ carries[d0] \in Conns
  BY ReverseProxyAssumption DEF HandleHttpResponse, poolState, MapInv, CarriesInv
<1>1. CarriesInv'
  BY <1>0 DEF MapInv, CarriesInv, Settled
<1>2. CASE uid[d0] \notin DOMAIN connMap
  <2>1. UNCHANGED <<connMap, got>>
    BY <1>2 DEF HandleHttpResponse
  <2> QED
    BY <1>0, <1>1, <2>1
    DEF MapInv, ForwardedIsMapped, GotInv, ResponseToItsClient, IsLive, Entry
<1>3. CASE uid[d0] \in DOMAIN connMap
  <2> DEFINE e == connMap[uid[d0]]
             c0 == carries[d0]
  <2>1. e = Entry(c0)
    BY <1>0, <1>3 DEF MapInv, ForwardedIsMapped
  <2>2. connMap' = Erased(e)
    BY <1>3 DEF HandleHttpResponse
  <2>3. \/ got' = got
        \/ IsLive(e.ctx) /\ got' = [got EXCEPT ![Socket(e)] = @ \cup {c0}]
    BY <1>3 DEF HandleHttpResponse, IsTcpConnValid
  <2>4. e.ctx = c0 /\ e.uid = uid[c0]
    BY <2>1 DEF Entry
  <2> HIDE DEF e, c0
  <2>5. c0 \in Accepted /\ c0 \in Conns /\ Settled(c0)
    BY <1>0 DEF c0, MapInv, CarriesInv
  <2>6. GotInv'
    BY <2>3, <2>4, <2>5 DEF Socket, MapInv, GotInv, ResponseToItsClient
  <2>7. ASSUME NEW d \in Conns, IsLive(d), carries[d] # None
        PROVE  IF uid[d] \in DOMAIN connMap' THEN connMap'[uid[d]] = Entry(carries[d])
               ELSE \E c \in Accepted : life[c] = "closed" /\ uid[c] = uid[d]
    <3>1. CASE uid[d] = uid[c0]
      <4>1. d # c0
        BY <2>5, <2>7 DEF MapInv, CarriesInv
      <4>2. life[c0] = "closed"
        BY <2>5, <2>7, <3>1, <4>1, LiveUidUnique DEF Settled, IsLive
      <4>3. uid[d] \notin DOMAIN connMap'
        BY <2>2, <2>4, <3>1 DEF Erased
      <4> QED
        BY <2>5, <3>1, <4>2, <4>3
    <3>2. CASE uid[d] # uid[c0]
      <4>1. /\ uid[d] \in DOMAIN connMap' <=> uid[d] \in DOMAIN connMap
            /\ uid[d] \in DOMAIN connMap => connMap'[uid[d]] = connMap[uid[d]]
        BY <2>2, <2>4, <3>2 DEF Erased
      <4> QED
        BY <2>7, <4>1 DEF MapInv, ForwardedIsMapped
    <3> QED
      BY <3>1, <3>2
  <2>8. ForwardedIsMapped'
    BY <1>0, <2>7 DEF ForwardedIsMapped, IsLive, Entry
  <2> QED
    BY <1>1, <2>6, <2>8 DEF MapInv
<1> QED
  BY <1>2, <1>3

\* Every step of the proxy keeps conn_map_ and the responses right.
LEMMA MapNext ==
    ASSUME PoolInv, PoolInv', DeleteInv, JobInv, MapInv, [Next]_vars PROVE MapInv'
<1>0. LifeStep
  BY PoolStep, LifeStepLemma
<1>1. ASSUME UNCHANGED <<connMap, carries, got>> PROVE MapInv'
  BY <1>0, <1>1, MapKept DEF MapInv, GotInv, ResponseToItsClient
<1>2. CASE Forward
  BY <1>2, MapForward
<1>3. ASSUME NEW d \in Conns, HandleHttpResponse(d) PROVE MapInv'
  BY <1>3, MapResponse
<1>4. ASSUME NEW c \in Conns,
             \/ RegisterConnection(c) \/ DelConnection(c) \/ HandleHeartbeat(c)
             \/ HandleHttpRequest(c) \/ WritePending(c) \/ MakeConnection(c)
      PROVE  UNCHANGED <<connMap, carries, got>>
  BY <1>4 DEF RegisterConnection, DelConnection, HandleHeartbeat, HandleHttpRequest,
              WritePending, MakeConnection, proxy
<1>5. ASSUME \/ AddConnection("main") \/ AddConnection("net") \/ LoadBalance \/ Peer
             \/ PeerSelects \/ DelWebServerConnection \/ UNCHANGED vars
      PROVE  UNCHANGED <<connMap, carries, got>>
  BY <1>5 DEF AddConnection, LoadBalance, Peer, PeerSelects, DelWebServerConnection, vars, proxy
<1> QED
  BY <1>1, <1>2, <1>3, <1>4, <1>5 DEF Next, Handler

\* The invariants of the proxy hold together.
LEMMA ProxyInvAlways == Spec => [](JobInv /\ MapInv)
<1>1. Init => JobInv /\ MapInv
  <2> SUFFICES ASSUME Init PROVE JobInv /\ MapInv
    OBVIOUS
  <2>1. JobInv
    BY DEF Init, JobInv, NoJob
  <2>2. CarriesInv
    BY DEF Init, CarriesInv
  <2>3. ForwardedIsMapped
    BY DEF Init, ForwardedIsMapped
  <2>4. GotInv
    BY DEF Init, GotInv, ResponseToItsClient
  <2> QED
    BY <2>1, <2>2, <2>3, <2>4 DEF MapInv
<1>2. PoolInv /\ PoolInv' /\ DeleteInv /\ JobInv /\ MapInv /\ [Next]_vars => JobInv' /\ MapInv'
  BY JobNext, MapNext
<1> QED
  BY <1>1, <1>2, PoolInvAlways, DeleteInvAlways, PTL DEF Spec

\* For any number of clients and web servers and any reuse of uids, conn_map_
\* has the entry of every live connection that carries a request, unless the
\* uid was that of a client that has left.
THEOREM ForwardedAlwaysMapped == Spec => []ForwardedIsMapped
BY ProxyInvAlways, PTL DEF MapInv

\* For any number of clients and web servers and any reuse of uids,
\* HandleHttpResponse sends nobody a response to another's request.
THEOREM ResponseAlwaysToItsClient == Spec => []ResponseToItsClient
BY ProxyInvAlways, PTL DEF MapInv, GotInv
=============================================================================
