---------------------------- MODULE ReverseProxy ----------------------------
(***************************************************************************)
(* One NetThread of ReverseProxyServer: requests of clients are forwarded  *)
(* over connections of its own to web servers, responses find their way    *)
(* back through conn_map_, which is keyed by uid.  It is composed with the *)
(* connection pool (ConnectionManager), whose uids are reused at once, and *)
(* with the LoadBalancer it shares with the other NetThreads ("peer").     *)
(*                                                                         *)
(* A connection carries one request and one response; a send takes all     *)
(* bytes or leaves a rest that is pending.                                 *)
(***************************************************************************)
EXTENDS LoadBalancer

CONSTANTS
    Conns, None, kEnlargeUnit, MaxConnections,
    Accepted    \* the connections of type kAcceptFrom; the others are kConnectTo

ASSUME ReverseProxyAssumption ==
    /\ "net" \in Users
    /\ None \notin Conns /\ Accepted \subseteq Conns
    /\ kEnlargeUnit \in Nat \ {0} /\ MaxConnections \in Nat

VARIABLES capacity, size, pool, free, uid, life, overdue, pc, arg, sweep, fault

Pool == INSTANCE ConnectionManager WITH Makers <- {"net"}

VARIABLES
    job,        \* the handler the NetThread is in: stage, connection, to
    connMap,    \* conn_map_: web server uid -> client uid and return_packet
    carries,    \* the client whose request went out on a connection
    alias,      \* the client whose byte array a pending request aliases
    pending,    \* connections with a rest of a response to be sent
    got,        \* the clients whose responses a connection was sent
    crash       \* a null pointer was used or an assertion failed: "none" or which

poolState == <<capacity, size, pool, free, uid, life, overdue, pc, arg, sweep, fault>>
proxy == <<job, connMap, carries, alias, pending, got, crash>>
vars == <<balance, poolState, proxy>>

NoJob == [stage |-> "none", conn |-> None, to |-> None]

\* The NetThread is at the top of its loop.
Idle == job = NoJob /\ pc["net"] = "idle" /\ crash = "none" /\ fault = "none"

IsLive(c) == life[c] = "live"

-----------------------------------------------------------------------------
\* The main thread registers an accepted connection.
RegisterConnection(c) ==
    /\ crash = "none" /\ c \in Accepted /\ Pool!RegisterConnection(c)
    /\ UNCHANGED <<balance, proxy>>

\* AddConnection of either thread, in its two critical sections.
AddConnection(t) ==
    /\ crash = "none" /\ (Pool!CheckCapacity(t) \/ Pool!AddConnection(t))
    /\ UNCHANGED <<balance, proxy>>

-----------------------------------------------------------------------------
\* A connection is deleted for its FIN, an error or, with nothing pending,
\* its timeout.
DelConnection(c) ==
    /\ Idle /\ Pool!DelConnection(c)
    /\ alias' = [alias EXCEPT ![c] = None]
    /\ pending' = pending \ {c}
    /\ UNCHANGED <<balance, job, connMap, carries, got, crash>>

\* A client sends one request.
HasAsked(c) == \E d \in Conns : carries[d] = c

\* HandleHttpRequest of a request that CheckHeartbeat takes for a heartbeat,
\* from the address of a web server.
HandleHeartbeat(c) ==
    /\ Idle /\ c \in Accepted /\ ~HasAsked(c) /\ Pool!DelConnection(c)
    /\ \E s \in Servers : OnRecvHeartbeat("net", s)
    /\ UNCHANGED proxy

\* HandleHttpRequest of any other request: LoadBalance ...  For a GET from the
\* address of a web server CheckHeartbeat uses a body that is not there.
HandleHttpRequest(c) ==
    /\ Idle /\ c \in Accepted /\ ~HasAsked(c) /\ IsLive(c)
    /\ \/ job' = [stage |-> "select", conn |-> c, to |-> None] /\ UNCHANGED crash
       \/ crash' = "null" /\ UNCHANGED job
    /\ UNCHANGED <<balance, poolState, connMap, carries, alias, pending, got>>

LoadBalance ==
    /\ job.stage = "select" /\ (Select("net") \/ BalanceByPoll("net"))
    /\ UNCHANGED <<poolState, proxy>>

\* ... MakeConnection to the server selected; when that fails the log line
\* uses the null pointer, before ReportWebServerDown, ...
MakeConnection(d) ==
    /\ job.stage = "select" /\ crash = "none" /\ d \notin Accepted
    /\ Connected("net") /\ Pool!MakeConnection("net", d)
    /\ crash' = IF life'[d] = "closed" THEN "null" ELSE "none"
    /\ job' = [job EXCEPT !.stage = "forward", !.to = d]
    /\ UNCHANGED <<connMap, carries, alias, pending, got>>

Entry(c) == [uid |-> uid[c], ctx |-> c]

\* conn_map_[web server uid] = {client uid, return_packet}
Mapped(d, c) ==
    [u \in DOMAIN connMap \cup {uid[d]} |-> IF u = uid[d] THEN Entry(c) ELSE connMap[u]]

\* ... and the request goes out, its bytes still those of the client's byte
\* array as long as a rest is pending.
Forward ==
    /\ job.stage = "forward" /\ pc["net"] = "idle" /\ crash = "none"
    /\ connMap' = Mapped(job.to, job.conn)
    /\ carries' = [carries EXCEPT ![job.to] = job.conn]
    /\ \E rest \in BOOLEAN : alias' = [alias EXCEPT ![job.to] = IF rest THEN job.conn ELSE None]
    /\ job' = NoJob
    /\ UNCHANGED <<balance, poolState, pending, got, crash>>

IsTcpConnValid_Slot(e) == TRUE
IsTcpConnValid(e) == IsLive(e.ctx)

\* What TrySendAndMarkPendingIfUndone writes to: the socket of the context.
Socket(e) == IF IsLive(e.ctx) THEN e.ctx ELSE pool[e.uid]

\* conn_map_.erase(client_uid): the key is that of another connection.
Erased_All(e) == <<>>
Erased(e) == [u \in DOMAIN connMap \ {e.uid} |-> connMap[u]]

\* HandleHttpResponse up to its last line: the response goes to the client of
\* the request if that is still there; a rest is copied.  Without an entry the
\* client's uid is the default 0, which GetConnection asserts it is not.
HandleHttpResponse(d) ==
    /\ Idle /\ IsLive(d) /\ carries[d] # None /\ alias[d] = None
    /\ IF uid[d] \notin DOMAIN connMap
       THEN crash' = "assert" /\ UNCHANGED <<job, connMap, got, pending>>
       ELSE LET e == connMap[uid[d]]
            IN  /\ connMap' = Erased(e)
                /\ IF pool[e.uid] # None /\ IsTcpConnValid(e)
                   THEN /\ got' = [got EXCEPT ![Socket(e)] = @ \cup {carries[d]}]
                        /\ pending' \in {pending, pending \cup {Socket(e)}}
                   ELSE UNCHANGED <<got, pending>>
                /\ job' = [stage |-> "delete", conn |-> d, to |-> None]
                /\ UNCHANGED crash
    /\ UNCHANGED <<balance, poolState, carries, alias>>

\* The last line of HandleHttpResponse.
DelWebServerConnection ==
    /\ job.stage = "delete" /\ Pool!DelConnection(job.conn)
    /\ job' = NoJob
    /\ UNCHANGED <<balance, connMap, carries, alias, pending, got, crash>>

\* __OnWriteEvent: the rest goes out.
WritePending(c) ==
    /\ Idle /\ IsLive(c) /\ (c \in pending \/ alias[c] # None)
    /\ pending' = pending \ {c}
    /\ alias' = [alias EXCEPT ![c] = None]
    /\ UNCHANGED <<balance, poolState, job, connMap, carries, got, crash>>

-----------------------------------------------------------------------------
Init ==
    /\ BalanceInit /\ Pool!Init
    /\ job = NoJob /\ connMap = <<>> /\ carries = [c \in Conns |-> None]
    /\ alias = [c \in Conns |-> None] /\ pending = {}
    /\ got = [c \in Conns |-> {}] /\ crash = "none"

\* Another NetThread of the proxy uses the load balancer.
Peer ==
    /\ \E t \in Users \ {"net"} : BalanceByPoll(t) \/ Connected(t)
    /\ UNCHANGED <<poolState, proxy>>

PeerSelects ==
    /\ \E t \in Users \ {"net"} : Select(t) \/ \E s \in Servers : OnRecvHeartbeat(t, s)
    /\ UNCHANGED <<poolState, proxy>>

\* The steps of a handler that has begun.
Handler ==
    \/ \E d \in Conns : MakeConnection(d)
    \/ LoadBalance \/ Forward \/ DelWebServerConnection \/ AddConnection("net")

Next ==
    \/ Handler \/ AddConnection("main") \/ Peer \/ PeerSelects
    \/ \E c \in Conns : RegisterConnection(c) \/ DelConnection(c) \/ HandleHeartbeat(c)
                          \/ HandleHttpRequest(c) \/ HandleHttpResponse(c) \/ WritePending(c)

\* The threads run, and one that waits for a mutex gets it in the end however
\* often another one takes it.
Fairness == SF_vars(Handler) /\ WF_vars(Peer)

Spec == Init /\ [][Next]_vars /\ Fairness

-----------------------------------------------------------------------------
TypeOK ==
    /\ job \in [stage : {"none", "select", "forward", "delete"},
               conn : Conns \cup {None}, to : Conns \cup {None}]
    /\ DOMAIN connMap \subseteq 1..(capacity - 1)
    /\ carries \in [Conns -> Conns \cup {None}] /\ alias \in [Conns -> Conns \cup {None}]
    /\ pending \subseteq Conns /\ got \in [Conns -> SUBSET Conns]

\* The pool stays consistent under what the handlers do with it: every place
\* is free or one connection's, and a live connection is found by its uid.
UidsPartitioned == Pool!UidsPartitioned
FoundByUid == Pool!FoundByUid

\* A response is sent to the client whose request it answers, or to nobody:
\* although conn_map_ keeps entries too long and the uid of a client that left
\* goes to the next connection, nobody is sent a stranger's response.
ResponseToItsClient == \A c \in Conns : got[c] \subseteq {c}

\* conn_map_ has the entry of every live connection that carries a request,
\* with the client and the context of that request.  It is lost in one case
\* only: a client that left had the same uid before, and the response to that
\* client is handled first.
ForwardedIsMapped ==
    \A d \in Conns :
        IsLive(d) /\ carries[d] # None =>
            IF uid[d] \in DOMAIN connMap THEN connMap[uid[d]] = Entry(carries[d])
            ELSE \E c \in Accepted : life[c] = "closed" /\ uid[c] = uid[d]

\* The handlers of the NetThread return: the mutexes of the load balancer and
\* the pool, shared with other threads, hold them up for good in two cases
\* only.  Under the rule "weight" the first thread that selects locks mutex_
\* twice, and every other one waits for it; under "poll" a thread goes round
\* for ever when no server is available, which takes servers that all have
\* weight 0 (no server is ever reported down: the path that would report it
\* uses a null pointer first).
HandlerReturns ==
    job # NoJob ~> \/ job = NoJob \/ crash # "none" \/ fault # "none"
                   \/ \E t \in Users : at[t] = "relock"
                   \/ rule = "kPoll" /\ Hopeless

\* GetConnection: "assert(_uid > kInvalidUid && _uid < pool_.capacity())", of
\* the uid HandleHttpResponse finds in conn_map_.
UidFromMapValid == crash # "assert"
=============================================================================
