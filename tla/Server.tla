------------------------------- MODULE Server -------------------------------
(***************************************************************************)
(* A server process from its configuration file to its end: Config, Serve  *)
(* with the listening socket and the notifier in one edge-triggered epoll  *)
(* instance, connections handed to NetThreads, heartbeats to the reverse   *)
(* proxy, SIGINT, and the start and stop of the NetThreads.                *)
(*                                                                         *)
(* The inside of a NetThread is the subject of module NetThread; here it   *)
(* starts, owns connections, and ends.  A signal handler runs on the main  *)
(* thread (0) or on a NetThread (1..), which does nothing else meanwhile.  *)
(* One heartbeat connection is open at a time.                             *)
(***************************************************************************)
EXTENDS ServerConfig

CONSTANTS
    Files,          \* configuration files: server ("web" or "proxy") and doc
    Fds,            \* descriptors accept may return
    MaxClients      \* bound: clients that connect

VARIABLES
    file,       \* the configuration file
    legal,      \* history: whether the file was legal, while that still matters
    conf,       \* config_
    main,       \* where the main thread is
    running,    \* running_
    callback,   \* whether callback_map_ has a NotifyStop for SIGINT
    handler,    \* the thread in SignalHandler::Handle, -1 for none
    armed,      \* the notifier: "none" (no epoll yet), "quiet" or "stop"
    queue,      \* clients in the listen queue
    clients,    \* clients so far
    edge,       \* the listening socket has become readable
    failed,     \* accept failed since
    events,     \* events of the last EpollWait still to be handled
    due,        \* EpollLoopInterval has passed since LoopingEpollWait; left alone
                \* where that does nothing
    beat,       \* the heartbeat connection: "none", "made", "sent" or "lost"
    conns,      \* descriptors of accepted connections
    net,        \* the NetThreads: at, running_, armed, whether it has workers
    crash       \* "none", or how the process ended

config == <<file, legal, conf>>
signal == <<callback, handler>>
listen == <<queue, clients, edge, failed>>
vars == <<config, signal, listen, main, running, armed, events, due, beat, conns, net, crash>>

Nets == 1..conf.net_thread_cnt

\* Thread t runs: the process lives and t is not in a signal handler.
Runs(t) == crash = "none" /\ handler # t

-----------------------------------------------------------------------------
\* Config reads the file.
Config ==
    /\ main = "config" /\ Runs(0)
    /\ conf' = ReadConfig(ParseYaml(file.doc), file.server)
    /\ legal' = Legal(file)
    /\ main' = "bind"
    /\ crash' = IF conf'.out \in {"null", "assert"} THEN conf'.out ELSE "none"
    /\ UNCHANGED <<file, signal, listen, running, armed, events, due, beat, conns, net>>

\* The file is closed; the listening socket is created and bound whatever it
\* said, ...
Bind ==
    /\ main = "bind" /\ Runs(0)
    /\ file' = [file EXCEPT !.doc = <<>>]
    /\ \/ main' = "register" /\ UNCHANGED crash
       \/ crash' = "bind" /\ UNCHANGED main
    /\ UNCHANGED <<legal, conf, signal, listen, running, armed, events, due, beat, conns, net>>

\* ... RegisterCallback locks its mutex and installs the handler, ...
RegisterCallback ==
    /\ main = "register" /\ Runs(0)
    /\ main' = "push"
    /\ UNCHANGED <<config, signal, listen, running, armed, events, due, beat, conns, net, crash>>

\* The NetThreads of SetNetThreadImpl.
NewNet == [at |-> "new", running |-> FALSE, armed |-> FALSE, workers |-> FALSE]

\* max_connections_ of a NetThread, its share in max_connections of the file.
Share == conf.max_connections \div conf.net_thread_cnt

\* SetMaxConnection asserts that each thread may have a connection,
\* RegisterWebServer that the weights are legal.
AfterConfigAsserts ==
    /\ conf.is_config_done
    /\ Share > 0
    /\ \A s \in DOMAIN conf.webservers : conf.webservers[s].weight <= 10

\* ... pushes the callback and unlocks; AfterConfig makes the NetThreads.
AfterConfig ==
    /\ main = "push" /\ Runs(0)
    /\ callback' = TRUE
    /\ net' = [k \in Nets |-> NewNet]
    /\ IF AfterConfigAsserts THEN main' = "configured" /\ UNCHANGED crash
       ELSE crash' = "assert" /\ UNCHANGED main
    /\ UNCHANGED <<config, handler, listen, running, armed, events, due, beat, conns>>

\* The NetThread of the i-th worker, from 0.
WorkerIndex_First(i) == 1
WorkerIndex(i) == (i % conf.net_thread_cnt) + 1

\* The members of config_ that matter from here on, as far as they do: a
\* connection for every descriptor, and some more.
InUse(c) ==
    [DefaultConfig EXCEPT
        !.is_config_done = TRUE, !.net_thread_cnt = c.net_thread_cnt,
        !.max_connections = Min({c.max_connections, c.net_thread_cnt * (Cardinality(Fds) + 2)}),
        !.is_send_heartbeat = c.is_send_heartbeat]

\* A web server is given its workers by the first use of NetSceneDispatcher.
SetWorker ==
    /\ main = "configured" /\ Runs(0)
    /\ net' = IF file.server = "proxy" THEN net
              ELSE [k \in Nets |-> [net[k] EXCEPT !.workers =
                      \E i \in 0..(conf.worker_thread_cnt - 1) : WorkerIndex(i) = k]]
    /\ legal' = (legal /\ file.server = "web" /\ \E k \in Nets : ~net'[k].workers)
    /\ main' = "serve" /\ conf' = InUse(conf)
    /\ UNCHANGED <<file, signal, listen, running, armed, events, due, beat, conns, crash>>

-----------------------------------------------------------------------------
\* Serve: running_ is set and the socket listens ...
Serve ==
    /\ main = "serve" /\ Runs(0)
    /\ running' = TRUE /\ main' = "attach"
    /\ UNCHANGED <<config, signal, listen, armed, events, due, beat, conns, net, crash>>

\* ... before the notifier is put into epoll; then the NetThreads start.
Attach ==
    /\ main = "attach" /\ Runs(0)
    /\ armed' = "quiet"
    /\ net' = [k \in Nets |-> [net[k] EXCEPT !.at = "start", !.running = TRUE]]
    /\ main' = "loop"
    /\ UNCHANGED <<config, signal, listen, running, events, due, beat, conns, crash>>

\* The head of the loop.
Loop ==
    /\ main = "loop" /\ Runs(0)
    /\ main' = IF running THEN "wait" ELSE "stop"
    /\ UNCHANGED <<config, signal, listen, running, armed, events, due, beat, conns, net, crash>>

\* EpollWait returns what is ready, or nothing when its time is over.  Edges
\* are reported once.
EpollWait ==
    /\ main = "wait" /\ Runs(0)
    /\ events' = {e \in {"stop", "accept"} : IF e = "stop" THEN armed = "stop" ELSE edge}
    /\ armed' = "quiet" /\ edge' = FALSE
    /\ due' \in IF conf.is_send_heartbeat THEN {due \/ events' = {}, TRUE} ELSE {due}
    /\ main' = "events"
    /\ UNCHANGED <<config, signal, queue, clients, failed, running, beat, conns, net, crash>>

\* EpollWait fails, or is interrupted nine times.
EpollFails ==
    /\ main = "wait" /\ Runs(0)
    /\ running' = FALSE /\ main' = "stop"
    /\ UNCHANGED <<config, signal, listen, armed, events, due, beat, conns, net, crash>>

\* The next event: the stop notification leaves the loop over the events, a
\* readable listening socket leads to _OnConnect.
HandleEvent ==
    /\ main = "events" /\ Runs(0)
    /\ \/ /\ "stop" \in events
          /\ running' = FALSE /\ events' = {} /\ main' = "looping"
       \/ /\ "accept" \in events
          /\ events' = events \ {"accept"} /\ main' = "accept" /\ UNCHANGED running
       \/ events = {} /\ main' = "looping" /\ UNCHANGED <<events, running>>
    /\ UNCHANGED <<config, signal, listen, armed, due, beat, conns, net, crash>>

-----------------------------------------------------------------------------
\* _RegisterConnection: the NetThread of a descriptor, and what it counts as
\* its connections (CurrConnectionCnt counts the reserved place 0 as one).
Owner(fd) == (fd % conf.net_thread_cnt) + 1
Connections(k) ==
    Cardinality({fd \in conns : Owner(fd) = k})
      + IF k = 1 /\ beat \in {"made", "sent"} THEN 1 ELSE 0
CurrConnectionCnt(k) == 1 + Connections(k)

AtLimit(k) == CurrConnectionCnt(k) >= Share

\* _OnConnect accepts a client; its NetThread drops it at the limit.
Accept ==
    /\ main = "accept" /\ Runs(0) /\ queue > 0
    /\ queue' = queue - 1
    /\ \E fd \in Fds \ conns :
          conns' = IF AtLimit(Owner(fd)) THEN conns ELSE conns \cup {fd}
    /\ UNCHANGED <<config, signal, clients, edge, failed, main, running, armed, events, due, beat,
                   net, crash>>

\* It returns when the queue is empty (EAGAIN), or with another error.
AcceptReturns_One == main' = "events" /\ UNCHANGED failed
AcceptReturns ==
    \/ queue = 0 /\ main' = "events" /\ UNCHANGED failed
    \/ queue > 0 /\ main' = "events" /\ failed' = TRUE

OnConnectReturns ==
    /\ main = "accept" /\ Runs(0) /\ AcceptReturns
    /\ UNCHANGED <<config, signal, queue, clients, edge, running, armed, events, due, beat, conns,
                   net, crash>>

-----------------------------------------------------------------------------
\* LoopingEpollWait, once per interval: SendHeartbeat makes a connection to
\* the reverse proxy in the first NetThread, if one of three attempts succeeds,
LoopingEpollWait ==
    /\ main = "looping" /\ Runs(0)
    /\ \/ due /\ conf.is_send_heartbeat /\ beat = "none" /\ beat' = "made" /\ main' = "heartbeat"
       \/ main' = "loop" /\ UNCHANGED beat
    /\ due' = (due /\ ~conf.is_send_heartbeat)
    /\ UNCHANGED <<config, signal, listen, running, armed, events, conns, net, crash>>

\* and sends on it, though the NetThread may have deleted it by then.
SendHeartbeat ==
    /\ main = "heartbeat" /\ Runs(0)
    /\ IF beat = "lost" THEN beat' = "none" /\ crash' \in {"none", "freed"}
       ELSE beat' = "sent" /\ UNCHANGED crash
    /\ main' = "loop"
    /\ UNCHANGED <<config, signal, listen, running, armed, events, due, conns, net>>

\* The NetThread deletes the heartbeat connection: the proxy closed it.
HeartbeatCloses ==
    /\ beat \in {"made", "sent"} /\ net[1].at = "run" /\ Runs(1)
    /\ beat' = IF beat = "made" THEN "lost" ELSE "none"
    /\ UNCHANGED <<config, signal, listen, main, running, armed, events, due, conns, net, crash>>

-----------------------------------------------------------------------------
\* _NotifyNetThreadsStop, one NetThread after the other: NotifyStop ...
Stopping == Min({k \in Nets : net[k].at # "deleted"})

Notified(n) == [n EXCEPT !.running = FALSE, !.armed = TRUE]

NotifyStop ==
    /\ main = "stop" /\ Runs(0)
    /\ IF \A k \in Nets : net[k].at = "deleted" THEN main' = "done" /\ UNCHANGED net
       ELSE net' = [net EXCEPT ![Stopping] = Notified(@)] /\ main' = "join"
    /\ UNCHANGED <<config, signal, listen, running, armed, events, due, beat, conns, crash>>

\* ... Join, and delete, with the connections of the thread.
Join ==
    /\ main = "join" /\ Runs(0) /\ net[Stopping].at = "ended"
    /\ net' = [net EXCEPT ![Stopping].at = "deleted"]
    /\ conns' = {fd \in conns : Owner(fd) # Stopping}
    /\ beat' = IF Stopping = 1 THEN "none" ELSE beat
    /\ main' = "stop"
    /\ UNCHANGED <<config, signal, listen, running, armed, events, due, crash>>

-----------------------------------------------------------------------------
\* Thread::Entry: OnStart, which asserts that a web server's thread has workers,
OnStart(k) ==
    /\ net[k].at = "start" /\ Runs(k)
    /\ IF file.server = "web" /\ ~net[k].workers THEN crash' = "workers" /\ UNCHANGED net
       ELSE net' = [net EXCEPT ![k].at = "entry"] /\ UNCHANGED crash
    /\ UNCHANGED <<config, signal, listen, main, running, armed, events, due, beat, conns>>

\* running_ set once more, whatever has happened since Start,
Entry(k) ==
    /\ net[k].at = "entry" /\ Runs(k)
    /\ net' = [net EXCEPT ![k].at = "run", ![k].running = TRUE]
    /\ UNCHANGED <<config, signal, listen, main, running, armed, events, due, beat, conns, crash>>

\* Run, left for the notification or for running_,
LeaveRun(k) ==
    /\ net[k].at = "run" /\ Runs(k) /\ (net[k].armed \/ ~net[k].running)
    /\ net' = [net EXCEPT ![k].at = "stopping"]
    /\ UNCHANGED <<config, signal, listen, main, running, armed, events, due, beat, conns, crash>>

\* or after the third failure of epoll_wait,
NetEpollFails(k) ==
    /\ net[k].at = "run" /\ Runs(k)
    /\ net' = [net EXCEPT ![k].at = "stopping"]
    /\ UNCHANGED <<config, signal, listen, main, running, armed, events, due, beat, conns, crash>>

\* and OnStop.
OnStop(k) ==
    /\ net[k].at = "stopping" /\ Runs(k)
    /\ net' = [net EXCEPT ![k].at = "ended", ![k].running = FALSE]
    /\ UNCHANGED <<config, signal, listen, main, running, armed, events, due, beat, conns, crash>>

\* A NetThread deletes a connection.
DelConnection(fd) ==
    /\ fd \in conns /\ net[Owner(fd)].at = "run" /\ Runs(Owner(fd))
    /\ conns' = conns \ {fd}
    /\ UNCHANGED <<config, signal, listen, main, running, armed, events, due, beat, net, crash>>

-----------------------------------------------------------------------------
Listening == main \notin {"config", "bind", "register", "push", "configured", "serve", "done"}

\* A client connects.
Connect ==
    /\ Listening /\ crash = "none" /\ clients < MaxClients
    /\ clients' = clients + 1 /\ queue' = queue + 1
    /\ edge' = TRUE /\ failed' = FALSE
    /\ UNCHANGED <<config, signal, main, running, armed, events, due, beat, conns, net, crash>>

\* SIGINT on thread t.  Until RegisterCallback has installed the handler it
\* ends the process.  The handler locks the mutex of RegisterCallback: on the
\* thread that holds it, for ever.  Once the callback is popped it does nothing.
Threads == {0} \cup {k \in DOMAIN net : net[k].at \in {"start", "entry", "run", "stopping"}}

Sigint(t) ==
    /\ crash = "none" /\ handler = -1 /\ main # "done"
    /\ \/ /\ main \in {"config", "bind", "register"}
          /\ crash' = "killed" /\ UNCHANGED <<handler, running>>
       \/ /\ main = "push" \/ callback
          /\ handler' = t
          /\ running' = IF callback THEN FALSE ELSE running
          /\ UNCHANGED crash
    /\ UNCHANGED <<config, listen, callback, main, armed, events, due, beat, conns, net>>

\* The second half of ServerBase::NotifyStop, and the callback is popped.
HandlerNotifies ==
    /\ handler # -1 /\ main # "push" /\ crash = "none"
    /\ IF callback /\ armed = "none" THEN crash' = "early" /\ UNCHANGED <<handler, armed, callback>>
       ELSE /\ armed' = IF callback THEN "stop" ELSE armed
            /\ callback' = FALSE /\ handler' = -1
            /\ UNCHANGED crash
    /\ UNCHANGED <<config, listen, main, running, events, due, beat, conns, net>>

-----------------------------------------------------------------------------
Init ==
    /\ file \in Files /\ legal = FALSE /\ conf = DefaultConfig
    /\ main = "config" /\ running = FALSE
    /\ callback = FALSE /\ handler = -1
    /\ armed = "none" /\ queue = 0 /\ clients = 0 /\ edge = FALSE /\ failed = FALSE
    /\ events = {} /\ due = TRUE /\ beat = "none" /\ conns = {} /\ net = <<>> /\ crash = "none"

MainStep ==
    \/ Bind \/ RegisterCallback \/ AfterConfig \/ SetWorker \/ Serve \/ Attach
    \/ Loop \/ EpollWait \/ HandleEvent \/ Accept \/ OnConnectReturns \/ LoopingEpollWait
    \/ SendHeartbeat \/ NotifyStop \/ Join

NetStep(k) == OnStart(k) \/ Entry(k) \/ LeaveRun(k) \/ OnStop(k)

Next ==
    \/ Config \/ MainStep \/ EpollFails \/ HandlerNotifies \/ Connect \/ HeartbeatCloses
    \/ \E k \in DOMAIN net : NetStep(k) \/ NetEpollFails(k)
    \/ \E fd \in Fds : DelConnection(fd)
    \/ \E t \in Threads : Sigint(t)

\* The threads and the handler run.
Fairness ==
    /\ WF_vars(MainStep) /\ WF_vars(HandlerNotifies)
    /\ \A k \in 1..MaxNetThreads : WF_vars(k \in DOMAIN net /\ NetStep(k))

Spec == Init /\ [][Next]_vars /\ Fairness

-----------------------------------------------------------------------------
\* ParseYaml reads a well-formed file as its indentation says: every line of it
\* becomes a node below that of the line it belongs to, in the object of an
\* array that the dashes before it have begun.
NestedByIndentation ==
    LET doc == file.doc
        st  == ParseYaml(doc)
    IN  main = "config" /\ WellFormed(doc) =>
            /\ st.ok
            /\ \A i \in DOMAIN doc : IsEntry(doc[i]) =>
                  LET n == st.nodes[NodeOf(doc, i)]
                  IN  /\ n.key = doc[i].key /\ (n.kind = "leaf" => n.data = doc[i].value)
                      /\ n.up = NodeOf(doc, UpLine(doc, i)) /\ n.elem = ElemOf(doc, i)

\* A server with a legal file is never aborted by an assertion or a null
\* pointer of Config, AfterConfig or a NetThread's OnStart.  Legal asks for more
\* than Config checks: a worker and a connection for every NetThread, and two web
\* servers.  These, and what Config does check, are all that the later places
\* rely on.
LegalConfigServes == legal => crash \notin {"assert", "null", "workers"}


\* _OnConnect: clients do not stay in the listen queue, though its edge is
\* reported once, unless accept has failed since the last of them came.
AcceptDrained == queue > 0 /\ running ~> queue = 0 \/ failed \/ ~running \/ crash # "none"

=============================================================================
