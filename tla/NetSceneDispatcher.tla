-------------------------- MODULE NetSceneDispatcher --------------------------
(***************************************************************************)
(* netscene/: the dispatcher and the scenes of the framework.  A process   *)
(* starts, registers its scenes and serves; its workers route requests to  *)
(* scenes and pack the answers; the index page counts its visits under a   *)
(* mutex, reads the count of earlier processes from the database when it   *)
(* is constructed and writes the new one in a callback of SIGINT.  The     *)
(* process may die at any step; the next one starts from the database.     *)
(*                                                                         *)
(* Characters of a URL are numbers, ordered as in ASCII.  A body is a      *)
(* sequence of numbers whose first one is the type of the scene it is of.  *)
(***************************************************************************)
EXTENDS HttpParser, Base64, TLC

Frame == INSTANCE WebSocketParser

CONSTANTS
    Workers, Nobody,
    Apps,           \* lists of scenes an application may register
    Requests,       \* what clients send
    Digest(_),      \* SHA-1 of a key and the magic key: 20 bytes
    Samples,        \* byte sequences to encode
    InitialVisits,  \* what the table visit_times may hold at first
    MaxRequests,    \* requests handled by one process
    MaxBoots        \* processes started

VARIABLES
    phase,      \* "boot", "register", "serve", "abort" or "down"
    apps,       \* the scenes the application registers
    selectors,  \* selectors_
    routeMap,   \* route_map_
    visits,     \* visit_times_start and visit_times_this_boot
    mutex,      \* the worker that holds NetSceneGetIndexPage::mutex_
    callback,   \* the SIGINT callback of the index page is registered
    wsVisit,    \* the static counter of WriteFakeWsResp
    row,        \* the number in the table visit_times
    worker,     \* what each worker is doing
    taken, boots, \* requests of this process, processes so far
    shown,      \* history: numbers the index page has shown, in order, since boot
    promised    \* history: the highest number shown before a count was saved

scenes == <<apps, selectors, routeMap>>
saved == <<row, boots, promised>>
vars == <<phase, scenes, visits, mutex, callback, wsVisit, worker, taken, shown, saved>>

Slash == 47
Star == 42
Question == 63
NoType == -1000

-----------------------------------------------------------------------------
(* Registration.                                                           *)

\* A scene: its type, whether it uses protobuf, its route (<<>> for none) and
\* whether its DoSceneImpl throws.
Scene(type, protobuf, route, throws) ==
    [type |-> type, protobuf |-> protobuf, route |-> route, throws |-> throws]

kReservedTypeOffset == 10
NetSceneGetIndexPage == Scene(0, FALSE, <<Slash>>, FALSE)
NetSceneHelloSvr == Scene(1, TRUE, <<>>, FALSE)
NetScene404NotFound == Scene(2, FALSE, <<>>, FALSE)
NetSceneGetFavIcon == Scene(3, FALSE, <<Slash, 102>>, FALSE)
NoScene == Scene(NoType, FALSE, <<>>, FALSE)

\* The asserts of RegisterNetScene, with r the selectors and routes so far.
CanRegister(r, s) ==
    Len(r.selectors) = s.type /\ (~s.protobuf /\ s.route # <<>> => s.route \notin DOMAIN r.routes)

RegisterNetScene(r, s) ==
    [selectors |-> Append(r.selectors, s),
     routes |-> IF ~s.protobuf /\ s.route # <<>> THEN (s.route :> s.type) @@ r.routes ELSE r.routes]

Pads_Short(n) == [i \in 1..(kReservedTypeOffset - n) |-> NoScene]
Pads(n) == [i \in 1..(kReservedTypeOffset + 1 - n) |-> NoScene]

\* NetSceneDispatcher's constructor.
Framework ==
    LET r == FoldLeft(RegisterNetScene, [selectors |-> <<>>, routes |-> <<>>],
                      <<NetSceneGetIndexPage, NetSceneHelloSvr, NetScene404NotFound,
                        NetSceneGetFavIcon>>)
    IN  [r EXCEPT !.selectors = @ \o Pads(Len(@))]

\* dao: whether a call gets through, or fails with the connection after three
\* attempts to connect.
CheckConnection == BOOLEAN
Query(reached) == IF reached THEN <<row>> ELSE <<>>

\* update visit_times set visit_times = neo where visit_times = old; the last
\* part is the equal_list of the old item.
EqualList(old) == row = old
Update(reached, old, neo) == IF reached /\ EqualList(old) THEN neo ELSE row

CountRead(n) == [start |-> n, now |-> n]

\* Constructing the first index page reads the count, and registers the
\* callback only if it could.
Construct ==
    /\ phase = "boot"
    /\ selectors' = Framework.selectors /\ routeMap' = Framework.routes
    /\ \E reached \in CheckConnection :
           /\ visits' = IF Query(reached) = <<>> THEN visits ELSE CountRead(Query(reached)[1])
           /\ callback' = (Query(reached) # <<>>)
    /\ phase' = "register"
    /\ UNCHANGED <<apps, mutex, wsVisit, worker, taken, shown, saved>>

\* main registers the scenes of the application one by one, then serves.
Register ==
    /\ phase = "register" /\ Len(selectors) - Len(Framework.selectors) < Len(apps)
    /\ LET s == apps[Len(selectors) - Len(Framework.selectors) + 1]
           r == [selectors |-> selectors, routes |-> routeMap]
       IN  IF CanRegister(r, s)
           THEN /\ selectors' = RegisterNetScene(r, s).selectors
                /\ routeMap' = RegisterNetScene(r, s).routes
                /\ UNCHANGED phase
           ELSE phase' = "abort" /\ UNCHANGED <<selectors, routeMap>>
    /\ UNCHANGED <<apps, visits, mutex, callback, wsVisit, worker, taken, shown, saved>>

Serve ==
    /\ phase = "register" /\ Len(selectors) - Len(Framework.selectors) = Len(apps)
    /\ phase' = "serve"
    /\ UNCHANGED <<scenes, visits, mutex, callback, wsVisit, worker, taken, shown, saved>>

-----------------------------------------------------------------------------
(* Routing.                                                                *)

__DynamicRouteMatch_Loose(dynamic, route) ==
    /\ dynamic # <<>> /\ Last(dynamic) = Star
    /\ Len(dynamic) <= Len(route) + 1
    /\ \A i \in 1..(Len(dynamic) - 1) : dynamic[i] = route[i]
__DynamicRouteMatch(dynamic, route) ==
    /\ dynamic # <<>> /\ Last(dynamic) = Star
    /\ Len(dynamic) <= Len(route)
    /\ \A i \in 1..(Len(dynamic) - 1) : dynamic[i] = route[i]

\* The order of std::string, in which a std::map is walked.
Before(a, b) ==
    \/ IsStrictPrefix(a, b)
    \/ \E k \in DOMAIN a \cap DOMAIN b :
           a[k] < b[k] /\ SubSeq(a, 1, k - 1) = SubSeq(b, 1, k - 1)

\* The type for a URL: its path is a route, or the first dynamic route it
\* matches, or not found.
__GetNetSceneTypeByRoute(url) ==
    LET route == delafter(url, Question)
        dynamic == {r \in DOMAIN routeMap : __DynamicRouteMatch(r, route)}
    IN  IF route \in DOMAIN routeMap THEN routeMap[route]
        ELSE IF dynamic = {} THEN NetScene404NotFound.type
        ELSE routeMap[CHOOSE r \in dynamic : \A q \in dynamic \ {r} : Before(r, q)]

\* The type HandleHttp dispatches a request to.  A POST whose URL is no route
\* has it in its body, a BaseNetSceneReq (the parser refuses an empty body).
TypeOf(req) ==
    LET type == __GetNetSceneTypeByRoute(req.url)
    IN  IF ~req.post \/ type # NetScene404NotFound.type \/ req.type = NoType THEN type
        ELSE req.type

\* __MakeNetScene: _type is compared as an unsigned number; NoScene is the
\* null pointer, which is used.
__MakeNetScene(type) ==
    IF type < 0 \/ type >= Len(selectors) THEN selectors[1] ELSE selectors[type + 1]

-----------------------------------------------------------------------------
(* Packing.  An answer is its status code, its bytes, the body they carry  *)
(* and the value of Sec-WebSocket-Accept.                                  *)

NoAnswer == [code |-> 0, bytes |-> <<>>, body |-> <<>>, accept |-> <<>>]

\* response::Pack with a body: `others` header fields and Content-Length.
PackWithBody_NoLength(code, others, body) ==
    [NoAnswer EXCEPT !.code = code, !.body = body,
                     !.bytes = Pack(OkLine, [i \in 1..others |-> HostHeader], body)]
PackWithBody(code, others, body) ==
    [NoAnswer EXCEPT !.code = code, !.body = body,
                     !.bytes = Pack(OkLine, Append([i \in 1..others |-> HostHeader],
                                                   LengthHeader(Len(body))), body)]

\* PackHttpRespPacket: Content-Type and Connection.
PackHttpRespPacket(body) == PackWithBody(200, 2, body)

\* HandleNetSceneException: Connection alone.
HandleNetSceneException == PackWithBody(500, 1, <<500>>)

PackFrame(body) == [NoAnswer EXCEPT !.body = body, !.bytes = Frame!PackFrame(body)]

\* HandleOverload, in HTTP (with Content-Type) or as a frame.
HandleOverload(req) ==
    IF req.proto = "http" THEN PackWithBody(200, 1, <<400>>) ELSE PackFrame(<<400>>)

\* HandleWebSocket of an upgrade request: DoHandShake needs a key.
DoHandShake(req) ==
    IF req.key = Nobody
    THEN [NoAnswer EXCEPT !.code = 404, !.bytes = Pack(SwitchingLine, <<>>, <<>>)]
    ELSE [NoAnswer EXCEPT !.code = 101, !.accept = Encode(Digest(req.key)),
                          !.bytes = Pack(SwitchingLine, [i \in 1..3 |-> HostHeader], <<>>)]

-----------------------------------------------------------------------------
(* The workers.                                                            *)

Idle == [at |-> "idle", req |-> Nobody, scene |-> NoScene, value |-> 0, answer |-> NoAnswer]

Goes(w, at, answer) == worker' = [worker EXCEPT ![w].at = at, ![w].answer = answer]

\* A worker takes a request, under overload or not, and dispatches it: HandleImpl
\* and HandleHttp up to DoScene, HandleWebSocket, HandleOverload.
Dispatch(w, req, overload) ==
    /\ phase = "serve" /\ worker[w] = Idle /\ taken < MaxRequests
    /\ taken' = taken + 1
    /\ LET scene == __MakeNetScene(TypeOf(req))
           to(at, s, answer) == worker' = [worker EXCEPT ![w] =
                                    [Idle EXCEPT !.at = at, !.req = req, !.scene = s,
                                                 !.answer = answer]]
       IN  \/ /\ overload /\ to("done", NoScene, HandleOverload(req)) /\ UNCHANGED phase
           \/ /\ ~overload /\ req.proto = "ws" /\ ~req.shaken
              /\ to("done", NoScene, DoHandShake(req)) /\ UNCHANGED phase
           \/ /\ ~overload /\ req.proto = "ws" /\ req.shaken
              /\ to("ws", NoScene, NoAnswer) /\ UNCHANGED phase
           \/ /\ ~overload /\ req.proto = "http" /\ scene = NoScene
              /\ phase' = "abort" /\ UNCHANGED worker
           \/ /\ ~overload /\ req.proto = "http" /\ scene # NoScene
              /\ to("scene", scene, NoAnswer) /\ UNCHANGED phase
    /\ UNCHANGED <<scenes, visits, mutex, callback, wsVisit, shown, saved>>

\* DoScene of every scene but the index page, and the answer.
DoScene(w) ==
    /\ phase = "serve" /\ worker[w].at = "scene" /\ worker[w].scene # NetSceneGetIndexPage
    /\ Goes(w, "done", IF worker[w].scene.throws THEN HandleNetSceneException
                       ELSE PackHttpRespPacket(<<worker[w].scene.type>>))
    /\ UNCHANGED <<phase, scenes, visits, mutex, callback, wsVisit, taken, shown, saved>>

Free_Always == TRUE
Free == mutex = Nobody

\* DoSceneImpl of the index page: mutex_ is locked, ...
Lock(w) ==
    /\ phase = "serve" /\ worker[w].at = "scene" /\ worker[w].scene = NetSceneGetIndexPage
    /\ Free /\ mutex' = w
    /\ worker' = [worker EXCEPT ![w].at = "locked", ![w].value = visits.now]
    /\ UNCHANGED <<phase, scenes, visits, callback, wsVisit, taken, shown, saved>>

\* ... the count that was read goes up by one and into the page, which is
\* packed.
Unlocked_Kept(w) == w
Unlocked(w) == Nobody
Count(w) ==
    /\ phase = "serve" /\ worker[w].at = "locked"
    /\ visits' = [visits EXCEPT !.now = worker[w].value + 1]
    /\ mutex' = Unlocked(w)
    /\ Goes(w, "done", PackHttpRespPacket(<<0, worker[w].value + 1>>))
    /\ shown' = Append(shown, worker[w].value + 1)
    /\ UNCHANGED <<phase, scenes, callback, wsVisit, taken, saved>>

\* WriteFakeWsResp: ++visit without a lock, a read and a write.
ReadWsVisit(w) ==
    /\ phase = "serve" /\ worker[w].at = "ws"
    /\ worker' = [worker EXCEPT ![w].at = "wsread", ![w].value = wsVisit]
    /\ UNCHANGED <<phase, scenes, visits, mutex, callback, wsVisit, taken, shown, saved>>

WriteWsVisit(w) ==
    /\ phase = "serve" /\ worker[w].at = "wsread"
    /\ wsVisit' = worker[w].value + 1
    /\ Goes(w, "done", PackFrame(<<worker[w].value + 1>>))
    /\ UNCHANGED <<phase, scenes, visits, mutex, callback, taken, shown, saved>>

\* The answer goes to the send queue.
Return(w) ==
    /\ phase = "serve" /\ worker[w].at = "done"
    /\ worker' = [worker EXCEPT ![w] = Idle]
    /\ UNCHANGED <<phase, scenes, visits, mutex, callback, wsVisit, taken, shown, saved>>

-----------------------------------------------------------------------------
(* Signals, death and restart.                                             *)

Saved_ThisBoot == visits.now - visits.start
Saved == visits.now

\* SIGINT: the callback saves the count, reading it without mutex_.  The
\* workers go on until the server's own callback stops them.
Sigint ==
    /\ phase \in {"register", "serve"} /\ callback
    /\ \E reached \in CheckConnection :
           /\ row' = Update(reached, visits.start, Saved)
           /\ promised' = IF reached THEN Max({promised} \cup Range(shown)) ELSE promised
    /\ callback' = FALSE
    /\ UNCHANGED <<phase, scenes, visits, mutex, wsVisit, worker, taken, boots, shown>>

\* The process ends, by its own stop or by a kill; what it held in memory is
\* gone.
Die ==
    /\ phase \in {"register", "serve", "abort"}
    /\ phase' = "down"
    /\ selectors' = <<>> /\ routeMap' = <<>> /\ visits' = [start |-> 0, now |-> 0]
    /\ mutex' = Nobody /\ callback' = FALSE /\ wsVisit' = 0
    /\ worker' = [w \in Workers |-> Idle] /\ taken' = 0 /\ shown' = <<>>
    /\ UNCHANGED <<apps, saved>>

Restart ==
    /\ phase = "down" /\ boots < MaxBoots
    /\ phase' = "boot" /\ boots' = boots + 1
    /\ UNCHANGED <<scenes, visits, mutex, callback, wsVisit, row, worker, taken, shown, promised>>

-----------------------------------------------------------------------------
Init ==
    /\ phase = "boot" /\ apps \in Apps /\ selectors = <<>> /\ routeMap = <<>>
    /\ visits = [start |-> 0, now |-> 0] /\ mutex = Nobody /\ callback = FALSE /\ wsVisit = 0
    /\ row \in InitialVisits /\ worker = [w \in Workers |-> Idle]
    /\ taken = 0 /\ boots = 1 /\ shown = <<>> /\ promised = 0

WorkerStep(w) ==
    DoScene(w) \/ Lock(w) \/ Count(w) \/ ReadWsVisit(w) \/ WriteWsVisit(w) \/ Return(w)

Next ==
    \/ Construct \/ Register \/ Serve \/ Sigint \/ Die \/ Restart
    \/ \E w \in Workers : WorkerStep(w) \/ \E req \in Requests, overload \in BOOLEAN :
                                         Dispatch(w, req, overload)

\* A worker that has begun goes on.
Spec == Init /\ [][Next]_vars /\ \A w \in Workers : WF_vars(WorkerStep(w))

-----------------------------------------------------------------------------
\* An application that numbers its scenes from kReservedTypeOffset + 1 and
\* gives each a route of its own is never stopped by an assert of
\* RegisterNetScene, and selectors_ then has every scene at its type.
Legal ==
    \A i, j \in DOMAIN apps :
        /\ apps[i].type = kReservedTypeOffset + i
        /\ apps[i].route \notin {NetSceneGetIndexPage.route, NetSceneGetFavIcon.route}
        /\ i # j /\ apps[i].route # <<>> => apps[i].route # apps[j].route
LegalScenesServed ==
    /\ Legal /\ phase = "abort" => taken > 0
    /\ phase = "serve" =>
           \A t \in 0..(Len(selectors) - 1) :
               IF t \in 4..kReservedTypeOffset THEN selectors[t + 1] = NoScene
               ELSE selectors[t + 1].type = t

\* Whether a scene's route is the path of a URL, or its route ends in '*' and
\* the path starts with what stands before that and goes on.
IsPathOf(route, url) ==
    IsPrefix(route, url) /\ (Len(url) > Len(route) => url[Len(route) + 1] = Question)
Covers(route, url) ==
    /\ Last(route) = Star /\ Len(route) <= Len(url) /\ IsPrefix(Front(route), url)
    /\ \A i \in DOMAIN route : url[i] # Question
Routed == {s \in Range(selectors) : s.route # <<>> /\ ~s.protobuf}

\* The scene for a URL: the one whose route is the URL's path; else the most
\* general of those whose dynamic routes cover it, whatever the order they were
\* registered in (characters of a path sorting after '*'); else none.
ForUrl(url) ==
    LET exact == {s \in Routed : IsPathOf(s.route, url)}
        wide  == {s \in Routed : Covers(s.route, url)}
    IN  IF exact # {} THEN exact
        ELSE {s \in wide : \A q \in wide : Len(s.route) <= Len(q.route)}

\* HandleHttp gives a request to the scene it is for: the scene for its URL, or
\* the one a POST names in its body, or the 404 scene if it has neither.  One
\* that has both goes to one of them.  A type that nobody has registered is
\* given up: no scene of the application handles it.
RightScene ==
    \A w \in Workers :
        LET req   == worker[w].req
            s     == worker[w].scene
            named == req.post /\ req.type # NoType
        IN  worker[w].at # "idle" /\ s # NoScene =>
                \/ s \in ForUrl(req.url)
                \/ named /\ s.type = req.type
                \/ ForUrl(req.url) = {} /\ ~named /\ s = NetScene404NotFound
                \/ /\ ForUrl(req.url) = {} /\ named /\ req.type + 1 \notin DOMAIN selectors
                   /\ s \notin Range(apps)

\* The index page never shows a number twice and skips none: the workers'
\* pages since the process started are numbered from the count it found.
VisitsCounted ==
    /\ \A i \in DOMAIN shown : shown[i] = visits.start + i
    /\ visits.now = visits.start + Len(shown)

\* A count that was shown when SIGINT came, and saved, is not lost: whatever
\* dies afterwards, the table has the highest number that was shown by then, no
\* other, or what it had at first, and a later process that could read the table
\* shows larger ones.
SavedCountKept ==
    /\ row >= promised /\ row \in {promised} \cup InitialVisits
    /\ callback => \A i \in DOMAIN shown : shown[i] > promised

\* What the workers pack the framework's own parsers read back: a response
\* with its body, a frame with its payload.
AnswersParse ==
    \A w \in Workers :
        LET a == worker[w].answer
        IN  worker[w].at = "done" /\ a.body # <<>> =>
                IF a.code # 0
                THEN LET p == DoParse(NewParser("response"), a.bytes)
                     IN  IsEnd(p) /\ p.body = a.body
                ELSE LET v == Frame!DoParseFrame(Frame!NewFrame, a.bytes)
                     IN  v.position = "kEnd" /\ v.payload = a.body

\* Bit i (from 0) of a byte sequence, the high bit of each byte first.
Bit(bytes, i) ==
    IF i >= 8 * Len(bytes) THEN 0 ELSE (bytes[(i \div 8) + 1] \div (2^(7 - (i % 8)))) % 2
Base64Of(bytes, text) ==
    /\ Len(text) = 4 * ((Len(bytes) + 2) \div 3)
    /\ \A k \in DOMAIN text :
           IF 6 * (k - 1) >= 8 * Len(bytes) THEN text[k] = padding
           ELSE \A b \in 0..5 :
                    (decode_table[text[k]] \div (2^(5 - b))) % 2 = Bit(bytes, (6 * (k - 1)) + b)

\* Sec-WebSocket-Accept is the digest in base64, six bits to a character, and
\* Decode is the inverse of Encode on sequences of every length modulo 3.
AcceptIsDigest ==
    /\ \A w \in Workers :
           worker[w].answer.code = 101 => Base64Of(Digest(worker[w].req.key), worker[w].answer.accept)
    /\ phase = "boot" => \A b \in Samples :
           Base64Of(b, Encode(b)) /\ Decode(Encode(b)) = [thrown |-> FALSE, res |-> b]

\* A worker that has taken a request answers it, in whatever order the workers
\* come to the counters, unless the process dies.
RequestAnswered ==
    \A w \in Workers : worker[w].at # "idle" ~> worker[w].at = "idle" \/ phase # "serve"
=============================================================================
