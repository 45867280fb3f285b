------------------------ MODULE MCNetSceneDispatcher ------------------------
(* Small instances of NetSceneDispatcher: an application with a static and *)
(* overlapping dynamic routes, a protobuf scene and one that throws, and   *)
(* applications whose registration is refused.                             *)
EXTENDS NetSceneDispatcher

Url(path) == <<Slash>> \o path
A == 97
B == 98

GoodApp == << Scene(11, FALSE, Url(<<A, Slash, B, Star>>), FALSE),
              Scene(12, FALSE, Url(<<A, Slash, B>>), TRUE),
              Scene(13, TRUE, <<>>, FALSE),
              Scene(14, FALSE, Url(<<A, Slash, Star>>), FALSE) >>
WrongType == << Scene(10, FALSE, Url(<<A>>), FALSE) >>
SameRoute == << Scene(11, FALSE, Url(<<102>>), FALSE) >>
AllApps == {<<>>, GoodApp, WrongType, SameRoute}

Get(url) == [proto |-> "http", post |-> FALSE, url |-> url, type |-> NoType, shaken |-> FALSE,
             key |-> Nobody]
Post(url, type) == [Get(url) EXCEPT !.post = TRUE, !.type = type]
WebSocket(shaken, k) == [Get(<<>>) EXCEPT !.proto = "ws", !.shaken = shaken, !.key = k]

AllRequests ==
    {Get(Url(<<>>)), Get(Url(<<Question, A>>)), Get(Url(<<A, Slash, B, Question>>)),
     Get(Url(<<A, Slash, A>>)), Get(Url(<<A, Slash>>)), Get(Url(<<A, Question, Slash, B>>)),
     Get(Url(<<A, Slash, B, A>>)),
     Post(Url(<<A, Slash, B>>), NoType), Post(Url(<<A, Slash, A>>), 13), Post(Url(<<B>>), 13), Post(Url(<<B>>), 20),
     Post(Url(<<B>>), NoType), Post(Url(<<B>>), 1), Post(Url(<<B>>), 7), Post(Url(<<B>>), -1),
     WebSocket(FALSE, 1), WebSocket(FALSE, Nobody), WebSocket(TRUE, 1)}

SomeDigest(k) == [i \in 1..20 |-> ((37 * i) + (101 * k)) % 256]
SomeSamples == {<<>>, <<255>>, <<1, 128>>, <<77, 97, 110>>, <<0, 16, 131, 250>>}
=============================================================================
