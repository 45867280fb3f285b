---------------------------- MODULE TcpConnection ----------------------------
(***************************************************************************)
(* One accepted connection of a WebServer::NetThread at the level of its   *)
(* bytes: tcp::ConnectionProfile with its Socket (non-blocking, edge       *)
(* triggered), its byte array and its application protocol parser, the     *)
(* upgrade from HTTP to WebSocket, the send contexts of its answers, and   *)
(* the client at the other end, who sends one request and, once upgraded,  *)
(* a few frames, one byte at a time.                                       *)
(*                                                                         *)
(* The network thread is one process: pc says where in Run it is, and a    *)
(* step is one read(2) or write(2) with all that follows it.  The workers  *)
(* and the send queue are reduced to answers that arrive some time after   *)
(* the packet was handed on, in any order.                                 *)
(***************************************************************************)
EXTENDS HttpParser, WebSocketParser, AutoBuffer, FiniteSets

CONSTANTS
    kBufferSize,    \* the size of one read(2)
    Scripts,        \* what clients send
    AnswerLen,      \* bound: bytes of an answer
    SendRoom,       \* bytes the peer's window and the kernel hold
    MayExpire,      \* whether kDefaultTimeout may elapse
    MaxMessages     \* bound: packets of one client

ASSUME TcpConnectionAssumption ==
    kBufferSize \in Nat \ {0} /\ AnswerLen \in Nat \ {0} /\ SendRoom \in Nat \ {0}

VARIABLES
    script,     \* what this client sends
    wrote,      \* bytes of it that have reached the server's kernel
    fin,        \* whether the client has closed its side
    reset,      \* whether the client has reset the connection
    got,        \* bytes the server has read
    torn,       \* history: messages a read ended in (see CutIn)
    ready,      \* epoll has an event for the socket
    writable,   \* EPOLLOUT is set in the event being handled
    pc,         \* where the network thread is: "wait", "receive" or "write"
    alive,      \* the ConnectionProfile exists
    conn,       \* its byte array, socket flags and parser
    delivered,  \* the packets of the RecvContexts handed to the workers
    work,       \* answers (by seq) the workers still owe
    sendq,      \* the send queue
    ctx,        \* the buffer of the SendContext of each answer
    pending,    \* pending_send_ctx_
    expired,    \* timeout_ts_ has passed
    out,        \* what was written to the socket: <<seq, index>>
    drained     \* how much of it the client has taken

client == <<script, wrote, fin, reset, drained>>
receiving == <<got, torn, conn, delivered, work>>
sending == <<sendq, ctx, pending, out>>
vars == <<client, ready, writable, pc, alive, expired, receiving, sending>>

-----------------------------------------------------------------------------
\* The client's side (RFC 6455 frames of less than 126 bytes).

EncodeFrame(f) ==
    <<128 + f.opcode, (IF f.masked THEN 128 ELSE 0) + Len(f.payload)>>
    \o (IF f.masked
        THEN f.key \o [i \in DOMAIN f.payload |-> Xor(f.payload[i], f.key[((i - 1) % 4) + 1])]
        ELSE f.payload)

Request == Pack(script.line, script.headers, script.body)

Stream == Request \o FlattenSeq([k \in DOMAIN script.frames |-> EncodeFrame(script.frames[k])])

\* Where message k of the client ends in the stream.
EndOf(k) ==
    Len(Request) + FoldLeft(LAMBDA n, f : n + Len(EncodeFrame(f)), 0, SubSeq(script.frames, 1, k - 1))

Unread == wrote - got

\* A read that ends at byte c ends inside the payload of masked frame k - 1,
\* not at a multiple of the key's length.
CutIn(k, c) ==
    /\ script.frames[k - 1].masked /\ c < EndOf(k)
    /\ LET start == EndOf(k) - Len(script.frames[k - 1].payload)
       IN  c > start /\ (c - start) % 4 # 0

Room == SendRoom - (Len(out) - drained)

ClientWrite ==
    /\ ~fin /\ ~reset /\ wrote < Len(Stream)
    /\ wrote >= Len(Request) => drained >= AnswerLen    \* frames follow the handshake
    /\ wrote' = wrote + 1
    /\ ready' = TRUE
    /\ UNCHANGED <<script, fin, reset, drained, writable, pc, alive, expired, receiving, sending>>

\* The client closes, having sent its script or not.
ClientFin ==
    /\ ~fin /\ ~reset
    /\ fin' = TRUE
    /\ ready' = TRUE
    /\ UNCHANGED <<script, wrote, reset, drained, writable, pc, alive, expired, receiving, sending>>

ClientReset ==
    /\ fin /\ ~reset
    /\ reset' = TRUE
    /\ ready' = TRUE
    /\ UNCHANGED <<script, wrote, fin, drained, writable, pc, alive, expired, receiving, sending>>

\* The client reads; a socket that was full becomes writable.
ClientRead ==
    /\ drained < Len(out)
    /\ drained' = drained + 1
    /\ ready' = (ready \/ (Room = 0 /\ pending # <<>>))
    /\ UNCHANGED <<script, wrote, fin, reset, writable, pc, alive, expired, receiving, sending>>

-----------------------------------------------------------------------------
\* Receiving.

IsLongLink == conn.proto = "kWebSocket"

\* NetThreadBase::DelConnection and ~ConnectionProfile: the contexts of the
\* connection become invalid, what is pending is gone.
DelConnection ==
    /\ alive' = FALSE
    /\ pending' = <<>>
    /\ pc' = "wait"
    /\ UNCHANGED <<client, ready, writable, expired, sendq, ctx, out>>

\* The packet handed on by MakeRecvContext.
HttpPacket(p) == [proto |-> "kHttp1_1", head |-> p.method, fields |-> p.headers, content |-> p.body]
FramePacket(w) == [proto |-> "kWebSocket", head |-> w.opcode, fields |-> NoHeaders, content |-> w.payload]
Handshake == FramePacket(NewFrame)

\* MakeSendContext for the packet that is handed on, and its way to a worker.
Dispatch(packet) ==
    /\ delivered' = Append(delivered, packet)
    /\ work' = work \cup {Len(delivered) + 1}

\* ConfigApplicationLayer<WebSocketPacket, WebSocketParser> after an upgrade,
\* and MakeRecvContext of a long link: a new packet, a reset parser and an
\* empty byte array.
LongLink_KeepParser(c) ==
    [c EXCEPT !.proto = "kWebSocket", !.buffer = Reset(c.buffer)]
LongLink(c) ==
    [c EXCEPT !.proto = "kWebSocket", !.parser = NewParser("request"),
              !.frame = NewFrame, !.buffer = Reset(c.buffer)]

\* The connection c whose parser has seen all bytes read.
ParseProtocol(c) ==
    IF c.proto = "kWebSocket" THEN [c EXCEPT !.frame = DoParseFrame(@, c.buffer.bytes)]
    ELSE [c EXCEPT !.parser = DoParse(@, c.buffer.bytes)]

ParseError(c) == IF c.proto = "kWebSocket" THEN IsErr(c.frame) ELSE IsErr(c.parser)
IsParseDone(c) == IF c.proto = "kWebSocket" THEN IsEnd(c.frame) ELSE IsEnd(c.parser)

IsUpgradeApplicationProtocol(c) == c.proto = "kHttp1_1" /\ c.parser.upgrade

\* __OnReadEvent once Receive has returned 0 without a FIN.
AfterReceive(c) ==
    /\ IF ~IsParseDone(c) THEN conn' = c /\ UNCHANGED <<delivered, work, alive, pending>>
       ELSE IF IsUpgradeApplicationProtocol(c)
       THEN conn' = LongLink(c) /\ Dispatch(Handshake) /\ UNCHANGED <<alive, pending>>
       ELSE IF c.proto = "kHttp1_1"
       THEN conn' = c /\ Dispatch(HttpPacket(c.parser)) /\ UNCHANGED <<alive, pending>>
       ELSE /\ conn' = LongLink(c)
            /\ IF c.frame.opcode = kOpcodeConnectionClose
               THEN alive' = FALSE /\ pending' = <<>> /\ UNCHANGED <<delivered, work>>
               ELSE Dispatch(FramePacket(c.frame)) /\ UNCHANGED <<alive, pending>>
    /\ pc' = IF alive' /\ writable THEN "write" ELSE "wait"

\* The condition of Receive's loop.
KeepReading_Once(c) == FALSE
KeepReading(c) == ~IsParseDone(c) /\ c.full

\* Socket::Receive makes room for kBufferSize bytes before it reads.
MakeRoom(c) ==
    [c EXCEPT !.buffer = AddCapacity(@, kBufferSize - AvailableSize(@))]

\* One turn of ConnectionProfile::Receive's loop when read(2) has bytes: they
\* are parsed unless is_eagain_ is still set from an earlier event.
ReceiveBytes ==
    /\ pc = "receive" /\ Unread > 0 /\ ~reset
    /\ LET n    == IF Unread < kBufferSize THEN Unread ELSE kBufferSize
           room == MakeRoom(conn)
           read == [room EXCEPT !.buffer = AddLength(@, SubSeq(Stream, got + 1, got + n)),
                                !.full = n = kBufferSize]
       IN  /\ got' = got + n
           /\ torn' = torn \cup {k \in 2..(Len(script.frames) + 1) : CutIn(k, got + n)}
           /\ \E c \in {IF conn.eagain THEN read ELSE ParseProtocol(read)} :
                \/ /\ ~conn.eagain /\ ParseError(c)
                   /\ conn' = c
                   /\ DelConnection
                   /\ UNCHANGED <<delivered, work>>
                \/ /\ ~conn.eagain /\ ~ParseError(c) /\ KeepReading(c)
                   /\ conn' = c
                   /\ UNCHANGED <<client, ready, writable, pc, alive, expired, delivered, work, sending>>
                \/ /\ conn.eagain \/ (~ParseError(c) /\ ~KeepReading(c))
                   /\ AfterReceive(c)
                   /\ UNCHANGED <<client, ready, writable, expired, sendq, ctx, out>>

\* read(2) finds nothing: EAGAIN, or the FIN (read as such only while
\* is_eagain_ has never been set).
ReceiveNothing ==
    /\ pc = "receive" /\ Unread = 0 /\ ~reset
    /\ LET c == [MakeRoom(conn) EXCEPT !.eagain = @ \/ ~fin, !.full = FALSE]
       IN  \/ /\ c.eagain
              /\ AfterReceive(c)
              /\ UNCHANGED <<client, ready, writable, expired, got, torn, sendq, ctx, out>>
           \/ /\ ~c.eagain
              /\ conn' = c
              /\ DelConnection
              /\ UNCHANGED <<got, torn, delivered, work>>

\* read(2) fails with ECONNRESET: Receive returns -1, unless is_eagain_ was
\* recomputed to false by this very failure - which it is.
ReceiveError ==
    /\ pc = "receive" /\ reset
    /\ conn' = [MakeRoom(conn) EXCEPT !.eagain = FALSE, !.full = FALSE]
    /\ DelConnection
    /\ UNCHANGED <<got, torn, delivered, work>>

\* When the parts of the network thread's loop have something to do.
EventReady == pc = "wait" /\ alive /\ ready
SendReady == pc = "wait" /\ sendq # <<>>
TimeoutReady == pc = "wait" /\ alive /\ ~IsLongLink /\ pending = <<>> /\ expired

-----------------------------------------------------------------------------
\* Sending.

Answer(seq) == [i \in 1..AnswerLen |-> <<seq, i>>]

\* A worker packs the answer into the SendContext and queues it.
WorkerAnswers(seq) ==
    /\ seq \in work
    /\ work' = work \ {seq}
    /\ ctx' = [ctx EXCEPT ![seq] = Write(@, Answer(seq))]
    /\ sendq' = Append(sendq, seq)
    /\ UNCHANGED <<client, ready, writable, pc, alive, expired, got, torn, conn, delivered, pending, out>>

\* Socket::Send: what write(2) takes of the buffer from its position on.
Taken(b) ==
    IF reset THEN 0
    ELSE IF Room < Length(b) - b.pos THEN Room ELSE Length(b) - b.pos

IsSendDone(b) == Length(b) > b.pos /\ Taken(b) = Length(b) - b.pos

Send(seq) ==
    LET b == ctx[seq]
    IN  /\ out' = out \o SubSeq(b.bytes, b.pos + 1, b.pos + Taken(b))
        /\ ctx' = [ctx EXCEPT ![seq] = IF IsSendDone(b) THEN SeekEnd(b)
                                       ELSE SeekCurrent(b, Taken(b))]

\* SendContextSendDoneCallback moves the timeout of a short link.
SendDone == expired' = (IsLongLink /\ expired)

\* HandleSend and TrySendAndMarkPendingIfUndone.
HandleSend ==
    /\ SendReady
    /\ sendq' = Tail(sendq)
    /\ LET seq == Head(sendq)
       IN  \/ ~alive /\ UNCHANGED <<ctx, out, pending, expired>>
           \/ /\ alive
              /\ Send(seq)
              /\ IF IsSendDone(ctx[seq]) THEN SendDone /\ UNCHANGED pending
                 ELSE pending' = Append(pending, seq) /\ UNCHANGED expired
    /\ UNCHANGED <<client, ready, writable, pc, alive, receiving>>

\* One turn of TrySendPendingPackets' loop in __OnWriteEvent.
WritePending ==
    /\ pc = "write"
    /\ IF pending = <<>>
       THEN pc' = "wait" /\ UNCHANGED <<ctx, out, pending, expired>>
       ELSE LET seq == Head(pending)
            IN  /\ Send(seq)
                /\ IF IsSendDone(ctx[seq])
                   THEN pending' = Tail(pending) /\ SendDone /\ UNCHANGED pc
                   ELSE pc' = "wait" /\ UNCHANGED <<pending, expired>>
    /\ UNCHANGED <<client, ready, writable, alive, receiving, sendq>>

-----------------------------------------------------------------------------
\* The network thread's loop.

IsWriteSet_Never == FALSE
IsWriteSet == Room > 0

\* epoll_wait reports the socket's present state: EPOLLERR, or EPOLLIN and
\* EPOLLOUT as they are, the former first.
EpollWait ==
    /\ EventReady
    /\ ready' = FALSE /\ writable' = IsWriteSet
    /\ \/ /\ reset                                  \* __OnErrEvent
          /\ alive' = FALSE /\ pending' = <<>> /\ UNCHANGED pc
       \/ /\ ~reset
          /\ pc' = IF Unread > 0 \/ fin THEN "receive" ELSE IF IsWriteSet THEN "write" ELSE "wait"
          /\ UNCHANGED <<alive, pending>>
    /\ UNCHANGED <<client, expired, receiving, sendq, ctx, out>>

\* Time passes timeout_ts_.
Expire ==
    /\ MayExpire /\ alive /\ ~expired
    /\ expired' = TRUE
    /\ UNCHANGED <<client, ready, writable, pc, alive, receiving, sending>>

\* ClearTimeout finds IsTimeout: not for a long link, not with answers pending.
ClearTimeout ==
    /\ TimeoutReady
    /\ DelConnection
    /\ UNCHANGED receiving

NewConnection ==
    [buffer |-> EmptyBuffer, eagain |-> FALSE, full |-> FALSE, proto |-> "kHttp1_1",
     parser |-> NewParser("request"), frame |-> NewFrame]

Init ==
    /\ script \in Scripts
    /\ wrote = 0 /\ fin = FALSE /\ reset = FALSE /\ drained = 0
    /\ got = 0 /\ torn = {} /\ ready = TRUE /\ writable = FALSE /\ pc = "wait" /\ alive = TRUE
    /\ conn = NewConnection
    /\ delivered = <<>> /\ work = {} /\ sendq = <<>> /\ pending = <<>> /\ out = <<>>
    /\ ctx = [seq \in 1..(Len(script.frames) + 1) |-> EmptyBuffer]
    /\ expired = FALSE

NetworkThread ==
    EpollWait \/ ReceiveBytes \/ ReceiveNothing \/ ReceiveError \/ WritePending \/ HandleSend
        \/ ClearTimeout

Workers == \E seq \in DOMAIN ctx : WorkerAnswers(seq)

Next ==
    \/ NetworkThread \/ Workers \/ Expire
    \/ ClientWrite \/ ClientFin \/ ClientReset \/ ClientRead

\* The threads run, time passes, and the client goes on taking its answers:
\* weak fairness, with the enabling conditions written out.
Fairness ==
    /\ []<>~(pc # "wait" \/ EventReady) \/ []<><<EpollWait \/ ReceiveBytes \/ ReceiveNothing
                                                \/ ReceiveError \/ WritePending>>_vars
    /\ []<>~SendReady \/ []<><<HandleSend>>_vars
    /\ []<>(work = {}) \/ []<><<Workers>>_vars
    /\ WF_vars(ClientRead)

Spec == Init /\ [][Next]_vars /\ Fairness
-----------------------------------------------------------------------------
\* What the client sent, as packets: the reference for what is delivered.  A
\* request counts from two headers on (split finds none in a single line).

WellFormed ==
    /\ script.line \in {GetLine, PostLine} /\ Len(script.headers) >= 2
    /\ \A k \in DOMAIN script.headers : IsHeader(script.headers[k])
    /\ (script.line = GetLine) = (script.body = <<>>)
    /\ script.line = PostLine => \E k \in DOMAIN script.headers :
                                    script.headers[k] = LengthHeader(Len(script.body))

Packet(proto, head, fields, content) ==
    [proto |-> proto, head |-> head, fields |-> fields, content |-> content]

Sent ==
    LET fields == HeadersOf([k \in DOMAIN script.headers |-> <<script.headers[k]>>])
        texts  == SelectSeq(script.frames, LAMBDA f : f.opcode # kOpcodeConnectionClose)
    IN  IF ~WellFormed THEN <<>>
        ELSE IF UpgradeHeader \notin fields.names
        THEN <<Packet("kHttp1_1", script.line, fields, script.body)>>
        ELSE <<Handshake>> \o
             [k \in DOMAIN texts |-> Packet("kWebSocket", texts[k].opcode, NoHeaders, texts[k].payload)]

\* However the bytes of a request or of a frame are cut into reads, the packet
\* handed to the workers is the one the client sent: method, headers and body,
\* opcode and payload (the payload of a masked frame unless a read ended in it
\* off the key's period).  Nothing is handed on for a malformed request.
DeliveredIsSent ==
    /\ Len(delivered) <= Len(Sent)
    /\ \A k \in DOMAIN delivered : k \notin torn => delivered[k] = Sent[k]

\* HttpParser works incrementally, its result does not depend on the reads: as
\* long as is_eagain_ has not made Receive skip a parse, the parser's state is
\* that of one parse of everything read.
ParsedSoFar ==
    alive /\ ~conn.eagain /\ ~IsLongLink =>
        conn.parser = IF got = 0 THEN NewParser("request")
                      ELSE DoParse(NewParser("request"), SubSeq(Stream, 1, got))

\* Edge-triggered reading: the network thread goes back to epoll_wait with
\* bytes unread and no event to come only when a read filled the buffer and
\* either ended exactly with a packet (Receive returns on IsParseDone) or met
\* a stale is_eagain_.
NoDataStranded ==
    alive /\ pc = "wait" /\ ~ready /\ Unread > 0 =>
        conn.full /\ (conn.eagain \/ \E k \in 1..(Len(script.frames) + 1) : EndOf(k) = got)

\* Socket::Receive never reads past the capacity AddCapacity has made.
BytesWithinCapacity == Length(conn.buffer) <= conn.buffer.capacity

\* Every answer owed on a live connection is in one place: with a worker, in
\* the send queue, pending, or completely written; and the client's bytes of
\* it are a prefix of the answer, none lost or repeated by partial writes.
AnswersAccounted ==
    \A seq \in DOMAIN delivered :
        /\ SelectSeq(out, LAMBDA e : e[1] = seq) = SubSeq(Answer(seq), 1, ctx[seq].pos)
        /\ alive => Cardinality({place \in 1..4 :
                        CASE place = 1 -> seq \in work
                          [] place = 2 -> seq \in Range(sendq)
                          [] place = 3 -> seq \in Range(pending)
                          [] place = 4 -> ctx[seq].pos = AnswerLen}) = 1

\* A packet handed on is answered completely while the connection lasts: a
\* partial write is continued on EPOLLOUT until the end.
AnswersFlushed ==
    \A seq \in 1..MaxMessages :
        Len(delivered) >= seq ~> ~alive \/ (Len(delivered) >= seq /\ ctx[seq].pos = AnswerLen)

\* README: "The framework completes Http protocol serialization and parsing."
\* A well-formed request that has been read completely is handed on by the
\* time the network thread has nothing left to do for the connection.
RequestParsed ==
    alive /\ pc = "wait" /\ ~ready /\ WellFormed /\ got >= Len(Request) => delivered # <<>>

\* The connection implements MessageStream: each message is handed on once, in
\* order, with its kind and its size.
Shape(p) == [proto |-> p.proto, head |-> p.head, size |-> Len(p.content)]

Messages ==
    INSTANCE MessageStream WITH
        messages <- [k \in DOMAIN Sent |-> Shape(Sent[k])],
        received <- [k \in DOMAIN delivered |-> Shape(delivered[k])]

ImplementsMessageStream == Messages!StreamSpec
=============================================================================
