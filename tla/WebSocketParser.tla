--------------------------- MODULE WebSocketParser ---------------------------
(***************************************************************************)
(* longlink/websocketpacket.cc: the incremental parser of WebSocket frames *)
(* and the packing of a text frame.  A parser is a record that holds the   *)
(* fields of the packet it fills; bytes are numbers.  What the extended    *)
(* length says is not kept: no code reads it back.                         *)
(***************************************************************************)
EXTENDS Integers, Sequences, FiniteSetsExt

kOpcodeText == 1
kOpcodeConnectionClose == 8

\* The parser of a fresh packet (WebSocketPacket's and the parser's
\* constructors, WebSocketPacket::AllocNewPacket, WebSocketParser::Reset).
NewFrame ==
    [position |-> "kNone", resolved |-> 0, opcode |-> 0, masked |-> FALSE, len |-> 0,
     key |-> <<0, 0, 0, 0>>, payload |-> <<>>, success |-> FALSE]

\* raw ^ key on bytes.
Xor(a, b) ==
    MapThenSumSet(LAMBDA k : (((a \div (2^k)) + (b \div (2^k))) % 2) * (2^k), 0..7)

\* SetFirstByte; fin and rsv are not looked at again.
OpCode(first) == first % 16

_ResolveFirstByte(w, buffer) ==
    [w EXCEPT !.opcode = OpCode(buffer[1]), !.resolved = @ + 1,
              !.position = "kPayloadLen", !.success = TRUE]

_ResolvePayloadLen(w, buffer) ==
    IF Len(buffer) - w.resolved < 1 THEN [w EXCEPT !.success = FALSE]
    ELSE [w EXCEPT !.masked = buffer[2] >= 128, !.len = buffer[2] % 128,
                   !.resolved = @ + 1, !.success = TRUE,
                   !.position = CASE buffer[2] % 128 >= 126 -> "kExtendedPayloadLen"
                                  [] buffer[2] \in 128..253 -> "kMaskingKey"
                                  [] OTHER -> "kPayload"]

_ResolveExtendedPayloadLen(w, buffer) ==
    LET size == IF w.len = 126 THEN 2 ELSE 8
    IN  IF Len(buffer) - w.resolved < size THEN [w EXCEPT !.success = FALSE]
        ELSE [w EXCEPT !.resolved = @ + size, !.success = TRUE,
                       !.position = IF w.masked THEN "kMaskingKey" ELSE "kPayload"]

_ResolveMaskingKey(w, buffer) ==
    IF Len(buffer) - w.resolved < 4 THEN [w EXCEPT !.success = FALSE]
    ELSE [w EXCEPT !.key = SubSeq(buffer, w.resolved + 1, w.resolved + 4),
                   !.resolved = @ + 4, !.position = "kPayload", !.success = TRUE]

\* All unresolved bytes are taken for payload, the key starting over with
\* every call; the size is compared with the 7-bit length.
_ResolvePayload(w, buffer) ==
    LET raw     == SubSeq(buffer, w.resolved + 1, Len(buffer))
        payload == w.payload \o [i \in DOMAIN raw |->
                       IF w.masked THEN Xor(raw[i], w.key[((i - 1) % 4) + 1]) ELSE raw[i]]
    IN  IF raw = <<>> THEN [w EXCEPT !.success = FALSE]
        ELSE [w EXCEPT !.payload = payload, !.resolved = Len(buffer),
                       !.success = Len(payload) = w.len,
                       !.position = CASE Len(payload) = w.len -> "kEnd"
                                      [] Len(payload) > w.len -> "kError"
                                      [] OTHER -> "kPayload"]

FrameStep(w, buffer) ==
    CASE w.position \in {"kNone", "kFirstByte"} -> _ResolveFirstByte(w, buffer)
      [] w.position = "kPayloadLen" -> _ResolvePayloadLen(w, buffer)
      [] w.position = "kExtendedPayloadLen" -> _ResolveExtendedPayloadLen(w, buffer)
      [] w.position = "kMaskingKey" -> _ResolveMaskingKey(w, buffer)
      [] w.position = "kPayload" -> _ResolvePayload(w, buffer)
      [] OTHER -> [w EXCEPT !.success = FALSE]

FrameAgain(w, buffer) ==
    IF w.success /\ w.position \notin {"kEnd", "kError"} THEN FrameStep(w, buffer) ELSE w

\* WebSocketParser::DoParse: at most one turn for each of the five parts.
DoParseFrame(w, buffer) ==
    LET turn(ws) == {FrameAgain(v, buffer) : v \in ws}
    IN  IF Len(buffer) = w.resolved THEN w
        ELSE CHOOSE v \in turn(turn(turn(turn({FrameStep(w, buffer)})))) : TRUE

\* ws::Pack on a little-endian machine: the bytes of the lengths are written
\* in memory order.
PackFrame(content) ==
    LET n == Len(content)
    IN  <<128 + kOpcodeText>>
        \o (IF n < 126 THEN <<n>>
            ELSE IF n <= 65535 THEN <<126>> \o [k \in 1..2 |-> (n \div (256^(k - 1))) % 256]
            ELSE <<127>> \o [k \in 1..8 |-> IF k <= 4 THEN (n \div (256^(k - 1))) % 256 ELSE 0])
        \o content
=============================================================================
