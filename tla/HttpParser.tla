----------------------------- MODULE HttpParser -----------------------------
(***************************************************************************)
(* The incremental parsers of http/: http::HttpParser with the first line  *)
(* and body rules of its request and response subclasses, and the packing  *)
(* of messages.  A parser is a record; DoParse(p, buffer) is the parser    *)
(* after it has looked at the connection's byte array, which holds all     *)
(* bytes read so far.                                                      *)
(*                                                                         *)
(* The text of a first line or header is one token: what the code does     *)
(* with it (how many parts it splits into, which field it sets) is given   *)
(* by the operators below; CR, LF and body bytes are tokens of their own.  *)
(***************************************************************************)
EXTENDS StrUtil

CR == 13
LF == 10
CRLF == <<CR, LF>>

\* Texts of first lines: a GET, a POST, a status line of three parts, and
\* lines that split(" ") does not cut into three parts ("junk", and "HTTP/1.1
\* 101 Switching Protocols", whose description has a space).
GetLine == 256
PostLine == 257
OkLine == 258
JunkLine == 259
SwitchingLine == 260

\* Texts of headers; JunkHeader has no ": ".
HostHeader == 270
UpgradeHeader == 271
KeyHeader == 272
JunkHeader == 273
LengthHeader(n) == 280 + n
IsHeader(t) == t \in {HostHeader, UpgradeHeader, KeyHeader} \/ t \in 280..299

\* The header fields of a message: the set of names other than Content-Length
\* and the number strtoul reads from that one (0 when it is missing).
NoHeaders == [names |-> {}, length |-> 0]

InsertOrUpdate(headers, t) ==
    IF t >= 280 THEN [headers EXCEPT !.length = t - 280]
    ELSE [headers EXCEPT !.names = @ \cup {t}]

\* HeaderField::ParseFromString on the text between the first line and the
\* empty line: "error" when a line is not "key: value".
ParseFromString(text) ==
    LET lines == split(text, CRLF)
    IN  [ok |-> \A k \in DOMAIN lines : Len(lines[k]) = 1 /\ IsHeader(lines[k][1]),
         lines |-> lines]

HeadersOf(lines) == FoldLeft(LAMBDA h, line : InsertOrUpdate(h, line[1]), NoHeaders, lines)

\* A new parser, of a request or of a response.
NewParser(kind) ==
    [kind |-> kind, position |-> "kNone", resolved |-> 0, firstLine |-> 0, header |-> 0,
     method |-> 0, headers |-> NoHeaders, body |-> <<>>, upgrade |-> FALSE, success |-> FALSE]

Fail(p) == [p EXCEPT !.position = "kError", !.success = FALSE]

Wait_Skip(p) == [p EXCEPT !.success = FALSE, !.resolved = @ + 1]
Wait(p) == [p EXCEPT !.success = FALSE]

IsFirstLine(p, text) ==
    Len(text) = 1 /\ text[1] \in (IF p.kind = "request" THEN {GetLine, PostLine} ELSE {OkLine})

_ResolveFirstLine(p, buffer) ==
    LET crlf == strnstr(buffer, 0, CRLF)
    IN  IF crlf = 0 THEN [p EXCEPT !.position = "kFirstLine", !.resolved = 0, !.success = FALSE]
        ELSE IF ~IsFirstLine(p, SubSeq(buffer, 1, crlf - 1)) THEN Fail(p)
        ELSE [p EXCEPT !.position = "kHeaders", !.method = buffer[1], !.success = TRUE,
                       !.resolved = crlf + 1, !.firstLine = crlf + 1]

\* request::Parser::_ResolveHeaders: whether the request asks for an upgrade.
IsUpgradeProtocol(p, fields) == p.kind = "request" /\ UpgradeHeader \in fields.names

\* HttpParser::_ResolveHeaders, and that of the request parser.
_ResolveHeaders(p, buffer) ==
    LET at     == strnstr(buffer, p.resolved, CRLF \o CRLF)
        parsed == ParseFromString(SubSeq(buffer, p.resolved + 1, at - 1))
        fields == HeadersOf(parsed.lines)
    IN  IF at = 0 THEN Wait(p)
        ELSE IF ~parsed.ok THEN Fail(p)
        ELSE [p EXCEPT !.position = "kBody", !.headers = fields, !.success = TRUE,
                       !.resolved = at + 3, !.header = at + 3 - p.firstLine,
                       !.upgrade = IsUpgradeProtocol(p, fields)]

\* HttpParser::_ResolveBody.
_ResolveLengthBody_Early(p, buffer) ==
    [p EXCEPT !.position = "kEnd", !.success = TRUE, !.resolved = Len(buffer),
              !.body = SubSeq(buffer, p.firstLine + p.header + 1, Len(buffer))]
_ResolveLengthBody(p, buffer) ==
    LET now == [p EXCEPT !.resolved = Len(buffer)]
        curr == Len(buffer) - p.firstLine - p.header
    IN  IF p.headers.length = 0 THEN Fail(p)
        ELSE IF p.headers.length < curr THEN Fail(now)
        ELSE IF p.headers.length > curr THEN Wait(now)
        ELSE [now EXCEPT !.position = "kEnd", !.success = TRUE,
                         !.body = SubSeq(buffer, Len(buffer) - curr + 1, Len(buffer))]

\* A GET ends with its headers; everything else has a Content-Length.
_ResolveBody(p, buffer) ==
    IF p.kind = "request" /\ p.method = GetLine
    THEN IF Len(buffer) > p.resolved THEN Fail(p)
         ELSE [p EXCEPT !.position = "kEnd", !.success = TRUE]
    ELSE _ResolveLengthBody(p, buffer)

Step(p, buffer) ==
    CASE p.position \in {"kNone", "kFirstLine"} -> _ResolveFirstLine(p, buffer)
      [] p.position = "kHeaders" -> _ResolveHeaders(p, buffer)
      [] p.position = "kBody" -> _ResolveBody(p, buffer)
      [] OTHER -> Wait(p)

\* The next turn of DoParse's loop, if there is one.
Again(p, buffer) ==
    IF p.success /\ p.position \notin {"kEnd", "kError"} THEN Step(p, buffer) ELSE p

\* HttpParser::DoParse: at most one turn for each of the three parts.
DoParse(p, buffer) ==
    LET turn(ps) == {Again(q, buffer) : q \in ps}
    IN  IF Len(buffer) = p.resolved THEN p
        ELSE CHOOSE q \in turn(turn({Step(p, buffer)})) : TRUE

IsEnd(p) == p.position = "kEnd"
IsErr(p) == p.position = "kError"

\* ToString of RequestLine and StatusLine, and of HeaderField, as request::Pack
\* and response::Pack append them, with the body.
LineToString(line) == <<line>> \o CRLF
HeadersToString(headers) ==
    FlattenSeq([k \in DOMAIN headers |-> <<headers[k]>> \o CRLF]) \o CRLF
Pack(line, headers, body) == LineToString(line) \o HeadersToString(headers) \o body
=============================================================================
