--------------------------- MODULE MCTcpConnection ---------------------------
(***************************************************************************)
(* Instances of TcpConnection: clients with a POST, an upgrade followed by *)
(* plain and masked frames and a close frame, and malformed requests.      *)
(***************************************************************************)
EXTENDS TcpConnection

Http(line, headers, body) == [line |-> line, headers |-> headers, body |-> body, frames |-> <<>>]

Upgraded(frames) ==
    [line |-> GetLine, headers |-> <<HostHeader, UpgradeHeader>>, body |-> <<>>, frames |-> frames]

Plain == [opcode |-> kOpcodeText, masked |-> FALSE, key |-> <<>>, payload |-> <<1, 2>>]
Masked == [opcode |-> kOpcodeText, masked |-> TRUE, key |-> <<1, 2, 3, 4>>, payload |-> <<7, 9>>]
Close == [opcode |-> kOpcodeConnectionClose, masked |-> FALSE, key |-> <<>>, payload |-> <<3, 232>>]

AllScripts == {
    Http(PostLine, <<HostHeader, LengthHeader(2)>>, <<CR, LF>>),
    Http(JunkLine, <<HostHeader, HostHeader>>, <<>>),
    Http(GetLine, <<HostHeader, JunkHeader>>, <<>>),
    Http(PostLine, <<HostHeader, KeyHeader>>, <<>>),
    Upgraded(<<Plain, Masked>>),
    Upgraded(<<Plain, Close>>)}

PostScript == {Http(PostLine, <<HostHeader, LengthHeader(2)>>, <<CR, LF>>)}
=============================================================================
