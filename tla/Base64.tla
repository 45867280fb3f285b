------------------------------- MODULE Base64 -------------------------------
(***************************************************************************)
(* utils/base64.cc: the encoding the WebSocket handshake answers with, and *)
(* its decoder.  Bytes and characters are numbers; the state of each loop  *)
(* is a record that a fold carries along.                                  *)
(***************************************************************************)
EXTENDS Integers, Sequences, SequencesExt

padding == 61

encode_table ==
    [v \in 0..63 |-> CASE v < 26 -> 65 + v
                       [] v \in 26..51 -> 97 + v - 26
                       [] v \in 52..61 -> 48 + v - 52
                       [] v = 62 -> 43
                       [] v = 63 -> 47]

\* 255 indicates error.
decode_table ==
    [c \in 0..127 |-> CASE c = 43 -> 62
                        [] c = 47 -> 63
                        [] c \in 48..57 -> c + 4
                        [] c \in 65..90 -> c - 65
                        [] c \in 97..122 -> c - 71
                        [] OTHER -> 255]

\* One turn of Encode's loop.
EncodeByte(e, curr) ==
    CASE e.where = 0 -> [res |-> Append(e.res, encode_table[curr \div 4]),
                         where |-> 1, last |-> curr]
      [] e.where = 1 -> [res |-> Append(e.res, encode_table[((e.last % 4) * 16) + (curr \div 16)]),
                         where |-> 2, last |-> curr]
      [] e.where = 2 -> [res |-> e.res \o <<encode_table[((e.last % 16) * 4) + (curr \div 64)],
                                            encode_table[curr % 64]>>,
                         where |-> 0, last |-> curr]

\* What is left of the last byte, and the padding.
EncodeTail_NoRest(e) ==
    CASE e.where = 0 -> <<>> [] e.where = 1 -> <<padding, padding, padding>>
      [] e.where = 2 -> <<padding, padding>>
EncodeTail(e) ==
    CASE e.where = 0 -> <<>>
      [] e.where = 1 -> <<encode_table[(e.last % 4) * 16], padding, padding>>
      [] e.where = 2 -> <<encode_table[(e.last % 16) * 4], padding>>

Encode(in) ==
    LET e == FoldLeft(EncodeByte, [res |-> <<>>, where |-> 0, last |-> 0], in)
    IN  e.res \o EncodeTail(e)

\* One turn of Decode's loop, on the value of a character.
DecodeChar(d, curr) ==
    CASE d.where = 0 -> [res |-> d.res, where |-> 1, last |-> curr]
      [] d.where = 1 -> [res |-> Append(d.res, ((d.last * 4) % 256) + (curr \div 16)),
                         where |-> 2, last |-> curr]
      [] d.where = 2 -> [res |-> Append(d.res, ((d.last % 16) * 16) + (curr \div 4)),
                         where |-> 3, last |-> curr]
      [] d.where = 3 -> [res |-> Append(d.res, ((d.last % 4) * 64) + curr),
                         where |-> 0, last |-> curr]

\* Decode stops at the first padding; "thrown" for a length or a character it
\* refuses.
Decode(in) ==
    LET stop  == SelectInSeq(in, LAMBDA c : c = padding)
        chars == IF stop = 0 THEN in ELSE SubSeq(in, 1, stop - 1)
        curr  == [i \in DOMAIN chars |-> decode_table[chars[i]]]
    IN  IF Len(in) % 4 # 0 \/ \E i \in DOMAIN curr : curr[i] = 255
        THEN [thrown |-> TRUE, res |-> <<>>]
        ELSE [thrown |-> FALSE,
              res |-> FoldLeft(DecodeChar, [res |-> <<>>, where |-> 0, last |-> 255], curr).res]
=============================================================================
