---------------------------- MODULE MessageStream ----------------------------
(***************************************************************************)
(* What a connection promises to the workers: the messages the peer sent,  *)
(* handed on one at a time, in order, each once, whatever the pieces their *)
(* bytes came in.  Receiving may stop at any time.                         *)
(***************************************************************************)
EXTENDS Naturals, Sequences

VARIABLES messages, received

StreamInit == received = <<>>

Deliver ==
    /\ Len(received) < Len(messages)
    /\ received' = Append(received, messages[Len(received) + 1])
    /\ UNCHANGED messages

StreamSpec == StreamInit /\ [][Deliver]_<<messages, received>>
=============================================================================
