------------------------------- MODULE StrUtil -------------------------------
(***************************************************************************)
(* The string helpers of utils/strutil.cc on sequences of bytes.  A string *)
(* is a sequence whose members are bytes (0..255) or texts (256 and above, *)
(* each a run of bytes that contains none of the separators searched for). *)
(***************************************************************************)
EXTENDS Integers, Sequences, SequencesExt, FiniteSetsExt

\* Whether sep stands at position i of s.
StandsAt(s, sep, i) == SubSeq(s, i, i + Len(sep) - 1) = sep

\* The position (from 1) of the first needle after the first `from` bytes of
\* haystack, 0 for the nullptr: a NUL byte ends the search.
strnstr(haystack, from, needle) ==
    LET hits == {i \in (from + 1)..(Len(haystack) - Len(needle) + 1) :
                    /\ StandsAt(haystack, needle, i)
                    /\ \A j \in (from + 1)..(i + Len(needle) - 1) : haystack[j] # 0}
    IN  IF hits = {} THEN 0 ELSE Min(hits)

\* The non-empty pieces of src between separators.  The piece after the last
\* separator is kept only when an earlier piece was (`has`): a src without a
\* separator has no pieces at all.
split(src, separator) ==
    LET cuts   == SetToSortSeq({i \in 1..(Len(src) - Len(separator) + 1) :
                                    StandsAt(src, separator, i)}, <)
        from(k) == IF k = 1 THEN 1 ELSE cuts[k - 1] + Len(separator)
        closed == SelectSeq([k \in 1..Len(cuts) |-> SubSeq(src, from(k), cuts[k] - 1)],
                            LAMBDA piece : piece # <<>>)
        last   == SubSeq(src, from(Len(cuts) + 1), Len(src))
    IN  IF closed = <<>> \/ last = <<>> THEN closed ELSE Append(closed, last)

\* str without the first `whence` and all that follows it.
delafter(str, whence) ==
    IF whence \in Range(str) THEN SubSeq(str, 1, SelectInSeq(str, LAMBDA b : b = whence) - 1)
    ELSE str

\* str without the spaces at its ends.
trim(str, space) ==
    LET kept == {i \in DOMAIN str : str[i] # space}
    IN  IF kept = {} THEN <<>> ELSE SubSeq(str, Min(kept), Max(kept))
=============================================================================
