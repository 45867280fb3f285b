----------------------------- MODULE AutoBuffer -----------------------------
(***************************************************************************)
(* utils/autobuffer.cc: a byte array with a capacity that grows by whole   *)
(* allocation units, a write end (its length) and a read position.  A      *)
(* buffer is the record of its bytes, its position and its capacity.       *)
(***************************************************************************)
EXTENDS Integers, Sequences

CONSTANT kMallocUnit    \* malloc_unit_size_

ASSUME UnitAssumption == kMallocUnit \in Nat \ {0}

EmptyBuffer == [bytes |-> <<>>, pos |-> 0, capacity |-> 0]

Length(b) == Len(b.bytes)

AvailableSize(b) == b.capacity - Length(b)

\* The size that is really added: the next multiple of the unit.
RoundUp_Down(size) == (size \div kMallocUnit) * kMallocUnit
RoundUp(size) ==
    IF size % kMallocUnit # 0 THEN (size \div kMallocUnit + 1) * kMallocUnit ELSE size

AddCapacity(b, size) ==
    IF size <= 0 THEN b ELSE [b EXCEPT !.capacity = @ + RoundUp(size)]

\* The bytes a read(2) put behind the end, counted in by AddLength.
AddLength(b, new) == [b EXCEPT !.bytes = @ \o new]

Write(b, new) ==
    IF new = <<>> THEN b
    ELSE AddLength(IF b.capacity < Length(b) + Len(new)
                       THEN AddCapacity(b, Length(b) + Len(new) - b.capacity)
                       ELSE b, new)

SeekCurrent_Stay(b, n) == b
SeekCurrent(b, n) == [b EXCEPT !.pos = @ + n]

SeekEnd(b) == [b EXCEPT !.pos = Length(b)]

Reset(b) == EmptyBuffer
=============================================================================
