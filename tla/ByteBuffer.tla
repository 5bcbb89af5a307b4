----------------------------- MODULE ByteBuffer -----------------------------
(***************************************************************************)
(* The byte buffer avs_buffer_t, from what its unit tests                  *)
(* (src/buffer/src/test/test_buffer.c) assert of its calls and of its      *)
(* fields, and from spec.md 6 and 9; buffer.c itself is not in the         *)
(* repository.  The buffer owns Capacity bytes of storage (buffer->data);  *)
(* the bytes held lie between the offsets begin and end.  Consuming moves  *)
(* begin forward; free space before begin is reclaimed by                  *)
(* defragment_buffer(), which moves the bytes held to the front.           *)
(*                                                                         *)
(* Memory the buffer never wrote holds arbitrary bytes: the storage of a   *)
(* new buffer is any function into Bytes.  op records the call being made  *)
(* and its arguments; overflow records a write past the storage.          *)
(***************************************************************************)
EXTENDS Integers, Sequences

CONSTANTS
  Capacity,   \* the size passed to avs_buffer_create
  Bytes,      \* the byte values the model tells apart
  Inputs      \* the byte strings a caller appends or writes

ASSUME Capacity \in Nat \ {0}

VARIABLES
  buffer,     \* the avs_buffer_t pointer is not NULL
  storage,    \* buffer->data[0 .. Capacity-1]
  begin,      \* buffer->begin - buffer->data
  end,        \* buffer->end - buffer->data
  ret,        \* what the last call returned
  op,         \* the last call: [name, data, n]
  overflow    \* history: a write went past buffer->data + Capacity

vars == <<buffer, storage, begin, end, ret, op, overflow>>

Offsets == 0..Capacity - 1
Call(name, data, n) == op' = [name |-> name, data |-> data, n |-> n]

\* avs_buffer_data_size: end - begin.
DataSize == end - begin

\* avs_buffer_space_left: everything that is not data, before begin included.
SpaceLeft == Capacity - DataSize

\* space_left_without_moving: the room after end.
SpaceLeftWithoutMoving == Capacity - end

\* The bytes held, oldest first.
Contents == [i \in 1..DataSize |-> storage[begin + i - 1]]

\* Mutant: begin and end are moved to the front but the bytes are not.
Defragmented_no_memmove(st, b, e) == [st |-> st, begin |-> 0, end |-> e - b]

\* defragment_buffer(): memmove(data, begin, size); begin = data; end = data
\* + size.  The bytes past the new end keep what they held.
Defragmented(st, b, e) ==
  [st |-> [i \in Offsets |-> IF i < e - b THEN st[b + i] ELSE st[i]],
   begin |-> 0, end |-> e - b]

\* The bytes s written from offset e on; overflow when they do not fit.
Written(st, e, s) ==
  [i \in Offsets |-> IF e <= i /\ i < e + Len(s) THEN s[i - e + 1] ELSE st[i]]

\* The common part of append_bytes and fill_bytes: fails when the bytes do
\* not fit in space_left; otherwise the buffer is defragmented if the room
\* after end is too small, and the bytes are copied to end.
Insert(s) ==
  IF Len(s) > SpaceLeft
  THEN ret' = -1 /\ UNCHANGED <<storage, begin, end, overflow>>
  ELSE LET d == IF Len(s) > SpaceLeftWithoutMoving
                THEN Defragmented(storage, begin, end)
                ELSE [st |-> storage, begin |-> begin, end |-> end]
       IN  /\ storage' = Written(d.st, d.end, s)
           /\ begin' = d.begin
           /\ end' = d.end + Len(s)
           /\ ret' = 0
           /\ UNCHANGED overflow

-----------------------------------------------------------------------------
(* The calls.                                                              *)

\* avs_buffer_create: malloc of the buffer and its storage, which may fail.
BufferCreate ==
  /\ ~buffer
  /\ Call("create", <<>>, 0)
  /\ \E ok \in BOOLEAN :
       /\ buffer' = ok
       /\ ret' = IF ok THEN 0 ELSE -1
  /\ storage' \in [Offsets -> Bytes]
  /\ begin' = 0 /\ end' = 0
  /\ UNCHANGED overflow

\* avs_buffer_free(&buffer): the memory is released, buffer becomes NULL.
BufferFree ==
  /\ buffer
  /\ Call("free", <<>>, 0)
  /\ buffer' = FALSE
  /\ UNCHANGED <<storage, begin, end, ret, overflow>>

\* avs_buffer_reset: begin = end = data.
BufferReset ==
  /\ buffer
  /\ Call("reset", <<>>, 0)
  /\ begin' = 0 /\ end' = 0
  /\ UNCHANGED <<buffer, storage, ret, overflow>>

\* avs_buffer_append_bytes(buffer, data, len)
AppendBytes ==
  /\ buffer
  /\ \E s \in Inputs : Call("append", s, Len(s)) /\ Insert(s)
  /\ UNCHANGED buffer

\* avs_buffer_fill_bytes(buffer, value, len): len copies of value.
FillBytes ==
  /\ buffer
  /\ \E v \in Bytes, n \in 0..Capacity + 1 :
       LET s == [i \in 1..n |-> v] IN Call("append", s, n) /\ Insert(s)
  /\ UNCHANGED buffer

\* avs_buffer_consume_bytes(buffer, n): fails when n > data_size; begin
\* moves forward (the storage is not moved, nor begin reset when empty).
ConsumeBytes ==
  /\ buffer
  /\ \E n \in 0..Capacity + 1 :
       /\ Call("consume", <<>>, n)
       /\ IF n > DataSize
          THEN ret' = -1 /\ UNCHANGED begin
          ELSE ret' = 0 /\ begin' = begin + n
  /\ UNCHANGED <<buffer, storage, end, overflow>>

\* Mutant: advance_ptr checks n against space_left, the room before begin
\* included.
AdvancePtr_checks_space_left ==
  /\ buffer
  /\ \E n \in 0..Capacity + 1 :
       /\ Call("advance", <<>>, n)
       /\ IF n > SpaceLeft
          THEN ret' = -1 /\ UNCHANGED end
          ELSE ret' = 0 /\ end' = end + n
  /\ UNCHANGED <<buffer, storage, begin, overflow>>

\* avs_buffer_advance_ptr(buffer, n): the n bytes after end become data,
\* whatever they hold; fails when they are not all inside the storage.
AdvancePtr ==
  /\ buffer
  /\ \E n \in 0..Capacity + 1 :
       /\ Call("advance", <<>>, n)
       /\ IF n > SpaceLeftWithoutMoving
          THEN ret' = -1 /\ UNCHANGED end
          ELSE ret' = 0 /\ end' = end + n
  /\ UNCHANGED <<buffer, storage, begin, overflow>>

\* Mutant: raw_insert_ptr returns end without defragmenting first.
RawInsertPtr_no_defragment(st, b, e) == [st |-> st, begin |-> b, end |-> e]

\* avs_buffer_raw_insert_ptr: the buffer is defragmented and end returned.
RawInsertPtr(st, b, e) == Defragmented(st, b, e)

\* The raw-write protocol of a caller: p = raw_insert_ptr(buffer); at most
\* space_left(buffer) bytes are copied to p; advance_ptr(buffer, len).
RawWrite ==
  /\ buffer
  /\ \E s \in Inputs :
       /\ Len(s) <= SpaceLeft
       /\ Call("raw", s, Len(s))
       /\ LET d == RawInsertPtr(storage, begin, end) IN
          /\ storage' = Written(d.st, d.end, s)
          /\ begin' = d.begin
          /\ overflow' = (overflow \/ d.end + Len(s) > Capacity)
          /\ IF Len(s) > Capacity - d.end
             THEN ret' = -1 /\ end' = d.end
             ELSE ret' = 0 /\ end' = d.end + Len(s)
  /\ UNCHANGED buffer

\* defragment_buffer(), which the tests call directly.
DefragmentBuffer ==
  /\ buffer
  /\ Call("defragment", <<>>, 0)
  /\ LET d == Defragmented(storage, begin, end) IN
     storage' = d.st /\ begin' = d.begin /\ end' = d.end
  /\ UNCHANGED <<buffer, ret, overflow>>

Init ==
  /\ buffer = FALSE
  /\ storage \in [Offsets -> Bytes]
  /\ begin = 0 /\ end = 0
  /\ ret = 0
  /\ op = [name |-> "none", data |-> <<>>, n |-> 0]
  /\ overflow = FALSE

Next ==
  \/ BufferCreate \/ BufferFree \/ BufferReset \/ AppendBytes \/ FillBytes
  \/ ConsumeBytes \/ AdvancePtr \/ RawWrite \/ DefragmentBuffer

Spec == Init /\ [][Next]_vars

-----------------------------------------------------------------------------
(* Properties.                                                             *)

TypeOK ==
  /\ buffer \in BOOLEAN
  /\ storage \in [Offsets -> Bytes]
  /\ begin \in 0..Capacity /\ end \in begin..Capacity
  /\ ret \in {0, -1}
  /\ overflow \in BOOLEAN

\* The pointer raw_insert_ptr returns has space_left bytes of storage after
\* it: a caller that copies as many bytes as avs_buffer_space_left reports
\* never writes past the end of buffer->data, whatever appends, consumes
\* and advances came before.
NoOutOfBoundsWrite == ~overflow

\* The buffer is a bounded FIFO: through every sequence of appends, fills,
\* consumes, advances, raw writes, resets and defragmentations, the bytes
\* between begin and end are exactly the bytes appended and not yet
\* consumed, and each call succeeds or fails as the FIFO says.
Fifo == INSTANCE ByteFifo
          WITH alive <- buffer,
               q     <- IF buffer THEN Contents ELSE <<>>

ImplementsByteFifo == Fifo!Spec

=============================================================================
