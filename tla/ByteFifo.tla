------------------------------ MODULE ByteFifo ------------------------------
(***************************************************************************)
(* What the byte buffer (avs_buffer_t) promises its users, after spec.md 6 *)
(* and 9: a bounded first-in first-out sequence of bytes.  Where the bytes *)
(* lie in memory, and when they are moved to the front, is hidden.         *)
(*                                                                         *)
(* op is the call being made, with its arguments: the verdict of a call    *)
(* (ret, 0 or -1) is a function of the call and the contents.              *)
(***************************************************************************)
EXTENDS Integers, Sequences

CONSTANTS
  Capacity    \* the size the buffer was created with

VARIABLES
  alive,      \* the buffer pointer is not NULL
  q,          \* the bytes held, oldest first
  ret,        \* what the last call returned
  op          \* the last call: [name, data, n]

avars == <<alive, q, ret, op>>

Init ==
  /\ ~alive
  /\ q = <<>>
  /\ ret = 0
  /\ op = [name |-> "none", data |-> <<>>, n |-> 0]

\* avs_buffer_create: an empty buffer, or NULL and -1.
Create ==
  /\ ~alive /\ op'.name = "create"
  /\ q' = <<>>
  /\ ret' = IF alive' THEN 0 ELSE -1

\* avs_buffer_free and avs_buffer_reset drop every byte.
Free  == alive /\ op'.name = "free" /\ ~alive' /\ q' = <<>> /\ UNCHANGED ret
Reset == alive /\ op'.name = "reset" /\ alive' /\ q' = <<>> /\ UNCHANGED ret

\* Appending (append_bytes, fill_bytes) succeeds exactly when the bytes fit
\* in what is free, and then adds them at the end; a failure changes nothing.
AppendData ==
  /\ alive /\ alive' /\ op'.name = "append"
  /\ IF Len(q) + Len(op'.data) <= Capacity
     THEN q' = q \o op'.data /\ ret' = 0
     ELSE q' = q /\ ret' = -1

\* Consuming n bytes succeeds exactly when n bytes are held, and drops the
\* n oldest.
ConsumeData ==
  /\ alive /\ alive' /\ op'.name = "consume"
  /\ IF op'.n <= Len(q)
     THEN q' = SubSeq(q, op'.n + 1, Len(q)) /\ ret' = 0
     ELSE q' = q /\ ret' = -1

\* advance_ptr(n) declares n bytes at the end written, whatever they hold;
\* it may refuse (when the free space is not at the end), changing nothing,
\* and it never lets the contents exceed the capacity.
Advance ==
  /\ alive /\ alive' /\ op'.name = "advance"
  /\ \/ /\ Len(q') = Len(q) + op'.n /\ Len(q') <= Capacity
        /\ SubSeq(q', 1, Len(q)) = q
        /\ ret' = 0
     \/ q' = q /\ ret' = -1

\* Writing at raw_insert_ptr as many bytes as space_left reports, then
\* advancing by them, always succeeds and appends exactly those bytes.
RawWrite ==
  /\ alive /\ alive' /\ op'.name = "raw"
  /\ Len(q) + Len(op'.data) <= Capacity
  /\ q' = q \o op'.data
  /\ ret' = 0

\* Compacting the buffer changes nothing its users see.
Defragment ==
  /\ alive /\ op'.name = "defragment"
  /\ UNCHANGED <<alive, q, ret>>

Next == Create \/ Free \/ Reset \/ AppendData \/ ConsumeData \/ Advance \/ RawWrite
        \/ Defragment

Spec == Init /\ [][Next]_avars

=============================================================================
