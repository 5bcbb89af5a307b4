---------------------------- MODULE MCByteBuffer ----------------------------
(***************************************************************************)
(* Instantiates ByteBuffer for TLC: two byte values (the 0 and 0xFF of the *)
(* tests) and every string of them up to one byte longer than the buffer.  *)
(***************************************************************************)
EXTENDS ByteBuffer

MCBytes == {0, 255}

MCInputs == UNION {[1..n -> MCBytes] : n \in 0..Capacity + 1}
=============================================================================
