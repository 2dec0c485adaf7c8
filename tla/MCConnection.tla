---------------------------- MODULE MCConnection ----------------------------
(* Texts for TLC, over two values of a byte: a length whose low byte is 0   *)
(* (2), texts that would read as lengths, and one longer than the buffer.  *)
EXTENDS Connection

Frames == << <<1, 0>>, <<1>>, <<0, 1, 1>>, <<1, 1>> >>
=============================================================================
