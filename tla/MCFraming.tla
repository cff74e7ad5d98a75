----------------------------- MODULE MCFraming ------------------------------
(***************************************************************************)
(* A finite instance of Framing for TLC, with small widths: a byte holds   *)
(* 0..7, a message of 7 bytes is the longest.                              *)
(***************************************************************************)
EXTENDS Framing

Lengths == {0, 1, MESSAGE_BUFFERSIZE - HeaderLen - 1}
=============================================================================
