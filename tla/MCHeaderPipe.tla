----------------------------- MODULE MCHeaderPipe ----------------------------
(***************************************************************************)
(* HeaderPipe for TLC: a body larger than the buffer, an empty one, and a  *)
(* length no body can have.                                                *)
(***************************************************************************)
EXTENDS HeaderPipe

MCLengths == {-1, 0, 3}
=============================================================================
