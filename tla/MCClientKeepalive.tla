------------------------- MODULE MCClientKeepalive --------------------------
(***************************************************************************)
(* A tick is 2.5 s of the default grace of 5 s, or the whole of a shorter  *)
(* one; 0 is the option that turns the grace off.  Callbacks may block one *)
(* phase of the loop for longer than interval and grace together.          *)
(***************************************************************************)
EXTENDS ClientKeepalive

CheckedGraces == {0, 1, 2}
=============================================================================
