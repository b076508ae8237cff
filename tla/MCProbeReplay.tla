--------------------------- MODULE MCProbeReplay ---------------------------
(* A picture of four columns with a box of two, a turn of three phase steps *)
(* and a frame counter that wraps: every bound is a frame or two away.      *)
EXTENDS ProbeReplay
=============================================================================
