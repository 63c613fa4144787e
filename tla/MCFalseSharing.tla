--------------------------- MODULE MCFalseSharing ---------------------------
(* The benchmark with a few additions per thread *)
EXTENDS FalseSharing
=============================================================================
