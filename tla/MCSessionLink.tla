--------------------------- MODULE MCSessionLink ---------------------------
(* Four packets over a counter of two values: it wraps within the run.    *)
EXTENDS SessionLink

MCBody == 1 .. Last
=============================================================================
