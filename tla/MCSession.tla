----------------------------- MODULE MCSession -----------------------------
(* The session with every line and call at any time, on a small instance.  *)
EXTENDS RetransmitBudget
=============================================================================
