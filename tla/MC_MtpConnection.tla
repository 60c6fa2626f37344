------------------------- MODULE MC_MtpConnection -------------------------
(* A client of a server that may know it as two peers in a row.  See README. *)
EXTENDS MtpConnection
=============================================================================
