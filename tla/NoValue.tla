------------------------------- MODULE NoValue -------------------------------
(* Go's nil, the empty string, and "not found", for the server's modules. *)
CONSTANT None
=============================================================================
