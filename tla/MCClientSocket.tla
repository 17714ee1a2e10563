---------------------------- MODULE MCClientSocket ----------------------------
(* An instance of ClientSocket for TLC. *)
EXTENDS ClientSocket
=============================================================================
