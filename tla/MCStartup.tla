------------------------------ MODULE MCStartup ------------------------------
(* A container and an instance beside it. *)
EXTENDS Startup
=============================================================================
