------------------------------ MODULE MCServer -------------------------------
(***************************************************************************)
(* A small instance of Server, with the tickets of Sessions, for TLC.      *)
(***************************************************************************)
EXTENDS Server
=============================================================================
