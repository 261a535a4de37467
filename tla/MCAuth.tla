------------------------------- MODULE MCAuth --------------------------------
(***************************************************************************)
(* A small instance of Auth, with the create-user commands it depends on.  *)
(***************************************************************************)
EXTENDS Auth, TLC

NoUsers == {}

Interchangeable == Permutations(Req) \cup Permutations(Cmd) \cup Permutations(Token)
=============================================================================
