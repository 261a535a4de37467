----------------------------- MODULE MCRealtime ------------------------------
(***************************************************************************)
(* Small instances of Realtime for TLC.                                    *)
(***************************************************************************)
EXTENDS Realtime, TLC

CONSTANT w1

OneWorkspace == [c \in Conn |-> w1]
Publishers   == Permutations(Publisher)
=============================================================================
