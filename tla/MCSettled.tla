----------------------------- MODULE MCSettled -----------------------------
(* The session with its history of settled clients, for TLC.               *)
EXTENDS Settled, TLC

ClientSymmetry == Permutations(Clients)
=============================================================================
