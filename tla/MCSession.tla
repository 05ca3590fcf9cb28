----------------------------- MODULE MCSession -----------------------------
(* The session for TLC: clients are interchangeable where all of them know  *)
(* the room code.                                                           *)
EXTENDS Session, TLC

ClientSymmetry == Permutations(Clients)
=============================================================================
