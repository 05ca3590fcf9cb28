------------------------------ MODULE MCEngine ------------------------------
(* The engine for TLC: host and client without a sound card, and a host with *)
(* one; the callbacks of a client with one are the same.                     *)
EXTENDS Engine

SessionKinds ==
    {[role |-> r, headless |-> TRUE] : r \in {"host", "client"}}
        \cup {[role |-> "host", headless |-> FALSE]}
=============================================================================
