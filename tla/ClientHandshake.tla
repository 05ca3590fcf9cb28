-------------------------- MODULE ClientHandshake --------------------------
(***************************************************************************)
(* ClientHandshake of jam-protocol/src/handshake.rs: the join state        *)
(* machine of a client, as a pure function of its phase.                   *)
(***************************************************************************)
EXTENDS Integers

CONSTANTS CONTROL_RETRY, CONTROL_MAX_TRIES

\* start: the phase after the first HELLO.
Joining == [phase |-> "Joining", tx |-> 0, tries |-> 1]
Joined == [phase |-> "Joined"]
Failed(why) == [phase |-> "Failed", why |-> why]

Phases == [phase : {"Joining"}, tx : 0 .. CONTROL_RETRY, tries : 1 .. CONTROL_MAX_TRIES]
          \cup {Joined, Failed("Denied"), Failed("Timeout")}

\* Fault: the last try is never given up.
gives_up_never(cs) == FALSE

\* A HELLO is due, and there is a try left for it, or none is.
hello_due(cs) == cs.phase = "Joining" /\ cs.tx >= CONTROL_RETRY
gives_up(cs) == hello_due(cs) /\ cs.tries >= CONTROL_MAX_TRIES
resends(cs) == hello_due(cs) /\ cs.tries < CONTROL_MAX_TRIES

tick(cs) ==
    CASE gives_up(cs) -> Failed("Timeout")
      [] resends(cs) -> [cs EXCEPT !.tx = 0, !.tries = @ + 1]
      [] OTHER -> cs

\* WELCOME and DENY count only while joining.
on_control(cs, kind) ==
    CASE cs.phase = "Joining" /\ kind = "Welcome" -> Joined
      [] cs.phase = "Joining" /\ kind = "Deny" -> Failed("Denied")
      [] OTHER -> cs

PhaseOlder(cs) ==
    IF cs.phase = "Joining" /\ cs.tx < CONTROL_RETRY THEN [cs EXCEPT !.tx = @ + 1] ELSE cs
=============================================================================
