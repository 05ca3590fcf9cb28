------------------------------ MODULE MCRoster ------------------------------
(* The roster for TLC: names, as the widths of their characters, that fit, that *)
(* end with the last byte, and whose last character does not fit.               *)
EXTENDS Roster

HostNameIs == <<2, 2>>
MyNameIs == <<1, 3>>
OtherNamesAre == {<<1>>, <<2, 1, 1>>}
=============================================================================
