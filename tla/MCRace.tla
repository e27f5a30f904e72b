------------------------------- MODULE MCRace -------------------------------
(* Race with two or three connections on two interchangeable addresses. *)
EXTENDS Race, TLC
CONSTANTS a1, a2, a3, c1, c2, c3
OneIP      == {a1}
TwoIPs     == {a1, a2}
ThreeIPs   == {a1, a2, a3}
OneConn    == {c1}
TwoConns   == {c1, c2}
ThreeConns == {c1, c2, c3}
OneRTT     == {80}
SymRace    == Permutations(TwoIPs) \cup Permutations(TwoConns)
=============================================================================
