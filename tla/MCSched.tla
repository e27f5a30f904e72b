------------------------------ MODULE MCSched ------------------------------
(* Sched on two or three interchangeable addresses. *)
EXTENDS Sched, TLC
CONSTANTS a1, a2, a3
TwoIPs   == {a1, a2}
ThreeIPs == {a1, a2, a3}
Sym2     == Permutations(TwoIPs)
Sym3     == Permutations(ThreeIPs)
OneRTT   == {80}
TwoRTTs  == {80, 600}
=============================================================================
