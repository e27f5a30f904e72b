---------------------------- MODULE MCSelfUpdate ----------------------------
(* SelfUpdate with up to three releases, of which one does not start. *)
EXTENDS SelfUpdate
CONSTANTS s1, s2
OneServe  == {s1}
NoFault   == {}
AllFaults == FaultKinds
OneDead   == {3}
NoneDead  == {}
=============================================================================
