---------------------------- MODULE MCDownload ----------------------------
(* Download of a file of four blocks; the CDN may hold the same copy, an   *)
(* older one of the same length and a longer one.                          *)
EXTENDS Download, TLC
CONSTANTS origin, older, longer
AllCopies == {origin, older, longer}
Lengths   == origin :> 4 @@ older :> 4 @@ longer :> 5
Tags      == origin :> "o" @@ older :> "s" @@ longer :> "l"
Served    == [ch \in {"A", "B"} |-> IF ch = "A" THEN {origin} ELSE AllCopies]
NoTotal   == {"no_total"}
NoRange   == {"no_range"}
=============================================================================
