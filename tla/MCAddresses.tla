---------------------------- MODULE MCAddresses ----------------------------
(* Addresses with a serve, its update runner and a one-shot process. *)
EXTENDS Addresses, TLC

\* The networks of the meta API are not what DNS answers.
TwoLists == [s \in {"meta", "doh", "seeds"} |-> IF s = "doh" THEN {"b"} ELSE {"a"}]

InServe == [p \in Scheds |-> IF p = "update" THEN "serve" ELSE None]
=============================================================================
