---------------------------- MODULE AtomicRestore ----------------------------
(***************************************************************************)
(* What a restore promises: the service closes, the instance is replaced   *)
(* as a whole or not at all while it is closed, and the service opens      *)
(* again on one of the two.                                                *)
(***************************************************************************)
VARIABLES service, instance

vars == <<service, instance>>

Init == service = "open" /\ instance = "old"

Close ==
  /\ service = "open"
  /\ service' = "closed"
  /\ UNCHANGED instance

Replace ==
  /\ service = "closed"
  /\ instance = "old"
  /\ instance' = "new"
  /\ UNCHANGED service

Open ==
  /\ service = "closed"
  /\ service' = "open"
  /\ UNCHANGED instance

Next == Close \/ Replace \/ Open

Spec == Init /\ [][Next]_vars
=============================================================================
