--------------------------------- MODULE Access ---------------------------------
(* What the rest of uProxy may count on about getting access from an          *)
(* instance: how its GettingState (interfaces/social.ts) moves.  Access that  *)
(* could not be had ends in NONE, access that was there and broke in FAILED,  *)
(* and only what has FAILED is RETRYING: the user is asked about an access    *)
(* that was lost, never about one that was not had.                           *)
(*                                                                            *)
(* An attempt may succeed in any state: the end of an earlier attempt may     *)
(* have taken the state of the one that succeeds (remote-connection.ts:381).  *)
VARIABLE state

Init == state = "NONE"

Try == state = "NONE" /\ state' = "TRYING_TO_GET_ACCESS"
Succeed == state' = "GETTING_ACCESS"
Break == state \in {"GETTING_ACCESS", "RETRYING"} /\ state' = "FAILED"
Retry == state = "FAILED" /\ state' = "RETRYING"
End == state' = "NONE"

Next == Try \/ Succeed \/ Break \/ Retry \/ End

Spec == Init /\ [][Next]_state
================================================================================
