--------------------------- MODULE ImageRegister ---------------------------
(***************************************************************************)
(* What the journaled image operation promises its owner, with the ledger, *)
(* the network and every crash hidden: the image changes only while one    *)
(* attempt is open, and an attempt is closed only by agreeing on what is   *)
(* there.                                                                  *)
(***************************************************************************)
VARIABLES
  image,     \* what is on the target: "absent" or "present"
  believed,  \* what the closed attempts add up to
  open       \* the direction of the open attempt, or "none"

vars == <<image, believed, open>>

Outcome(direction) == IF direction = "apply" THEN "present" ELSE "absent"

Init == image = "absent" /\ believed = "absent" /\ open = "none"

(* A new attempt, never one that would repeat what is believed done.       *)
Start(d) ==
  /\ open = "none" /\ Outcome(d) # believed
  /\ open' = d
  /\ UNCHANGED <<image, believed>>

(* The image moves, or a power loss takes an unsynced move back.           *)
Change ==
  /\ open # "none"
  /\ image' \in {"absent", "present"}
  /\ UNCHANGED <<believed, open>>

(* The attempt took effect: acknowledged, or fenced as completed.          *)
Close ==
  /\ open # "none" /\ image = Outcome(open)
  /\ believed' = image /\ open' = "none"
  /\ UNCHANGED image

(* The attempt never started and never will.                               *)
Cancel ==
  /\ open # "none" /\ image = believed
  /\ open' = "none"
  /\ UNCHANGED <<image, believed>>

Next == (\E d \in {"apply", "restore"} : Start(d)) \/ Change \/ Close \/ Cancel

Spec == Init /\ [][Next]_vars
=============================================================================
