------------------------------- MODULE UBootEnv -------------------------------
(***************************************************************************)
(* The dual-boot decision of the U-Boot environment script (mmcargs and    *)
(* db_swap_requested): which half is booted, and what is saved about it.   *)
(***************************************************************************)
EXTENDS DualStore

(* Faulty: the ids are loaded and not compared. *)
FallbackEligible_AnyIds ==
  env.last # "unset" /\ ids["a"] # NoId /\ ids["b"] # NoId

(* The last boot was not flagged as successful, and the two id files can be *)
(* loaded and are equal.                                                    *)
FallbackEligible ==
  /\ env.last # "unset"
  /\ ids["a"] # NoId /\ ids["b"] # NoId
  /\ ids["a"] = ids["b"]

DbSwapRequested == env.attempt \/ FallbackEligible

(* Faulty: an unset db_active_half is passed on. *)
ActiveHalf_Raw == env.active

(* db_active_half, where anything but b means a. *)
ActiveHalf == IF env.active = "b" THEN "b" ELSE "a"

(* The half mmcargs selects. *)
Selected ==
  IF env.force THEN "a"
  ELSE IF DbSwapRequested THEN Other(ActiveHalf) ELSE ActiveHalf

(* Faulty: the request is consumed by the switch it causes. *)
Mmcargs_OneShot ==
  /\ phase = "off"
  /\ env' = [env EXCEPT !.active = Selected, !.last = Selected, !.attempt = FALSE]
  /\ cmd' = [half |-> Selected, force |-> env.force]
  /\ phase' = "initram"
  /\ UNCHANGED <<disk, staged, ids>>

(* mmcargs: select, save the environment, pass the decision to the kernel.  *)
Mmcargs ==
  /\ phase = "off"
  /\ env' = [env EXCEPT !.active = Selected, !.last = Selected]
  /\ cmd' = [half |-> Selected, force |-> env.force]
  /\ phase' = "initram"
  /\ UNCHANGED <<disk, staged, ids>>
===============================================================================
