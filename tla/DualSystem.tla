------------------------------ MODULE DualSystem ------------------------------
(***************************************************************************)
(* The dual-boot system: U-Boot, the initramfs, the first initialization,   *)
(* the two update tools and the application, over the same disk and the     *)
(* same U-Boot environment, with power that may fail between any two steps. *)
(***************************************************************************)
EXTENDS UBootEnv, InitRam, DualToolClone, XdeltaApply, FirstInit

CONSTANTS
  BadVersions,  \* the versions whose boot assets do not boot
  Exclusive,    \* the operator runs one tool at a time (the tools have no lock)
  AllowForce    \* the operator uses db_force_single

ASSUME SystemAssumption ==
  BadVersions \subseteq Versions /\ Exclusive \in BOOLEAN /\ AllowForce \in BOOLEAN

vars == <<store, init, clone, xdelta, firstPending, firstPc>>

TypeOK ==
  StoreTypeOK /\ InitRamTypeOK /\ CloneTypeOK /\ XdeltaTypeOK /\ FirstTypeOK

(* What half h needs to come up.                                             *)
Bootable(h) == \A l \in BootLocs : disk[h][l] \in Versions \ BadVersions

(* The factory image boots from either half. *)
Init ==
  /\ StoreInit /\ InitRamInit /\ CloneInit /\ XdeltaInit /\ FirstInitInit
  /\ \A h \in Halves : Bootable(h)

NoTool == clone.pc = "idle" /\ xdelta.pc = "idle" /\ firstPc = "idle"

(* The processes of a boot end with it. *)
Down ==
  /\ phase' = "off"
  /\ init' = Idle /\ clone' = CloneIdle /\ xdelta' = XdeltaIdle /\ firstPc' = "idle"
  /\ UNCHANGED <<disk, staged, ids, env, cmd, firstPending>>

(* Power fails, the watchdog fires or somebody reboots, at any moment.      *)
PowerOff == phase # "off" /\ Down

(* The boot of a half that cannot boot ends in the watchdog reset; any boot *)
(* may also fail for reasons of its own, as PowerOff.                       *)
BootFails == phase = "mount" /\ ~Bootable(cmd.half) /\ Down

BootSucceeds ==
  /\ phase = "mount" /\ Bootable(cmd.half)
  /\ phase' = "up"
  /\ UNCHANGED <<disk, staged, ids, env, cmd, init, clone, xdelta, firstVars>>

FirstReboot == firstPc = "reboot" /\ Down

(* The application finds the system healthy and accepts the boot: it clears *)
(* db_last_half and, if it means to stay on this half, db_attempt_switch.   *)
AppAccepts ==
  /\ phase = "up" /\ NoTool
  /\ env.last # "unset"
  /\ \E attempt \in {FALSE, env.attempt} :
       env' = [env EXCEPT !.last = "unset", !.attempt = attempt]
  /\ UNCHANGED <<disk, staged, ids, cmd, phase, init, clone, xdelta, firstVars>>

OperatorForces ==
  /\ AllowForce /\ phase = "up"
  /\ env' = [env EXCEPT !.force = ~@]
  /\ UNCHANGED <<disk, staged, ids, cmd, phase, init, clone, xdelta, firstVars>>

MayStartTool == Exclusive => NoTool

UBootStep == Mmcargs /\ UNCHANGED <<init, clone, xdelta, firstVars>>
InitRamStep == InitRamNext /\ UNCHANGED <<clone, xdelta, firstVars>>
CloneStep ==
  /\ CloneNext
  /\ clone.pc = "idle" => MayStartTool
  /\ UNCHANGED <<init, xdelta, firstVars>>
XdeltaStep ==
  /\ XdeltaNext
  /\ xdelta.pc = "idle" => MayStartTool
  /\ UNCHANGED <<init, clone, firstVars>>
FirstStep ==
  /\ FirstNext
  /\ firstPc = "idle" /\ phase = "up" => MayStartTool
  /\ UNCHANGED <<init, clone, xdelta>>

Next ==
  \/ UBootStep \/ InitRamStep \/ CloneStep \/ XdeltaStep \/ FirstStep
  \/ PowerOff \/ BootFails \/ BootSucceeds \/ FirstReboot
  \/ AppAccepts \/ OperatorForces

Spec == Init /\ [][Next]_vars
===============================================================================
