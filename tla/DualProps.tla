------------------------------ MODULE DualProps ------------------------------
(***************************************************************************)
(* What the dual-boot system promises.                                      *)
(***************************************************************************)
EXTENDS DualSystem

------------------------------------------------------------------------------
(* Safety *)

(* An id file, when it exists, is the id of what its half holds, whatever   *)
(* tool, crash or reboot came between its writing and now: U-Boot compares  *)
(* the id files and never the halves.                                       *)
IdSound == \A h \in Halves : ids[h] # NoId => ids[h] = Content(h)

(* From the first touch of a file until the last one is verified, the half  *)
(* that dual-tool-clone.sh or xdelta-apply.sh is writing has no id file, so *)
(* a power failure in between never leaves a half that U-Boot may fall back *)
(* on.                                                                      *)
NoIdWhileTouched ==
  /\ clone.step \in {"touch", "copy"} => ids[CloneTarget] = NoId
  /\ xdelta.step \in {"touch", "copy"} =>
       \A l \in xdelta.current : ids[OutputHalf(l)] = NoId

(* db_swap_requested swaps away from a half whose boot was not successful,  *)
(* with no update pending, only onto a half with the same content.          *)
FallbackSafe ==
  [][Mmcargs /\ ~env.attempt /\ ~env.force /\ env'.active # ActiveHalf
       => Content("a") = Content("b")]_vars

(* While the system runs, nothing changes the half it runs from: not the    *)
(* tools, not the initialization, not a write that fails.                   *)
RunningHalfUntouched ==
  [][phase # "off" /\ ~cmd.force
       => Content(cmd.half)' = Content(cmd.half)]_vars

(* When xdelta-apply.sh is about to ask for the switch, every asset of the  *)
(* running half is on the target half, at the version of the package or, if *)
(* the package has none (or, with -l, it could not be downloaded), at the   *)
(* version of the running half.                                             *)
UpdateComplete ==
  xdelta.pc = "flag" =>
    \A l \in Existing(Locs) :
      \/ Content(TargetHalf)[l] = (IF NeedsUpdate(l) THEN xdelta.pkg[l[2]] ELSE Current(l))
      \/ xdelta.download /\ Content(TargetHalf)[l] = Current(l)

(* When dual-tool-clone.sh -s has gone through every file, changed or not,  *)
(* the inactive half is what the active half is.                            *)
CloneComplete == CloneOver => Content(CloneTarget) = Content(cmd.half)

(* The initramfs removes a staged update only after the file it replaces    *)
(* has become equal to it, even if power fails at any point of the copy.    *)
UpdateNotLost ==
  [][phase # "up" =>
       \A h \in Halves, n \in Names :
         staged[h][n] # NoFile /\ staged'[h][n] = NoFile =>
           disk'[h][<<IF n \in RootfsNames THEN "boot" ELSE "data", n>>] = staged[h][n]]_vars

------------------------------------------------------------------------------
(* Refinement *)

(* The slots are the halves, a certificate is an id file, a request is      *)
(* db_attempt_switch.                                                       *)
AB == INSTANCE ABUpdate WITH
  Slots <- Halves, Images <- Ids, NoCert <- NoId, NoSlot <- "none",
  content <- [h \in Halves |-> Content(h)], cert <- ids,
  running <- IF phase = "off" THEN "none" ELSE cmd.half,
  active <- ActiveHalf,
  requested <- env.attempt

(* With no forced single boot and one tool at a time, the files-based       *)
(* system is an A/B update system.                                          *)
ImplementsAB == AB!Spec

------------------------------------------------------------------------------
(* Liveness *)

(* U-Boot and the initramfs run to their end; a boot that hangs is reset by *)
(* the hardware watchdog, one that can succeed does.                        *)
Fairness ==
  WF_vars(UBootStep) /\ WF_vars(InitRamStep) /\ WF_vars(BootFails) /\ WF_vars(BootSucceeds)

FairSpec == Spec /\ Fairness

(* Power goes down before the boot is over, and not because of a bad half.  *)
InterruptedBoot ==
  phase \notin {"off", "up"} /\ phase' = "off" /\ (phase = "mount" => Bootable(cmd.half))

(* Whatever was interrupted, and whichever bad version was installed, once  *)
(* power stays up during the boots the system comes up again and again: a   *)
(* bad half is left by the switch that is still requested, or never entered. *)
AlwaysRecovers == <>[][~InterruptedBoot]_vars => []<>(phase = "up")

(* A staged update does not stay staged. *)
UpdateApplied ==
  <>[][~InterruptedBoot]_vars =>
    \A h \in Halves, n \in Names :
      (phase = "initram" /\ staged[h][n] # NoFile) ~> (staged[h][n] = NoFile)

------------------------------------------------------------------------------
(* The inductive invariant behind the safety properties, for the files-based *)
(* scheme with one tool at a time and no forced single boot.                 *)

(* Nothing is ever staged, so the initramfs finds nothing to apply. *)
NothingStaged ==
  /\ ~env.force /\ ~cmd.force
  /\ \A h \in Halves, n \in Names : staged[h][n] = NoFile
  /\ init = Idle

(* The tools run while the system is up, one at a time, and an invocation    *)
(* that has ended keeps nothing.                                             *)
OneTool ==
  /\ phase # "up" => NoTool
  /\ clone.pc # "idle" => xdelta.pc = "idle" /\ firstPc = "idle"
  /\ xdelta.pc # "idle" => firstPc = "idle"
  /\ clone.pc = "idle" => clone = CloneIdle
  /\ xdelta.pc = "idle" => xdelta = XdeltaIdle

(* An invocation that has cleared the id, as it must have before it touches  *)
(* a file, finds it cleared until it writes it, after the last file.         *)
ClearedMeansNoId ==
  /\ clone.step \in {"touch", "copy"} => clone.cleared
  /\ clone.cleared => ids[CloneTarget] = NoId
  /\ xdelta.step \in {"touch", "copy"} => xdelta.cleared
  /\ xdelta.cleared /\ xdelta.pc # "flag" => ids[TargetHalf] = NoId
  /\ xdelta.pc \in {"id", "flag"} => xdelta.step = "pick" /\ xdelta.todo = {}

(* The invariant U-Boot relies on, with what makes it inductive: between the *)
(* clearing of an id and its rewriting only the half without id is written,  *)
(* and the id written is that of what is on the disk then.                   *)
IInv == TypeOK /\ NothingStaged /\ OneTool /\ ClearedMeansNoId /\ IdSound
==============================================================================
