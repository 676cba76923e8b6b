--------------------------- MODULE PersistSystem ----------------------------
(***************************************************************************)
(* A device from power-on to a settled system: /init, the first             *)
(* initialization service, the applications and an operator, with power     *)
(* that may fail, and storage that may be damaged, between any two steps.   *)
(***************************************************************************)
EXTENDS OverlayRoot

CONSTANTS
  DualBoot,   \* db_active_half in the command line
  MaxFaults   \* bound: shut-downs, power failures and commands that fail

ASSUME SystemAssumption == DualBoot \in BOOLEAN /\ MaxFaults \in Nat

VARIABLES
  first,  \* aesys-firstinit.service
  failed, \* what failed in its last run; no code looks at it
  faults

vars == <<store, pc, overlayVars, first, failed, faults>>

FirstPcs == {"waiting", "skipped", "keys", "ids", "remove", "reboot"}

TypeOK ==
  /\ StoreTypeOK /\ OverlayTypeOK
  /\ pc \in {"off"} \cup LoopPcs \cup OverlayPcs
  /\ first \in FirstPcs /\ failed \subseteq {"keys", "ids"} /\ faults \in 0 .. MaxFaults

Init ==
  /\ StoreInit /\ OverlayInit
  /\ pc = "off" /\ first = "waiting" /\ failed = {} /\ faults = 0

Fault == faults < MaxFaults /\ faults' = faults + 1

------------------------------------------------------------------------------
(* aesys-firstinit.service; systemd looks at its condition once per boot.    *)

FirstStart ==
  /\ pc = "up" /\ first = "waiting"
  /\ IF "firstinit.pending" \in flags
     THEN first' = "keys" /\ failed' = {}
     ELSE first' = "skipped" /\ UNCHANGED failed
  /\ UNCHANGED <<store, overlayVars>>

CreateKeys ==
  /\ first = "keys"
  /\ WriteRoot([Root EXCEPT !.keys = TRUE])
  /\ first' = "ids"
  /\ UNCHANGED <<flags, part, fsys, bin, durable, overlay, committed, secure, failed>>

(* A command of openssl fails, and the next ones are run all the same: no    *)
(* whole set of keys is made, and one that was there may be spoiled.         *)
KeysFail ==
  /\ first = "keys"
  /\ \E kept \in {FALSE, Root.keys} : WriteRoot([Root EXCEPT !.keys = kept])
  /\ first' = "ids" /\ failed' = failed \cup {"keys"}
  /\ UNCHANGED <<flags, part, fsys, bin, durable, overlay, committed, secure>>

(* dual-tool-id.sh -s, for either half, ends with a sync; there is none      *)
(* without dual boot.                                                        *)
WriteIds ==
  /\ first = "ids"
  /\ IF DualBoot THEN Sync ELSE UNCHANGED <<layer, durable>>
  /\ first' = "remove"
  /\ UNCHANGED <<flags, part, fsys, bin, overlayVars, failed>>

(* Both calls end before their sync, and nobody looks at how they ended.     *)
IdsFail ==
  /\ first = "ids" /\ DualBoot
  /\ first' = "remove" /\ failed' = failed \cup {"ids"}
  /\ UNCHANGED <<store, overlayVars>>

(* Faulty: the service ends without its reboot.                              *)
RemoveTrigger_NoReboot ==
  /\ first = "remove"
  /\ flags' = flags \ {"firstinit.pending"}
  /\ first' = "skipped"
  /\ UNCHANGED <<part, fsys, bin, layer, durable, overlayVars, failed>>

RemoveTrigger ==
  /\ first = "remove"
  /\ flags' = flags \ {"firstinit.pending"}
  /\ first' = "reboot"
  /\ UNCHANGED <<part, fsys, bin, layer, durable, overlayVars, failed>>

(* rm fails: the next boot does the first initialization again.              *)
TriggerStays ==
  /\ first = "remove" /\ first' = "reboot"
  /\ UNCHANGED <<store, overlayVars, failed>>

FirstStep ==
  /\ FirstStart \/ CreateKeys \/ WriteIds \/ RemoveTrigger
  /\ UNCHANGED <<pc, faults>>

FirstFails == (KeysFail \/ IdsFail \/ TriggerStays) /\ Fault /\ UNCHANGED pc

------------------------------------------------------------------------------
(* The device goes down *)

(* RAM is lost: the overlay and the service.                                 *)
Down ==
  /\ pc' = "off" /\ first' = "waiting"
  /\ overlay' = FALSE /\ ram' = EmptyLayer
  /\ UNCHANGED <<flags, part, fsys, committed, secure>>

(* It syncs what the calls of dual-tool-id.sh did not.                       *)
FirstReboot ==
  /\ first = "reboot" /\ Down /\ Sync
  /\ failed' = failed \ {"ids"}
  /\ UNCHANGED <<bin, faults>>

Shutdown ==
  /\ pc = "up" /\ first \in {"waiting", "skipped"} /\ Fault /\ Down /\ Sync
  /\ UNCHANGED <<bin, failed>>

(* persist.bin may be damaged while it is mounted.                           *)
PowerFails ==
  /\ pc # "off" /\ Fault
  /\ Down
  /\ layer' \in AfterPowerFailure /\ durable' = layer'
  /\ bin' \in {bin} \cup (IF pc \in OverlayPcs THEN {"raw"} ELSE {})
  /\ UNCHANGED failed

------------------------------------------------------------------------------

(* What was committed to a persist.bin is gone with it.                      *)
BootStep(A) ==
  /\ A
  /\ committed' = IF pc = "format" THEN 0 ELSE committed
  /\ UNCHANGED <<overlay, ram, secure, first, failed>>

Next ==
  \/ BootStep(LoopNext) /\ UNCHANGED faults
  \/ BootStep(FormatFails) /\ Fault
  \/ (OverlayStep \/ LeaveSecurePanic \/ LeaveOverlayPanic \/ Edit \/ WriteBack \/ Commit)
     /\ UNCHANGED <<first, failed, faults>>
  \/ OverlayPanic /\ Fault /\ UNCHANGED <<first, failed>>
  \/ FirstStep \/ FirstFails
  \/ FirstReboot \/ Shutdown \/ PowerFails

Spec == Init /\ [][Next]_vars

(* What runs by itself: /init, but for its consoles, and the service.        *)
Fairness ==
  /\ WF_vars(BootStep(Boot \/ LoopStep) /\ UNCHANGED faults)
  /\ WF_vars(OverlayStep /\ UNCHANGED <<first, failed, faults>>)
  /\ WF_vars(FirstStep)
  /\ WF_vars(FirstReboot)

FairSpec == Spec /\ Fairness

------------------------------------------------------------------------------
(* Properties *)

(* A persistent layer without the keys of the first initialization is a      *)
(* layer whose first initialization is still to be done, unless, in the run  *)
(* that removed the trigger, openssl failed, or dual-tool-id.sh did and the   *)
(* reboot that would sync did not come: whenever persist.bin was made again, *)
(* and wherever power failed (init-aesys.sh 202-281 and aesys-firstinit.sh   *)
(* 33-96).                                                                   *)
KeysKept ==
  (bin = "good" /\ "firstinit.pending" \notin flags /\ failed = {}) => layer.keys /\ durable.keys

(* The root file system can be written for good only if its overlay is       *)
(* disabled, or as long as the first initialization takes (init-aesys.sh      *)
(* 512-519): a boot that skips the overlay for the first initialization ends  *)
(* with it.                                                                  *)
WritableRootEnds ==
  (pc = "up" /\ ~overlay) =>
    \/ flags \cap {"overlayroot.disabled", "firstinit.pending"} # {}
    \/ first = "reboot"

(* Root is switched only to file systems that passed every check, or whose   *)
(* checks were skipped by request: leaving a console of do_panic is no way    *)
(* around a check (init-aesys.sh 542-743).                                   *)
SecureStart ==
  (pc = "up" /\ SecureBoot) =>
    \A f \in Secured : secure.defect[f] = 0 \/ "securefs.skip" \in flags

(* The inductive strengthening of the three: the flag is there before the     *)
(* file is, /init goes past its loop with a good file only, the overlay is    *)
(* the one decided from the flags, the service keeps its trigger until the    *)
(* keys are on the disk or a command has failed, and the checks before the    *)
(* next one are passed                                                        *)
(* (init-aesys.sh 202-743, aesys-firstinit.sh 33-96).                        *)
Decided == {"secure", "securePanic", "enforce", "overlayPanic", "up"}

Passed(f) == secure.defect[f] = 0 \/ "securefs.skip" \in flags

LoopInv ==
  /\ pc \in {"create", "format"} => "firstinit.pending" \in flags
  /\ pc \in OverlayPcs => bin = "good"

OverlayInv ==
  /\ (pc \in Decided /\ "firstinit.pending" \in flags) => ~overlay
  /\ (pc \in Decided /\ ~overlay) =>
       flags \cap {"overlayroot.disabled", "firstinit.pending"} # {} \/ first = "reboot"

FirstInv ==
  /\ first # "waiting" => pc = "up"
  /\ first \in {"keys", "ids", "remove"} => "firstinit.pending" \in flags
  /\ first \in {"ids", "remove", "reboot"} => layer.keys \/ "keys" \in failed
  /\ first = "remove" /\ DualBoot => durable.keys \/ failed # {}

SecureInv ==
  SecureBoot =>
    /\ pc \in Decided => \A f \in Secured : f < secure.fs => Passed(f)
    /\ pc \in {"secure", "securePanic"} /\ secure.fs \in Secured
         => Passed(secure.fs) \/ secure.defect[secure.fs] >= secure.check
    /\ pc \in {"enforce", "overlayPanic", "up"} => secure.fs = Len(SecureOrder) + 1

PersistInv == (DualBoot => KeysKept) /\ LoopInv /\ OverlayInv /\ FirstInv /\ SecureInv

(* With persist.autofix, and nothing that its SecureFS checks would stop at, *)
(* a device ends up running, its first initialization over, with the keys    *)
(* unless one of its commands failed, and under its overlay, whatever was    *)
(* interrupted or damaged on the way; only the console for an overlay that   *)
(* cannot be mounted may hold it (init-aesys.sh 202-281).                    *)
Settled ==
  \/ /\ pc = "up" /\ (layer.keys \/ failed # {}) /\ "firstinit.pending" \notin flags
     /\ overlay \/ "overlayroot.disabled" \in flags
  \/ pc = "overlayPanic"

Settles ==
  ( /\ "persist.autofix" \in flags /\ "earlyshell.requested" \notin flags
    /\ SecureBoot => \A f \in Secured : Passed(f) )
  => <>[]Settled

(* What overlayroot-commit.sh reported as committed is there in every later   *)
(* boot: its target "points to the root of the persisted root file system"   *)
(* (init-aesys.sh:780).                                                      *)
CommitPersists == (pc = "up" /\ committed > 0) => Root.conf >= committed
==============================================================================
