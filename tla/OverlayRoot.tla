---------------------------- MODULE OverlayRoot -----------------------------
(***************************************************************************)
(* The rest of /init: it layers the root file system, checks the SecureFS   *)
(* indexes of the file systems in turn, puts the RAM overlay on top if it   *)
(* is wanted and switches root; and overlayroot-commit.sh, which copies a   *)
(* file from the RAM overlay to the persistent layer.                       *)
(***************************************************************************)
EXTENDS PersistLoop, Sequences

CONSTANTS
  SecureBoot,     \* secure-boot in the command line, or securefs.force
  SecureOrder     \* the file systems checked, in the order they are checked

ASSUME SecureAssumption ==
  SecureBoot \in BOOLEAN /\ SecureOrder \in Seq({"rootfs", "data", "app"})

VARIABLES
  overlay,   \* the root file system is under a RAM overlay
  ram,       \* the root file system as the RAM overlay shows it
  committed, \* the change that overlayroot-commit.sh last reported as saved
  secure     \* the file system and the check that are next, and what is bad

overlayVars == <<overlay, ram, committed, secure>>

(* The checks of a file system: its files are there, signature, index.       *)
Checks == 1 .. 3
Secured == 1 .. Len(SecureOrder)
Defects == [Secured -> Checks \cup {0}]

OverlayPcs == {"layers", "secure", "securePanic", "enforce", "overlayPanic", "up"}

OverlayTypeOK ==
  /\ overlay \in BOOLEAN /\ ram \in Layers /\ committed \in 0 .. MaxEdits
  /\ secure \in [fs : 1 .. Len(SecureOrder) + 1, check : Checks, defect : Defects]

OverlayInit ==
  /\ overlay = FALSE /\ ram = EmptyLayer /\ committed = 0
  /\ \E d \in Defects : secure = [fs |-> 1, check |-> 1, defect |-> d]

(* What leads to a root file system without overlay.                         *)
OverlayRefused == flags \cap {"overlayroot.disabled", "firstinit.pending"} # {}

(* The decision is taken here and used after the checks.                     *)
MountLayers ==
  /\ Goto("layers", IF SecureBoot THEN "secure" ELSE "enforce")
  /\ overlay' = ~OverlayRefused
  /\ secure' = [secure EXCEPT !.fs = 1, !.check = 1]
  /\ UNCHANGED <<store, ram, committed>>

(* A request to skip is looked at before the first check only.               *)
SkipRequested == secure.check = 1 /\ "securefs.skip" \in flags

ThisDefect == secure.defect[secure.fs]

NextFilesystem == secure' = [secure EXCEPT !.fs = @ + 1, !.check = 1]

SecureNext ==
  /\ pc = "secure" /\ secure.fs \in Secured
  /\ \/ SkipRequested /\ NextFilesystem
     \/ /\ ~SkipRequested /\ ThisDefect # secure.check
        /\ IF secure.check = 3 THEN NextFilesystem
                               ELSE secure' = [secure EXCEPT !.check = @ + 1]
  /\ UNCHANGED <<pc, store, overlay, ram, committed>>

SecurePanic ==
  /\ secure.fs \in Secured /\ ~SkipRequested /\ ThisDefect = secure.check
  /\ Goto("secure", "securePanic")
  /\ UNCHANGED <<store, overlayVars>>

(* Faulty: the console is a way around the check.                            *)
LeaveSecurePanic_GoesOn ==
  /\ Goto("securePanic", "secure")
  /\ NextFilesystem
  /\ UNCHANGED <<store, overlay, ram, committed>>

(* The console is left: the same check is made again.                        *)
LeaveSecurePanic ==
  /\ Goto("securePanic", "secure")
  /\ \/ UNCHANGED <<store, secure>>
     \/ secure' = [secure EXCEPT !.defect[secure.fs] = 0] /\ UNCHANGED store
     \/ /\ flags' = flags \cup {"securefs.skip"}
        /\ UNCHANGED <<part, fsys, bin, layer, durable, secure>>
  /\ UNCHANGED <<overlay, ram, committed>>

SecureOver ==
  /\ secure.fs \notin Secured
  /\ Goto("secure", "enforce")
  /\ UNCHANGED <<store, overlayVars>>

EnforceOverlay ==
  /\ overlay
  /\ Goto("enforce", "up")
  /\ ram' = layer
  /\ UNCHANGED <<store, overlay, committed, secure>>

OverlayPanic ==
  /\ overlay
  /\ Goto("enforce", "overlayPanic")
  /\ UNCHANGED <<store, overlayVars>>

LeaveOverlayPanic == Goto("overlayPanic", "enforce") /\ UNCHANGED <<store, overlayVars>>

NoOverlay ==
  /\ ~overlay
  /\ Goto("enforce", "up")
  /\ UNCHANGED <<store, overlayVars>>

------------------------------------------------------------------------------
(* The running system *)

Root == IF overlay THEN ram ELSE layer

WriteRoot(r) ==
  IF overlay THEN ram' = r /\ UNCHANGED layer ELSE layer' = r /\ UNCHANGED ram

(* An application writes its configuration file, with a change or without.   *)
Edit ==
  /\ pc = "up"
  /\ \E c \in Root.conf .. MaxEdits : WriteRoot([Root EXCEPT !.conf = c])
  /\ UNCHANGED <<flags, part, fsys, bin, durable, pc, overlay, committed, secure>>

(* The kernel writes the cache back in its own time.                         *)
WriteBack ==
  /\ pc # "off" /\ durable # layer
  /\ Sync
  /\ UNCHANGED <<flags, part, fsys, bin, pc, overlayVars>>

(* mount --mount is no option of mount, and its failure is not looked at:    *)
(* /overlay/persisted-root stays a folder of the tmpfs on /overlay.          *)
PersistedRoot == "tmpfs"

CommitTarget == IF PersistedRoot = "layer" THEN [layer EXCEPT !.conf = ram.conf] ELSE layer

(* overlayroot-commit.sh of that file: the copy, sync, and exit with 0.      *)
Commit ==
  /\ pc = "up" /\ overlay
  /\ layer' = CommitTarget /\ durable' = CommitTarget
  /\ committed' = ram.conf
  /\ UNCHANGED <<flags, part, fsys, bin, pc, overlay, ram, secure>>

OverlayStep ==
  \/ MountLayers \/ SecureNext \/ SecurePanic \/ SecureOver
  \/ EnforceOverlay \/ NoOverlay

OverlayNext ==
  \/ OverlayStep \/ LeaveSecurePanic \/ OverlayPanic \/ LeaveOverlayPanic
  \/ Edit \/ WriteBack \/ Commit
==============================================================================
