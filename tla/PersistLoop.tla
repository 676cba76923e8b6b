---------------------------- MODULE PersistLoop -----------------------------
(***************************************************************************)
(* The part of /init that prepares the data partition: the early shell, the *)
(* growth of the partition, and the loop that creates, mounts and repairs   *)
(* persist.bin (init-aesys.sh, from the mount of /data to the updates).     *)
(***************************************************************************)
EXTENDS PersistStore

LoopPcs == {"earlyshell", "grow", "resize", "persist", "create", "format", "mount", "panic"}

Goto(from, to) == pc = from /\ pc' = to

(* The first steps of /init: everything is mounted, the shell may be wanted. *)
Boot ==
  /\ Goto("off", IF "earlyshell.requested" \in flags THEN "earlyshell" ELSE "grow")
  /\ UNCHANGED store

LeaveEarlyShell == Goto("earlyshell", "grow") /\ UNCHANGED store

(* Unpartitioned space at the end of the disk is what requests the growth.   *)
GrowRequested == "datagrow.disabled" \notin flags /\ part < DiskSize

SkipGrowth == ~GrowRequested /\ Goto("grow", "persist") /\ UNCHANGED store

(* parted resizepart *)
GrowPartition ==
  /\ GrowRequested
  /\ Goto("grow", "resize")
  /\ part' = DiskSize
  /\ UNCHANGED <<flags, fsys, bin, layer, durable>>

(* resize2fs *)
GrowFilesystem ==
  /\ Goto("resize", "persist")
  /\ fsys' = part
  /\ UNCHANGED <<flags, part, bin, layer, durable>>

(* Faulty: the flag is forgotten.                                            *)
ForceFirstInit_Unflagged ==
  /\ bin = "none"
  /\ Goto("persist", "create")
  /\ UNCHANGED store

(* Faulty: a flag file that nobody reads.                                    *)
ForceFirstInit_Misnamed ==
  /\ bin = "none"
  /\ Goto("persist", "create")
  /\ flags' = flags \cup {"firstinit.requested"}
  /\ UNCHANGED <<part, fsys, bin, layer, durable>>

(* Without a persistence layer the first initialization has to be repeated:  *)
(* the flag comes before the file.                                           *)
ForceFirstInit ==
  /\ bin = "none"
  /\ Goto("persist", "create")
  /\ flags' = flags \cup {"firstinit.pending"}
  /\ UNCHANGED <<part, fsys, bin, layer, durable>>

(* dd: a sparse file *)
CreateBin ==
  /\ Goto("create", "format")
  /\ bin' = "raw"
  /\ UNCHANGED <<flags, part, fsys, layer, durable>>

(* mkfs.ext4 through a loop device; whether it succeeds is not looked at.    *)
Formatted == bin' = "good" /\ layer' = EmptyLayer /\ durable' = EmptyLayer

FormatBin ==
  /\ Goto("format", "mount")
  /\ Formatted
  /\ UNCHANGED <<flags, part, fsys>>

FormatFails == Goto("format", "mount") /\ UNCHANGED store

FindBin == bin # "none" /\ Goto("persist", "mount") /\ UNCHANGED store

MountBin == bin = "good" /\ Goto("mount", "layers") /\ UNCHANGED store

(* Faulty: the damaged file stays.                                           *)
Autofix_Kept ==
  /\ bin = "raw" /\ "persist.autofix" \in flags
  /\ Goto("mount", "persist")
  /\ UNCHANGED store

(* persist.autofix removes the damaged file, and the loop makes a new one.   *)
Autofix ==
  /\ bin = "raw" /\ "persist.autofix" \in flags
  /\ Goto("mount", "persist")
  /\ bin' = "none"
  /\ UNCHANGED <<flags, part, fsys, layer, durable>>

MountPanic ==
  /\ bin = "raw" /\ "persist.autofix" \notin flags
  /\ Goto("mount", "panic")
  /\ UNCHANGED store

(* The console is left: the loop tries again, with what the operator did.    *)
LeavePanic ==
  /\ Goto("panic", "persist")
  /\ \/ UNCHANGED store
     \/ /\ flags' = flags \cup {"persist.autofix"}
        /\ UNCHANGED <<part, fsys, bin, layer, durable>>
     \/ /\ bin' = "none"
        /\ UNCHANGED <<flags, part, fsys, layer, durable>>

LoopStep ==
  \/ SkipGrowth \/ GrowPartition \/ GrowFilesystem
  \/ ForceFirstInit \/ CreateBin \/ FormatBin
  \/ FindBin \/ MountBin \/ Autofix \/ MountPanic

LoopNext == Boot \/ LoopStep \/ LeaveEarlyShell \/ LeavePanic
==============================================================================
