------------------------------ MODULE DualStore ------------------------------
(***************************************************************************)
(* The persistent state of a dual-boot Gemini system: the two halves on    *)
(* the boot and data partitions, their staged updates, their id files and  *)
(* the U-Boot environment, with the operators every tool shares.           *)
(*                                                                         *)
(* An asset lives at a location <<folder, name>>.  `name' is the asset's   *)
(* name without its half suffix; in the files scheme half h of it is the   *)
(* file name.h, in the partitions scheme the boot assets have no suffix    *)
(* and half h is boot partition h.                                         *)
(***************************************************************************)
CONSTANTS
  BootNames,     \* assets kept in the boot folder
  DataNames,     \* assets kept in /data/.sys (all of them *.squashfs)
  SquashNames,   \* the assets whose name matches *.squashfs
  Versions,      \* the complete contents an asset can have
  TornA, TornB,  \* what an interrupted write leaves in a file of half a, of b
  NoFile,        \* the file does not exist
  NoId,          \* the id file of a half does not exist
  Partitions,    \* TRUE: partitions-based scheme; FALSE: files-based scheme
  WriteErrors,   \* can a write fail while the system stays up (full or bad disk)?
  SkipVerification \* the -n option of the tools

(* A squashfs of the boot folder may have a stray copy or an update in the  *)
(* data folder.  In the partitions scheme the two never share a name: the   *)
(* boot one has no half suffix.                                             *)
ASSUME NamesAssumption ==
  /\ SquashNames \subseteq BootNames \cup DataNames
  /\ DataNames \subseteq SquashNames
  /\ BootNames \cap SquashNames \subseteq DataNames
  /\ Partitions => BootNames \cap SquashNames = {}

ASSUME ContentsAssumption ==
  /\ NoFile \notin Versions \cup {TornA, TornB}
  /\ TornA \notin Versions /\ TornB \notin Versions /\ TornA # TornB

ASSUME FlagsAssumption ==
  Partitions \in BOOLEAN /\ WriteErrors \in BOOLEAN /\ SkipVerification \in BOOLEAN

Halves == {"a", "b"}
Other(h) == IF h = "a" THEN "b" ELSE "a"

Names == BootNames \cup DataNames
BootLocs == {"boot"} \X BootNames
DataLocs == {"data"} \X DataNames
Locs == BootLocs \cup DataLocs

(* The locations of rootfs strays: the boot squashfs is also looked up in   *)
(* the data folder, where a healthy system keeps no copy of it.             *)
StrayLocs == {"data"} \X (BootNames \cap DataNames)

Torn(h) == IF h = "a" THEN TornA ELSE TornB
Contents == Versions \cup {TornA, TornB, NoFile}

Ids == [Locs -> Contents]
ASSUME NoIdAssumption == NoId \notin Ids

VARIABLES
  disk,    \* disk[h][l]: what the file of half h at location l holds
  staged,  \* staged[h][n]: /data/.sys/n.h.update, waiting for the initramfs
  ids,     \* ids[h]: /data/.sys/h.id
  env,     \* the U-Boot environment
  cmd,     \* the kernel command line of the current boot
  phase    \* how far the current boot has gone

store == <<disk, staged, ids, env, cmd, phase>>

Phases == {"off", "initram", "rootfs", "extra", "mount", "up"}

StoreTypeOK ==
  /\ disk \in [Halves -> [Locs -> Contents]]
  /\ staged \in [Halves -> [Names -> Contents]]
  /\ ids \in [Halves -> Ids \cup {NoId}]
  /\ env \in [attempt : BOOLEAN, active : Halves \cup {"unset"},
              last : Halves \cup {"unset"}, force : BOOLEAN]
  /\ cmd \in [half : Halves, force : BOOLEAN]
  /\ phase \in Phases

(* Do the tools look for name.h.update when they meet the file at l?  Their *)
(* pattern is *.squashfs.*, so the name must carry a half suffix.           *)
LooksForUpdate(l) == l[2] \in SquashNames /\ (Partitions => l[1] = "data")

HasUpdate(h, l) == LooksForUpdate(l) /\ staged[h][l[2]] # NoFile

(* What the tools read for half h at l: the staged update goes first.       *)
Considered(h, l) == IF HasUpdate(h, l) THEN staged[h][l[2]] ELSE disk[h][l]

(* The content of half h, listed by its files.                              *)
Content(h) ==
  [l \in Locs |-> IF disk[h][l] = NoFile THEN NoFile ELSE Considered(h, l)]

(* The boot folder dual-tool-id.sh reads: always /boot-inactive in the      *)
(* partitions scheme, whichever half is asked for.                          *)
IdSide(h, l) == IF Partitions /\ l[1] = "boot" THEN Other(cmd.half) ELSE h

(* Faulty: staged updates are not considered. *)
DualToolId_NoUpdates(h) == [l \in Locs |-> disk[IdSide(h, l)][l]]

(* The id dual-tool-id.sh computes for half h: a digest of the digests of   *)
(* the files, taken as injective.                                           *)
DualToolId(h) == [l \in Locs |-> Content(IdSide(h, l))[l]]

(* Faulty: -t selects the id file and not the half that is read. *)
WriteId_Running(h) == ids' = [ids EXCEPT ![h] = DualToolId(cmd.half)]

(* dual-tool-id.sh -t h -s and -t h -c *)
WriteId(h) == ids' = [ids EXCEPT ![h] = DualToolId(h)]
ClearId(h) == ids' = [ids EXCEPT ![h] = NoId]

(* Half h as an image installs it: complete assets of one version, some     *)
(* data assets possibly not part of the image, no stray.                    *)
Installed ==
  {[l \in Locs |-> IF l \in StrayLocs \cup missing THEN NoFile ELSE v] :
     v \in Versions, missing \in SUBSET DataLocs}

StoreInit ==
  /\ disk \in [Halves -> Installed]
  /\ staged = [h \in Halves |-> [n \in Names |-> NoFile]]
  /\ ids = [h \in Halves |-> NoId]
  /\ env = [attempt |-> FALSE, active |-> "unset", last |-> "unset", force |-> FALSE]
  /\ cmd = [half |-> "a", force |-> FALSE]
  /\ phase = "off"
==============================================================================
