----------------------------- MODULE XdeltaApply -----------------------------
(***************************************************************************)
(* xdelta-apply.sh on a dual-boot system: bring the half that is not       *)
(* running (the running one, if single boot is forced) to the versions of a *)
(* package, copy the other assets from the running half, write the half's   *)
(* id and ask U-Boot to attempt the switch.                                 *)
(***************************************************************************)
EXTENDS DualStore

CONSTANT Packages  \* the packages: name -> version, NoFile if not in the index

ASSUME PackagesAssumption == Packages \subseteq [Names -> Versions \cup {NoFile}]

VARIABLE xdelta  \* the running invocation, if any

xdeltaVars == <<xdelta>>

XdeltaTypeOK ==
  xdelta \in [pc : {"idle", "boot", "data", "id", "flag"},
              todo : SUBSET Locs, current : SUBSET Locs,
              step : {"pick", "clear", "touch", "copy"},
              from : {"package", "current"},
              pkg : [Names -> Versions \cup {NoFile}], download : BOOLEAN,
              cleared : BOOLEAN, pending : BOOLEAN]

XdeltaIdle ==
  [pc |-> "idle", todo |-> {}, current |-> {}, step |-> "pick", from |-> "package",
   pkg |-> [n \in Names |-> NoFile], download |-> FALSE,
   cleared |-> FALSE, pending |-> FALSE]

XdeltaInit == xdelta = XdeltaIdle

Existing(locs) == {l \in locs : disk[cmd.half][l] # NoFile}

(* Faulty: half a is always taken for the running one. *)
TargetHalf_AlwaysB == "b"

(* TARGETHALF: the half whose id is cleared and written. *)
TargetHalf == IF cmd.force THEN "a" ELSE Other(cmd.half)

(* WRITEFILE is FILE.update.tmp, renamed once verified, instead of the      *)
(* target file itself.                                                      *)
Staging(l) == cmd.force /\ LooksForUpdate(l)

(* The half of the folder the output goes to.  In the partitions scheme the *)
(* boot assets go to /boot-inactive, forced single boot or not.             *)
OutputHalf(l) ==
  IF Partitions /\ l[1] = "boot" THEN Other(cmd.half) ELSE TargetHalf

(* Faulty: the file is compared with itself. *)
CheckedCopy_Running(l) == disk[cmd.half][l]

(* FOLDER/TARGETFILE, which the script takes for the existing target file.  *)
CheckedCopy(l) ==
  IF Partitions /\ l[1] = "boot" THEN disk[cmd.half][l] ELSE disk[TargetHalf][l]

Current(l) == disk[cmd.half][l]
NeedsUpdate(l) == xdelta.pkg[l[2]] \notin {NoFile, Current(l)}

Output(l, v) ==
  IF Staging(l)
  THEN /\ staged' = [staged EXCEPT ![OutputHalf(l)][l[2]] = v]
       /\ UNCHANGED disk
  ELSE /\ disk' = [disk EXCEPT ![OutputHalf(l)][l] = v]
       /\ UNCHANGED staged

Picking(l) == l \in xdelta.todo /\ xdelta.step = "pick"
(* Faulty: the id of the target half is left alone. *)
Start_NoClear(l, from) ==
  xdelta' = [xdelta EXCEPT !.todo = @ \ {l}, !.current = {l}, !.from = from,
                           !.pending = TRUE, !.step = "touch"]

Start(l, from) ==
  xdelta' = [xdelta EXCEPT !.todo = @ \ {l}, !.current = {l}, !.from = from,
                           !.pending = TRUE,
                           !.step = IF xdelta.cleared THEN "touch" ELSE "clear"]

(* The package may carry pre.sh or post.sh, or the boot loader may be       *)
(* flashed: each asks for a reboot of its own.                              *)
XdeltaStart ==
  /\ phase = "up" /\ xdelta.pc = "idle"
  /\ \E pkg \in Packages, download, other \in BOOLEAN :
       xdelta' = [XdeltaIdle EXCEPT !.pc = "boot", !.todo = Existing(BootLocs),
                    !.pkg = pkg, !.download = download, !.pending = other]
  /\ UNCHANGED store

XdeltaAlreadyGood(l) ==
  /\ Picking(l) /\ NeedsUpdate(l)
  /\ CheckedCopy(l) = xdelta.pkg[l[2]]
  /\ xdelta' = [xdelta EXCEPT !.todo = @ \ {l}, !.pending = TRUE]
  /\ UNCHANGED store

XdeltaFetch(l) ==
  /\ Picking(l) /\ NeedsUpdate(l)
  /\ CheckedCopy(l) # xdelta.pkg[l[2]]
  /\ Start(l, "package")
  /\ UNCHANGED store

(* No update for the file, or (-l) its resource cannot be downloaded.       *)
NoUpdate(l) ==
  /\ Picking(l)
  /\ NeedsUpdate(l) => xdelta.download /\ CheckedCopy(l) # xdelta.pkg[l[2]]

XdeltaCopyFromCurrent(l) ==
  /\ NoUpdate(l) /\ Current(l) # CheckedCopy(l)
  /\ Start(l, "current")
  /\ UNCHANGED store

XdeltaSkip(l) ==
  /\ NoUpdate(l) /\ Current(l) = CheckedCopy(l)
  /\ xdelta' = [xdelta EXCEPT !.todo = @ \ {l}]
  /\ UNCHANGED store

(* Faulty: the id of the running half is cleared. *)
XdeltaClearId_Running ==
  /\ xdelta.step = "clear"
  /\ ClearId(cmd.half)
  /\ xdelta' = [xdelta EXCEPT !.cleared = TRUE, !.step = "touch"]
  /\ UNCHANGED <<disk, staged, env, cmd, phase>>

(* Clear target half ID when the first file is being touched. *)
XdeltaClearId ==
  /\ xdelta.step = "clear"
  /\ ClearId(TargetHalf)
  /\ xdelta' = [xdelta EXCEPT !.cleared = TRUE, !.step = "touch"]
  /\ UNCHANGED <<disk, staged, env, cmd, phase>>

(* Opening the output truncates it; an .update.tmp nobody reads. *)
XdeltaWriteBegin(l) ==
  /\ xdelta.step = "touch" /\ l \in xdelta.current
  /\ IF Staging(l) THEN UNCHANGED <<disk, staged>> ELSE Output(l, Torn(OutputHalf(l)))
  /\ xdelta' = [xdelta EXCEPT !.step = "copy"]
  /\ UNCHANGED <<ids, env, cmd, phase>>

XdeltaWriteEnd(l) ==
  /\ xdelta.step = "copy" /\ l \in xdelta.current
  /\ \/ Output(l, IF xdelta.from = "package" THEN xdelta.pkg[l[2]] ELSE Current(l))
     \/ WriteErrors /\ SkipVerification /\ Output(l, Torn(OutputHalf(l)))
  /\ xdelta' = [xdelta EXCEPT !.current = {}, !.step = "pick"]
  /\ UNCHANGED <<ids, env, cmd, phase>>

(* The script gives up: an asset that cannot be fetched or does not verify, *)
(* no room for a download, an id file that cannot be removed.               *)
XdeltaAbort ==
  /\ \/ xdelta.step = "copy"
     \/ xdelta.step = "clear" /\ WriteErrors
     \/ xdelta.download /\ \E l \in xdelta.todo :
          Picking(l) /\ NeedsUpdate(l) /\ CheckedCopy(l) # xdelta.pkg[l[2]]
  /\ xdelta' = XdeltaIdle
  /\ UNCHANGED store

XdeltaDataLoop ==
  /\ xdelta.pc = "boot" /\ xdelta.todo = {} /\ xdelta.step = "pick"
  /\ xdelta' = [xdelta EXCEPT !.pc = "data", !.todo = Existing(DataLocs)]
  /\ UNCHANGED store

AfterId == IF xdelta.pending THEN [xdelta EXCEPT !.pc = "flag"] ELSE XdeltaIdle

XdeltaFilesOver ==
  /\ xdelta.pc = "data" /\ xdelta.todo = {} /\ xdelta.step = "pick"
  /\ xdelta' = IF xdelta.cleared THEN [xdelta EXCEPT !.pc = "id"] ELSE AfterId
  /\ UNCHANGED store

XdeltaWriteId ==
  /\ xdelta.pc = "id"
  /\ \/ WriteId(TargetHalf) /\ xdelta' = AfterId
     \/ WriteErrors /\ xdelta' = XdeltaIdle /\ UNCHANGED ids
  /\ UNCHANGED <<disk, staged, env, cmd, phase>>

(* fw_setenv db_attempt_switch 1, exit 255 *)
XdeltaFlag ==
  /\ xdelta.pc = "flag"
  /\ \/ env' = [env EXCEPT !.attempt = TRUE]
     \/ WriteErrors /\ UNCHANGED env
  /\ xdelta' = XdeltaIdle
  /\ UNCHANGED <<disk, staged, ids, cmd, phase>>

XdeltaNext ==
  \/ XdeltaStart \/ XdeltaClearId \/ XdeltaAbort \/ XdeltaDataLoop
  \/ XdeltaFilesOver \/ XdeltaWriteId \/ XdeltaFlag
  \/ \E l \in Locs : \/ XdeltaAlreadyGood(l) \/ XdeltaFetch(l)
                     \/ XdeltaCopyFromCurrent(l) \/ XdeltaSkip(l)
                     \/ XdeltaWriteBegin(l) \/ XdeltaWriteEnd(l)
==============================================================================
