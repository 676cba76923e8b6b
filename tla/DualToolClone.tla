---------------------------- MODULE DualToolClone ----------------------------
(***************************************************************************)
(* dual-tool-clone.sh -s: synchronise the inactive half with the active    *)
(* one, file by file, then purge what the active half does not have, then  *)
(* write the id of the inactive half.                                      *)
(***************************************************************************)
EXTENDS DualStore

VARIABLE clone  \* the running invocation, if any

cloneVars == <<clone>>

ClonePcs == {"idle", "syncBoot", "syncData", "purgeBoot", "purgeData", "id"}

(* step: "pick" the next file, "clear" the id before the first touch,       *)
(* "touch" the file, wait for the "copy" to end.                            *)
CloneTypeOK ==
  clone \in [pc : ClonePcs, todo : SUBSET Locs, current : SUBSET Locs,
             step : {"pick", "clear", "touch", "copy"},
             cleared : BOOLEAN, changes : BOOLEAN]

CloneIdle ==
  [pc |-> "idle", todo |-> {}, current |-> {}, step |-> "pick",
   cleared |-> FALSE, changes |-> FALSE]

CloneInit == clone = CloneIdle

CloneTarget == Other(cmd.half)
Listed(h, locs) == {l \in locs : disk[h][l] # NoFile}

(* The file the tool writes for the inactive half: its staged update if any. *)
WriteTarget(l, v) ==
  IF HasUpdate(CloneTarget, l)
  THEN /\ staged' = [staged EXCEPT ![CloneTarget][l[2]] = v]
       /\ UNCHANGED disk
  ELSE /\ disk' = [disk EXCEPT ![CloneTarget][l] = v]
       /\ UNCHANGED staged

Syncing == clone.pc \in {"syncBoot", "syncData"}
Purging == clone.pc \in {"purgeBoot", "purgeData"}

(* Faulty: nothing is ever purged. *)
Orphan_Never(l) == FALSE

(* An inactive-half file is purged when the active half has neither the     *)
(* file nor, next to it, an update for it.                                  *)
Orphan(l) ==
  /\ disk[cmd.half][l] = NoFile
  /\ l[1] = "data" => staged[cmd.half][l[2]] = NoFile

NeedsWork(l) ==
  \/ Syncing /\ Considered(cmd.half, l) # Considered(CloneTarget, l)
  \/ Purging /\ Orphan(l)

CloneStart ==
  /\ phase = "up" /\ clone.pc = "idle"
  /\ clone' = [CloneIdle EXCEPT !.pc = "syncBoot", !.todo = Listed(cmd.half, BootLocs)]
  /\ UNCHANGED store

ClonePick(l) ==
  /\ l \in clone.todo /\ clone.step = "pick"
  /\ \/ /\ NeedsWork(l)
        /\ clone' = [clone EXCEPT !.todo = @ \ {l}, !.current = {l},
                                  !.step = IF clone.cleared THEN "touch" ELSE "clear"]
     \/ /\ ~NeedsWork(l)
        /\ clone' = [clone EXCEPT !.todo = @ \ {l}]
  /\ UNCHANGED store

(* Faulty: the id of the source is cleared. *)
CloneClearId_Source ==
  /\ clone.step = "clear"
  /\ ClearId(cmd.half)
  /\ clone' = [clone EXCEPT !.cleared = TRUE, !.step = "touch"]
  /\ UNCHANGED <<disk, staged, env, cmd, phase>>

(* Clear target half ID when the first file is being touched. *)
CloneClearId ==
  /\ clone.step = "clear"
  /\ ClearId(CloneTarget)
  /\ clone' = [clone EXCEPT !.cleared = TRUE, !.step = "touch"]
  /\ UNCHANGED <<disk, staged, env, cmd, phase>>

CloneCopyBegin(l) ==
  /\ Syncing /\ clone.step = "touch" /\ l \in clone.current
  /\ WriteTarget(l, Torn(CloneTarget))
  /\ clone' = [clone EXCEPT !.step = "copy"]
  /\ UNCHANGED <<ids, env, cmd, phase>>

FileDone == [clone EXCEPT !.current = {}, !.step = "pick", !.changes = TRUE]

CloneCopyEnd(l) ==
  /\ clone.step = "copy" /\ l \in clone.current
  /\ WriteTarget(l, Considered(cmd.half, l))
  /\ clone' = FileDone
  /\ UNCHANGED <<ids, env, cmd, phase>>

(* Bad data reached the disk and nobody looked. *)
CloneCopyUnverified ==
  /\ WriteErrors /\ SkipVerification
  /\ clone.step = "copy"
  /\ clone' = FileDone
  /\ UNCHANGED store

ClonePurge(l) ==
  /\ Purging /\ clone.step = "touch" /\ l \in clone.current
  /\ disk' = [disk EXCEPT ![CloneTarget][l] = NoFile]
  /\ clone' = FileDone
  /\ UNCHANGED <<staged, ids, env, cmd, phase>>

(* Clearing the id, a copy, its verification or a removal fails.            *)
CloneAbort ==
  /\ WriteErrors
  /\ clone.step # "pick"
  /\ clone' = CloneIdle
  /\ UNCHANGED store

LoopOver == clone.todo = {} /\ clone.step = "pick"

CloneNextLoop ==
  /\ LoopOver
  /\ \/ /\ clone.pc = "syncBoot"
        /\ clone' = [clone EXCEPT !.pc = "syncData", !.todo = Listed(cmd.half, DataLocs)]
     \/ /\ clone.pc = "syncData"
        /\ clone' = [clone EXCEPT !.pc = "purgeBoot", !.todo = Listed(CloneTarget, BootLocs)]
     \/ /\ clone.pc = "purgeBoot"
        /\ clone' = [clone EXCEPT !.pc = "purgeData", !.todo = Listed(CloneTarget, DataLocs)]
  /\ UNCHANGED store

(* The tool has gone through every file: the inactive half is in sync.      *)
CloneOver == clone.pc = "purgeData" /\ LoopOver

CloneFinish ==
  /\ CloneOver
  /\ clone' = IF clone.changes THEN [clone EXCEPT !.pc = "id"] ELSE CloneIdle
  /\ UNCHANGED store

CloneWriteId ==
  /\ clone.pc = "id"
  /\ \/ WriteId(CloneTarget)
     \/ WriteErrors /\ UNCHANGED ids
  /\ clone' = CloneIdle
  /\ UNCHANGED <<disk, staged, env, cmd, phase>>

CloneNext ==
  \/ CloneStart \/ CloneClearId \/ CloneCopyUnverified \/ CloneAbort
  \/ CloneNextLoop \/ CloneFinish \/ CloneWriteId
  \/ \E l \in Locs : ClonePick(l) \/ CloneCopyBegin(l) \/ CloneCopyEnd(l) \/ ClonePurge(l)
==============================================================================
