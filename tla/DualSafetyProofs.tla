-------------------------- MODULE DualSafetyProofs --------------------------
(***************************************************************************)
(* The safety of the dual-boot system: with one tool at a time no half is   *)
(* touched while it has an id; in the files-based scheme without forced     *)
(* single boot the ids are sound, hence a fallback is safe, and the tools   *)
(* leave a half that is complete.                                           *)
(***************************************************************************)
EXTENDS DualProofs

------------------------------------------------------------------------------
(* What keeps the ids sound *)

LEMMA ContentFrame ==
  ASSUME NEW h \in Halves, disk'[h] = disk[h], staged'[h] = staged[h]
  PROVE  Content(h)' = Content(h)
<1>1. \A l \in Locs : HasUpdate(h, l)' <=> HasUpdate(h, l)
  BY DEF HasUpdate
<1>2. \A l \in Locs : Considered(h, l)' = Considered(h, l)
  BY <1>1 DEF Considered
<1> QED
  BY <1>2 DEF Content

LEMMA FilesId ==
  ASSUME ~Partitions, NEW h \in Halves
  PROVE  DualToolId(h) = Content(h)
BY DEF DualToolId, IdSide, Content

(* A step keeps the ids sound if it leaves files and ids alone, clears an    *)
(* id, writes an id, or writes the files of a half that has no id.           *)
LEMMA KeepSound ==
  ASSUME IdSound, UNCHANGED <<disk, staged, ids>>
  PROVE  IdSound'
BY ContentFrame DEF IdSound

LEMMA ClearSound ==
  ASSUME StoreTypeOK, IdSound, NEW h \in Halves, ClearId(h), UNCHANGED <<disk, staged>>
  PROVE  IdSound'
BY ContentFrame DEF IdSound, ClearId, StoreTypeOK

LEMMA WriteSound ==
  ASSUME ~Partitions, StoreTypeOK, IdSound, NEW h \in Halves, WriteId(h),
         UNCHANGED <<disk, staged>>
  PROVE  IdSound'
BY ContentFrame, FilesId DEF IdSound, WriteId, StoreTypeOK

LEMMA TouchSound ==
  ASSUME IdSound, NEW h \in Halves, ids[h] = NoId, UNCHANGED <<staged, ids>>,
         \A g \in Halves \ {h} : disk'[g] = disk[g]
  PROVE  IdSound'
BY ContentFrame DEF IdSound

------------------------------------------------------------------------------
(* The tools, in either scheme, forced single boot or not                    *)

(* The invocations, one at a time, and the ids they have cleared. *)
ToolInv == TypeOK /\ OneTool /\ ClearedMeansNoId

(* A step of the tool is taken while the system is up, alone, and changes     *)
(* nothing but the files, the id and the invocation itself.                  *)
LEMMA CloneFrame ==
  ASSUME Exclusive, OneTool, CloneStep
  PROVE  /\ UNCHANGED <<env, cmd, phase, init, xdelta, firstPc>>
         /\ clone.pc = "idle" => clone.step = "pick" /\ clone.todo = {}
         /\ phase = "up" /\ xdelta = XdeltaIdle /\ firstPc = "idle"
<1>1. OneTool
  OBVIOUS
<1>2. UNCHANGED <<env, cmd, phase, init, xdelta, firstPc>>
  BY DEF CloneStep, CloneNext, CloneStart, CloneClearId, CloneCopyUnverified, CloneAbort,
         CloneNextLoop, CloneFinish, CloneWriteId, ClonePick, CloneCopyBegin, CloneCopyEnd,
         ClonePurge, WriteTarget, store, firstVars
<1>3. /\ clone.pc = "idle" => clone.step = "pick" /\ clone.todo = {}
      /\ phase = "up" /\ xdelta = XdeltaIdle /\ firstPc = "idle"
  <2>1. clone.pc = "idle" => clone.step = "pick" /\ clone.todo = {}
    BY <1>1 DEF OneTool, CloneIdle
  <2>2. clone.pc = "idle" => CloneStart
    BY <2>1 DEF CloneStep, CloneNext, CloneClearId, CloneCopyUnverified, CloneAbort,
         CloneNextLoop, LoopOver, CloneFinish, CloneOver, CloneWriteId, ClonePick,
         CloneCopyBegin, CloneCopyEnd, ClonePurge, Syncing, Purging
  <2> QED
    BY <1>1, <2>1, <2>2 DEF CloneStep, CloneStart, MayStartTool, NoTool, OneTool
<1> QED
  BY <1>2, <1>3

(* The invocation is set up as it is written down, and the id it has cleared *)
(* is still cleared: only its own last step writes it.                       *)
LEMMA CloneTools ==
  ASSUME Exclusive, ToolInv, CloneStep
  PROVE  OneTool' /\ ClearedMeansNoId'
<1> DEFINE Fresh == ids'[CloneTarget] = NoId
           P == /\ clone'.pc = "idle" => clone' = CloneIdle
                /\ clone'.step \in {"touch", "copy"} => clone'.cleared
                /\ clone'.cleared => Fresh
<1>1. /\ TypeOK /\ StoreTypeOK /\ CloneTypeOK /\ OneTool /\ ClearedMeansNoId
      /\ CloneTarget \in Halves
  BY TargetTypes DEF ToolInv, TypeOK
<1>2. UNCHANGED <<env, cmd, phase, init, xdelta, firstPc>>
  BY <1>1, CloneFrame
<1>3. /\ clone.step \in {"touch", "copy"} => clone.cleared
      /\ clone.cleared => ids[CloneTarget] = NoId
  BY <1>1 DEF ClearedMeansNoId
<1>4. /\ clone.pc = "idle" => clone.step = "pick" /\ clone.todo = {}
      /\ phase = "up" /\ xdelta = XdeltaIdle /\ firstPc = "idle"
  BY <1>1, CloneFrame
<1>5. UNCHANGED store => ids' = ids
  BY DEF store
<1>6. clone' = CloneIdle => P
  BY DEF CloneIdle
<1>7. ASSUME CloneStart PROVE P
  BY <1>5, <1>7 DEF CloneStart, CloneIdle
<1>8. ASSUME CloneClearId PROVE P
  <2>1. Fresh
    BY <1>1, <1>8 DEF CloneClearId, ClearId, StoreTypeOK
  <2> QED
    BY <1>1, <1>4, <1>8, <2>1 DEF CloneClearId, CloneTypeOK
<1>9. ASSUME CloneCopyUnverified PROVE P
  BY <1>1, <1>3, <1>4, <1>5, <1>9 DEF CloneCopyUnverified, FileDone, CloneTypeOK
<1>10. ASSUME CloneAbort \/ CloneWriteId PROVE P
  BY <1>6, <1>10 DEF CloneAbort, CloneWriteId
<1>11. ASSUME CloneNextLoop PROVE P
  BY <1>1, <1>3, <1>5, <1>11 DEF CloneNextLoop, LoopOver, CloneTypeOK
<1>12. ASSUME CloneFinish PROVE P
  BY <1>1, <1>3, <1>5, <1>6, <1>12 DEF CloneFinish, CloneTypeOK
<1>13. ASSUME NEW l \in Locs, ClonePick(l) PROVE P
  BY <1>1, <1>3, <1>4, <1>5, <1>13 DEF ClonePick, CloneTypeOK
<1>14. ASSUME NEW l \in Locs, CloneCopyBegin(l) PROVE P
  BY <1>1, <1>3, <1>4, <1>14 DEF CloneCopyBegin, CloneTypeOK
<1>15. ASSUME NEW l \in Locs, CloneCopyEnd(l) \/ ClonePurge(l) PROVE P
  BY <1>1, <1>3, <1>4, <1>15 DEF CloneCopyEnd, ClonePurge, FileDone, CloneTypeOK
<1>16. P
  BY <1>7, <1>8, <1>9, <1>10, <1>11, <1>12, <1>13, <1>14, <1>15 DEF CloneStep, CloneNext
<1>17. OneTool'
  BY <1>2, <1>4, <1>16 DEF OneTool, NoTool, XdeltaIdle
<1>18. ClearedMeansNoId'
  <2>1. CloneTarget' = CloneTarget
    BY <1>2 DEF CloneTarget
  <2> QED
    BY <1>2, <1>4, <1>16, <2>1 DEF ClearedMeansNoId, XdeltaIdle
<1> QED
  BY <1>17, <1>18

LEMMA XdeltaFrame ==
  ASSUME Exclusive, OneTool, XdeltaStep
  PROVE  /\ UNCHANGED <<cmd, phase, init, clone, firstPc>>
         /\ UNCHANGED env \/ XdeltaFlag
         /\ xdelta.pc = "idle" => xdelta.step = "pick" /\ xdelta.todo = {}
         /\ phase = "up" /\ clone = CloneIdle /\ firstPc = "idle"
<1>1. OneTool
  OBVIOUS
<1>2. UNCHANGED <<cmd, phase, init, clone, firstPc>> /\ (UNCHANGED env \/ XdeltaFlag)
  <2>1. UNCHANGED <<init, clone, firstPc>>
    BY DEF XdeltaStep, firstVars
  <2>2. UNCHANGED <<cmd, phase>>
    BY DEF XdeltaStep, XdeltaNext, XdeltaStart, XdeltaClearId, XdeltaAbort, XdeltaDataLoop,
           XdeltaFilesOver, XdeltaWriteId, XdeltaFlag, XdeltaAlreadyGood, XdeltaFetch,
           XdeltaCopyFromCurrent, XdeltaSkip, XdeltaWriteBegin, XdeltaWriteEnd, store
  <2>3. UNCHANGED env \/ XdeltaFlag
    BY DEF XdeltaStep, XdeltaNext, XdeltaStart, XdeltaClearId, XdeltaAbort, XdeltaDataLoop,
           XdeltaFilesOver, XdeltaWriteId, XdeltaAlreadyGood, XdeltaFetch,
           XdeltaCopyFromCurrent, XdeltaSkip, XdeltaWriteBegin, XdeltaWriteEnd, store
  <2> QED
    BY <2>1, <2>2, <2>3
<1>3. /\ xdelta.pc = "idle" => xdelta.step = "pick" /\ xdelta.todo = {}
      /\ phase = "up" /\ clone = CloneIdle /\ firstPc = "idle"
  <2>1. xdelta.pc = "idle" => /\ xdelta.step = "pick" /\ xdelta.todo = {}
                              /\ ~xdelta.download
    BY <1>1 DEF OneTool, XdeltaIdle
  <2>2. xdelta.pc = "idle" => XdeltaStart
    BY <2>1 DEF XdeltaStep, XdeltaNext, XdeltaClearId, XdeltaAbort, XdeltaDataLoop,
           XdeltaFilesOver, XdeltaWriteId, XdeltaFlag, XdeltaAlreadyGood, XdeltaFetch,
           XdeltaCopyFromCurrent, XdeltaSkip, XdeltaWriteBegin, XdeltaWriteEnd, Picking, NoUpdate
  <2> QED
    BY <1>1, <2>1, <2>2 DEF XdeltaStep, XdeltaStart, MayStartTool, NoTool, OneTool
<1> QED
  BY <1>2, <1>3

LEMMA XdeltaTools ==
  ASSUME Exclusive, ToolInv, XdeltaStep
  PROVE  OneTool' /\ ClearedMeansNoId'
<1> DEFINE Fresh == ids'[TargetHalf] = NoId
           P == /\ xdelta'.pc = "idle" => xdelta' = XdeltaIdle
                /\ xdelta'.step \in {"touch", "copy"} => xdelta'.cleared
                /\ xdelta'.cleared /\ xdelta'.pc # "flag" => Fresh
                /\ xdelta'.pc \in {"id", "flag"} =>
                     xdelta'.step = "pick" /\ xdelta'.todo = {}
<1>1. /\ TypeOK /\ StoreTypeOK /\ XdeltaTypeOK /\ OneTool /\ ClearedMeansNoId
      /\ TargetHalf \in Halves
  BY TargetTypes DEF ToolInv, TypeOK
<1>2. UNCHANGED <<cmd, phase, init, clone, firstPc>>
  BY <1>1, XdeltaFrame
<1>3. /\ xdelta.step \in {"touch", "copy"} => xdelta.cleared
      /\ xdelta.cleared /\ xdelta.pc # "flag" => ids[TargetHalf] = NoId
      /\ xdelta.pc \in {"id", "flag"} => xdelta.step = "pick" /\ xdelta.todo = {}
  BY <1>1 DEF ClearedMeansNoId
<1>4. /\ xdelta.pc = "idle" => xdelta.step = "pick" /\ xdelta.todo = {}
      /\ phase = "up" /\ clone = CloneIdle /\ firstPc = "idle"
  BY <1>1, XdeltaFrame
<1>5. UNCHANGED store => ids' = ids
  BY DEF store
<1>6. xdelta' = XdeltaIdle => P
  BY DEF XdeltaIdle
<1>7. ASSUME XdeltaStart PROVE P
  <2>1. PICK pkg \in Packages, download \in BOOLEAN, other \in BOOLEAN :
          xdelta' = [XdeltaIdle EXCEPT !.pc = "boot", !.todo = Existing(BootLocs),
                       !.pkg = pkg, !.download = download, !.pending = other]
    BY <1>7 DEF XdeltaStart
  <2> QED
    BY <1>5, <1>7, <2>1 DEF XdeltaStart, XdeltaIdle
<1>8. ASSUME XdeltaClearId PROVE P
  <2>1. Fresh
    BY <1>1, <1>8 DEF XdeltaClearId, ClearId, StoreTypeOK
  <2> QED
    BY <1>1, <1>3, <1>4, <1>8, <2>1 DEF XdeltaClearId, XdeltaTypeOK
<1>9. ASSUME XdeltaAbort \/ XdeltaFlag PROVE P
  BY <1>6, <1>9 DEF XdeltaAbort, XdeltaFlag
<1>10. ASSUME XdeltaDataLoop PROVE P
  BY <1>1, <1>3, <1>5, <1>10 DEF XdeltaDataLoop, XdeltaTypeOK
<1>11. ASSUME XdeltaFilesOver PROVE P
  BY <1>1, <1>3, <1>5, <1>6, <1>11 DEF XdeltaFilesOver, AfterId, XdeltaTypeOK
<1>12. ASSUME XdeltaWriteId PROVE P
  BY <1>1, <1>3, <1>6, <1>12 DEF XdeltaWriteId, AfterId, XdeltaTypeOK
<1>13. ASSUME NEW l \in Locs, XdeltaAlreadyGood(l) PROVE P
  BY <1>1, <1>3, <1>4, <1>5, <1>13 DEF XdeltaAlreadyGood, Picking, XdeltaTypeOK
<1>14. ASSUME NEW l \in Locs, NEW from, Picking(l), Start(l, from), UNCHANGED store PROVE P
  BY <1>1, <1>3, <1>4, <1>5, <1>14 DEF Start, Picking, XdeltaTypeOK
<1>15. ASSUME NEW l \in Locs, XdeltaFetch(l) \/ XdeltaCopyFromCurrent(l) PROVE P
  BY <1>14, <1>15 DEF XdeltaFetch, XdeltaCopyFromCurrent, NoUpdate
<1>16. ASSUME NEW l \in Locs, XdeltaSkip(l) PROVE P
  BY <1>1, <1>3, <1>4, <1>5, <1>16 DEF XdeltaSkip, NoUpdate, Picking, XdeltaTypeOK
<1>17. ASSUME NEW l \in Locs, XdeltaWriteBegin(l) PROVE P
  BY <1>1, <1>3, <1>4, <1>17 DEF XdeltaWriteBegin, XdeltaTypeOK
<1>18. ASSUME NEW l \in Locs, XdeltaWriteEnd(l) PROVE P
  BY <1>1, <1>3, <1>4, <1>18 DEF XdeltaWriteEnd, XdeltaTypeOK
<1>19. P
  BY <1>7, <1>8, <1>9, <1>10, <1>11, <1>12, <1>13, <1>15, <1>16, <1>17, <1>18
     DEF XdeltaStep, XdeltaNext
<1>20. OneTool'
  BY <1>2, <1>4, <1>19 DEF OneTool, NoTool, CloneIdle
<1>21. ClearedMeansNoId'
  <2>1. TargetHalf' = TargetHalf
    BY <1>2 DEF TargetHalf
  <2> QED
    BY <1>2, <1>4, <1>19, <2>1 DEF ClearedMeansNoId, CloneIdle
<1> QED
  BY <1>20, <1>21

(* The initialization may write either id, but only while no tool runs. *)
LEMMA FirstFrame ==
  ASSUME Exclusive, OneTool, FirstStep
  PROVE  /\ UNCHANGED <<disk, staged, cmd, phase, init, clone, xdelta>>
         /\ firstPc' # "idle" => phase = "up" /\ clone = CloneIdle /\ xdelta = XdeltaIdle
         /\ ids' = ids \/ firstPc' # "idle"
<1>1. UNCHANGED <<disk, staged, cmd, phase, init, clone, xdelta>>
  BY DEF FirstStep, FirstNext, PersistCreated, FirstStart, FirstId, FirstRemoveTrigger,
     FirstFlagSuccess, store
<1>2. firstPc' # "idle" => phase = "up" /\ clone = CloneIdle /\ xdelta = XdeltaIdle
  BY DEF FirstStep, FirstNext, PersistCreated, FirstStart, FirstId, FirstRemoveTrigger,
     FirstFlagSuccess, MayStartTool, NoTool, OneTool
<1>3. ids' = ids \/ firstPc' # "idle"
  BY DEF FirstStep, FirstNext, PersistCreated, FirstStart, FirstId, FirstRemoveTrigger,
     FirstFlagSuccess, store
<1> QED
  BY <1>1, <1>2, <1>3

LEMMA FirstTools ==
  ASSUME Exclusive, ToolInv, FirstStep
  PROVE  OneTool' /\ ClearedMeansNoId'
<1>1. OneTool /\ ClearedMeansNoId
  BY DEF ToolInv
<1>2. OneTool'
  BY <1>1, FirstFrame DEF OneTool, NoTool, CloneIdle, XdeltaIdle
<1>3. ClearedMeansNoId'
  BY <1>1, FirstFrame DEF ClearedMeansNoId, CloneTarget, TargetHalf, CloneIdle, XdeltaIdle
<1> QED
  BY <1>2, <1>3

(* The steps of the boot, of the power and of the application. *)
LEMMA BootTools ==
  ASSUME ToolInv,
         \/ UBootStep \/ InitRamStep \/ PowerOff \/ BootFails \/ BootSucceeds
         \/ FirstReboot \/ AppAccepts \/ OperatorForces \/ UNCHANGED vars
  PROVE  OneTool' /\ ClearedMeansNoId'
<1>1. OneTool /\ ClearedMeansNoId
  BY DEF ToolInv
<1>2. CASE UBootStep
  BY <1>1, <1>2
     DEF UBootStep, Mmcargs, firstVars, OneTool, NoTool, ClearedMeansNoId, CloneIdle, XdeltaIdle
<1>3. CASE PowerOff \/ BootFails \/ FirstReboot
  BY <1>1, <1>3
     DEF PowerOff, BootFails, FirstReboot, Down, OneTool, NoTool, ClearedMeansNoId, CloneIdle,
         XdeltaIdle
<1>4. CASE InitRamStep
  <2>1. UNCHANGED <<ids, cmd, clone, xdelta, firstPc>> /\ phase # "up" /\ phase' # "up"
    BY <1>4 DEF InitRamStep, InitRamNext, EnterRootfsLoop, EnterExtraLoop, UpdatesOver,
       UpdateBegin, UpdateDone, UpdatePanic, firstVars, store
  <2> QED
    BY <1>1, <2>1 DEF OneTool, NoTool, ClearedMeansNoId, CloneTarget, TargetHalf
<1>5. CASE BootSucceeds \/ AppAccepts \/ OperatorForces \/ UNCHANGED vars
  <2>1. UNCHANGED <<ids, cmd, clone, xdelta, firstPc>> /\ (phase' = "up" \/ phase' = phase)
    BY <1>5 DEF BootSucceeds, AppAccepts, OperatorForces, vars, store, firstVars
  <2> QED
    BY <1>1, <2>1 DEF OneTool, NoTool, ClearedMeansNoId, CloneTarget, TargetHalf
<1> QED
  BY <1>2, <1>3, <1>4, <1>5

LEMMA InitTools == ASSUME Init PROVE ToolInv
<1>1. OneTool
  BY DEF Init, CloneInit, CloneIdle, XdeltaInit, XdeltaIdle, FirstInitInit, OneTool, NoTool
<1>2. ClearedMeansNoId
  BY DEF Init, CloneInit, CloneIdle, XdeltaInit, XdeltaIdle, ClearedMeansNoId
<1> QED
  BY <1>1, <1>2, InitTyped DEF ToolInv

LEMMA NextTools ==
  ASSUME Exclusive, ToolInv, [Next]_vars
  PROVE  ToolInv'
<1>1. TypeOK'
  BY NextTyped DEF ToolInv
<1>2. OneTool' /\ ClearedMeansNoId'
  BY CloneTools, XdeltaTools, FirstTools, BootTools DEF Next
<1> QED
  BY <1>1, <1>2 DEF ToolInv

LEMMA ToolsAlways == ASSUME Exclusive PROVE Spec => []ToolInv
<1>1. Init => ToolInv
  BY InitTools
<1>2. ToolInv /\ [Next]_vars => ToolInv'
  BY NextTools
<1> QED
  BY <1>1, <1>2, PTL DEF Spec

(* Nobody asks for a forced single boot where nobody may. *)
LEMMA NoForceStep ==
  ASSUME ~AllowForce, TypeOK, ~env.force, ~cmd.force, [Next]_vars
  PROVE  ~env'.force /\ ~cmd'.force
<1>1. TypeOK /\ StoreTypeOK
  BY DEF TypeOK
<1>2. CASE UBootStep
  BY <1>1, <1>2 DEF UBootStep, Mmcargs, StoreTypeOK
<1>3. CASE InitRamStep
  BY <1>3 DEF InitRamStep, InitRamNext, EnterRootfsLoop, EnterExtraLoop, UpdatesOver,
     UpdateBegin, UpdateDone, UpdatePanic, store
<1>4. CASE CloneStep
  BY <1>4 DEF CloneStep, CloneNext, CloneStart, CloneClearId, CloneCopyUnverified, CloneAbort,
     CloneNextLoop, CloneFinish, CloneWriteId, ClonePick, CloneCopyBegin, CloneCopyEnd,
     ClonePurge, store
<1>5. CASE XdeltaStep
  <2>1. CASE XdeltaFlag
    BY <1>1, <2>1 DEF XdeltaFlag, StoreTypeOK
  <2>2. CASE ~XdeltaFlag
    BY <1>5, <2>2 DEF XdeltaStep, XdeltaNext, XdeltaStart, XdeltaClearId, XdeltaAbort,
       XdeltaDataLoop, XdeltaFilesOver, XdeltaWriteId, XdeltaAlreadyGood, XdeltaFetch,
       XdeltaCopyFromCurrent, XdeltaSkip, XdeltaWriteBegin, XdeltaWriteEnd, store
  <2> QED
    BY <2>1, <2>2
<1>6. CASE FirstStep
  BY <1>1, <1>6 DEF FirstStep, FirstNext, PersistCreated, FirstStart, FirstId,
     FirstRemoveTrigger, FirstFlagSuccess, store, StoreTypeOK
<1>7. CASE PowerOff \/ BootFails \/ FirstReboot
  BY <1>7 DEF PowerOff, BootFails, FirstReboot, Down
<1>8. CASE BootSucceeds \/ AppAccepts \/ UNCHANGED vars
  BY <1>1, <1>8 DEF BootSucceeds, AppAccepts, vars, store, StoreTypeOK
<1>9. CASE OperatorForces
  BY <1>9 DEF OperatorForces
<1> QED
  BY <1>2, <1>3, <1>4, <1>5, <1>6, <1>7, <1>8, <1>9 DEF Next

LEMMA ForceOnlyIfAllowed ==
  ASSUME ~AllowForce
  PROVE  Spec => [](~env.force /\ ~cmd.force)
<1> DEFINE NoForce == ~env.force /\ ~cmd.force
<1>1. Init => NoForce
  BY DEF Init, StoreInit
<1>2. ASSUME TypeOK, NoForce, [Next]_vars PROVE NoForce'
  BY <1>2, NoForceStep
<1> QED
  BY <1>1, <1>2, TypeCorrect, PTL DEF Spec

(* While a tool touches the files of a half, that half has no id file: in    *)
(* either scheme, and with forced single boot too where the boot assets do   *)
(* not go to the inactive partition all the same.                            *)
THEOREM NoIdWhileTouchedHolds ==
  ASSUME Exclusive, Partitions => ~AllowForce
  PROVE  Spec => []NoIdWhileTouched
<1>1. ASSUME ToolInv, Partitions => ~cmd.force PROVE NoIdWhileTouched
  <2>1. \A l \in xdelta.current : OutputHalf(l) = TargetHalf
    BY <1>1 DEF OutputHalf, TargetHalf
  <2>2. /\ clone.step \in {"touch", "copy"} => ids[CloneTarget] = NoId
        /\ xdelta.step \in {"touch", "copy"} => ids[TargetHalf] = NoId
    BY <1>1 DEF ToolInv, ClearedMeansNoId
  <2> QED
    BY <2>1, <2>2 DEF NoIdWhileTouched
<1>2. CASE AllowForce
  BY <1>1, <1>2, ToolsAlways, PTL
<1>3. CASE ~AllowForce
  BY <1>1, <1>3, ToolsAlways, ForceOnlyIfAllowed, PTL
<1> QED
  BY <1>2, <1>3

------------------------------------------------------------------------------
(* The half that runs, in either scheme and whatever runs at the same time   *)


(* With nothing staged and no forced single boot both tools write in place,  *)
(* on the half that is not running.                                          *)
LEMMA InPlace ==
  ASSUME TypeOK, NothingStaged, NEW l \in Locs
  PROVE  /\ ~HasUpdate(CloneTarget, l)
         /\ ~Staging(l)
         /\ OutputHalf(l) = TargetHalf
         /\ CloneTarget = Other(cmd.half) /\ TargetHalf = Other(cmd.half)
<1>1. staged[CloneTarget][l[2]] = NoFile
  BY LocsFacts, TargetTypes DEF TypeOK, NothingStaged
<1> QED
  BY <1>1 DEF NothingStaged, HasUpdate, Staging, OutputHalf, CloneTarget, TargetHalf

(* Both tools write to the half that is not running, and the initramfs finds *)
(* nothing staged to write to either.                                        *)
LEMMA WritesOtherHalf ==
  ASSUME TypeOK, NothingStaged, CloneStep \/ XdeltaStep
  PROVE  staged' = staged /\ disk'[cmd.half] = disk[cmd.half]
<1>1. /\ StoreTypeOK /\ cmd.half \in Halves /\ Other(cmd.half) # cmd.half
      /\ CloneTarget = Other(cmd.half)
  BY HalvesFacts DEF TypeOK, StoreTypeOK, CloneTarget
<1>2. ASSUME NEW l \in Locs, NEW v, WriteTarget(l, v) \/ Output(l, v)
      PROVE  staged' = staged /\ disk'[cmd.half] = disk[cmd.half]
  BY <1>1, <1>2, InPlace DEF WriteTarget, Output, StoreTypeOK
<1>3. ASSUME NEW l \in Locs, CloneCopyBegin(l) \/ CloneCopyEnd(l)
      PROVE  staged' = staged /\ disk'[cmd.half] = disk[cmd.half]
  BY <1>2, <1>3 DEF CloneCopyBegin, CloneCopyEnd
<1>4. ASSUME NEW l \in Locs, ClonePurge(l)
      PROVE  staged' = staged /\ disk'[cmd.half] = disk[cmd.half]
  BY <1>1, <1>4 DEF ClonePurge, StoreTypeOK
<1>5. ASSUME NEW l \in Locs, XdeltaWriteBegin(l) \/ XdeltaWriteEnd(l)
      PROVE  staged' = staged /\ disk'[cmd.half] = disk[cmd.half]
  BY <1>2, <1>5, InPlace DEF XdeltaWriteBegin, XdeltaWriteEnd
<1>6. CASE CloneStep
  BY <1>3, <1>4, <1>6
     DEF CloneStep, CloneNext, CloneStart, CloneClearId, CloneCopyUnverified, CloneAbort,
         CloneNextLoop, CloneFinish, CloneWriteId, ClonePick, store
<1>7. CASE XdeltaStep
  BY <1>5, <1>7
     DEF XdeltaStep, XdeltaNext, XdeltaStart, XdeltaClearId, XdeltaAbort, XdeltaDataLoop,
         XdeltaFilesOver, XdeltaWriteId, XdeltaFlag, XdeltaAlreadyGood, XdeltaFetch,
         XdeltaCopyFromCurrent, XdeltaSkip, store
<1> QED
  BY <1>6, <1>7

LEMMA RunningHalfStep ==
  ASSUME TypeOK, NothingStaged, [Next]_vars
  PROVE  /\ staged' = staged /\ init' = Idle /\ disk'[cmd.half] = disk[cmd.half]
         /\ phase # "off" => cmd' = cmd
<1>1. Pending = {} /\ init = Idle
  BY DEF NothingStaged, Pending
<1>2. CASE CloneStep \/ XdeltaStep
  <2>1. init' = init /\ cmd' = cmd
    BY <1>2
       DEF CloneStep, CloneNext, CloneStart, CloneClearId, CloneCopyUnverified, CloneAbort,
           CloneNextLoop, CloneFinish, CloneWriteId, ClonePick, CloneCopyBegin, CloneCopyEnd,
           ClonePurge, store, XdeltaStep, XdeltaNext, XdeltaStart, XdeltaClearId, XdeltaAbort,
           XdeltaDataLoop, XdeltaFilesOver, XdeltaWriteId, XdeltaFlag, XdeltaAlreadyGood,
           XdeltaFetch, XdeltaCopyFromCurrent, XdeltaSkip, XdeltaWriteBegin, XdeltaWriteEnd
  <2> QED
    BY <1>1, <1>2, <2>1, WritesOtherHalf
<1>3. CASE FirstStep
  BY <1>1, <1>3 DEF FirstStep, FirstNext, PersistCreated, FirstStart, FirstId,
     FirstRemoveTrigger, FirstFlagSuccess, store
<1>4. CASE InitRamStep
  BY <1>1, <1>4 DEF InitRamStep, InitRamNext, EnterRootfsLoop, EnterExtraLoop, UpdatesOver,
     UpdateBegin, UpdateDone, UpdatePanic, Idle, store
<1>5. CASE UBootStep \/ PowerOff \/ BootFails \/ FirstReboot \/ BootSucceeds \/ AppAccepts
           \/ OperatorForces \/ UNCHANGED vars
  BY <1>1, <1>5 DEF UBootStep, Mmcargs, PowerOff, BootFails, FirstReboot, Down, BootSucceeds,
     AppAccepts, OperatorForces, vars, store
<1> QED
  BY <1>2, <1>3, <1>4, <1>5 DEF Next

LEMMA NothingStagedAlways ==
  ASSUME ~AllowForce
  PROVE  Spec => [](TypeOK /\ NothingStaged)
<1>1. Init => TypeOK /\ NothingStaged
  BY InitTyped DEF Init, StoreInit, InitRamInit, NothingStaged
<1>2. ASSUME TypeOK, NothingStaged, [Next]_vars PROVE (TypeOK /\ NothingStaged)'
  <2>1. ~env'.force /\ ~cmd'.force
    BY <1>2, NoForceStep DEF NothingStaged
  <2> QED
    BY <1>2, <2>1, NextTyped, RunningHalfStep DEF NothingStaged
<1> QED
  BY <1>1, <1>2, PTL DEF Spec

(* No step of a tool, of the initialization or of the boot changes the half  *)
(* the system runs from: in either scheme, with any number of tools at once  *)
(* and whatever fails, as long as single boot is not forced.                 *)
THEOREM RunningHalfIsUntouched ==
  ASSUME ~AllowForce
  PROVE  Spec => RunningHalfUntouched
<1>1. ASSUME TypeOK, NothingStaged, [Next]_vars, phase # "off"
      PROVE  Content(cmd.half)' = Content(cmd.half)
  <2>1. cmd.half \in Halves
    BY <1>1 DEF TypeOK, StoreTypeOK
  <2> QED
    BY <1>1, <2>1, RunningHalfStep, ContentFrame
<1>2. TypeOK /\ NothingStaged /\ [Next]_vars =>
        [phase # "off" /\ ~cmd.force => Content(cmd.half)' = Content(cmd.half)]_vars
  BY <1>1
<1> QED
  BY <1>2, NothingStagedAlways, PTL DEF Spec, RunningHalfUntouched

(* The tools, with nothing staged. *)
Unforced == ToolInv /\ NothingStaged

LEMMA UnforcedAlways == ASSUME Exclusive, ~AllowForce PROVE Spec => []Unforced
BY ToolsAlways, NothingStagedAlways, PTL DEF Unforced

------------------------------------------------------------------------------
(* The inductive invariant of the files-based scheme *)

LEMMA InitInv == ASSUME ~AllowForce, Init PROVE IInv
<1>1. ToolInv
  BY InitTools
<1>2. NothingStaged
  BY DEF Init, StoreInit, InitRamInit, NothingStaged
<1>3. IdSound
  BY DEF Init, StoreInit, IdSound
<1> QED
  BY <1>1, <1>2, <1>3 DEF IInv, ToolInv

(* A tool changes the files of a half only after it has cleared its id, and  *)
(* writes the id of what the half then holds.                                *)
LEMMA CloneInv ==
  ASSUME ~Partitions, Exclusive, IInv, CloneStep
  PROVE  NothingStaged' /\ IdSound'
<1> DEFINE P == staged' = staged /\ IdSound'
<1>1. /\ TypeOK /\ StoreTypeOK /\ NothingStaged /\ OneTool /\ IdSound /\ CloneTarget \in Halves
      /\ clone.step \in {"touch", "copy"} => ids[CloneTarget] = NoId
  BY TargetTypes DEF IInv, TypeOK, ClearedMeansNoId
<1>2. UNCHANGED <<env, cmd, phase, init, xdelta, firstPc>>
  BY <1>1, CloneFrame
<1>3. UNCHANGED store => P
  BY <1>1, KeepSound DEF store
<1>4. ASSUME CloneClearId PROVE P
  BY <1>1, <1>4, ClearSound DEF CloneClearId
<1>5. ASSUME CloneWriteId PROVE P
  BY <1>1, <1>5, KeepSound, WriteSound DEF CloneWriteId
<1>6. ASSUME clone.step \in {"touch", "copy"}, UNCHANGED <<staged, ids>>, NEW l, NEW v,
             disk' = [disk EXCEPT ![CloneTarget][l] = v]
      PROVE  P
  <2>1. \A g \in Halves \ {CloneTarget} : disk'[g] = disk[g]
    BY <1>1, <1>6 DEF StoreTypeOK
  <2> QED
    BY <1>1, <1>6, <2>1, TouchSound
<1>7. ASSUME NEW l \in Locs, CloneCopyBegin(l) \/ CloneCopyEnd(l) PROVE P
  <2>1. PICK v : WriteTarget(l, v)
    BY <1>7 DEF CloneCopyBegin, CloneCopyEnd
  <2>2. disk' = [disk EXCEPT ![CloneTarget][l] = v] /\ UNCHANGED <<staged, ids>>
    BY <1>1, <1>7, <2>1, InPlace DEF WriteTarget, CloneCopyBegin, CloneCopyEnd
  <2>3. clone.step \in {"touch", "copy"}
    BY <1>7 DEF CloneCopyBegin, CloneCopyEnd
  <2> QED
    BY <1>6, <2>2, <2>3
<1>8. ASSUME NEW l \in Locs, ClonePurge(l) PROVE P
  BY <1>6, <1>8 DEF ClonePurge
<1>9. P
  BY <1>3, <1>4, <1>5, <1>7, <1>8
     DEF CloneStep, CloneNext, CloneStart, CloneCopyUnverified, CloneAbort, CloneNextLoop,
         CloneFinish, ClonePick
<1>10. NothingStaged'
  BY <1>1, <1>2, <1>9 DEF NothingStaged
<1> QED
  BY <1>9, <1>10

LEMMA XdeltaInv ==
  ASSUME ~Partitions, Exclusive, IInv, XdeltaStep
  PROVE  NothingStaged' /\ IdSound'
<1> DEFINE P == staged' = staged /\ IdSound'
<1>1. /\ TypeOK /\ StoreTypeOK /\ NothingStaged /\ OneTool /\ IdSound /\ TargetHalf \in Halves
      /\ xdelta.step \in {"touch", "copy"} /\ xdelta.pc # "flag" => ids[TargetHalf] = NoId
      /\ xdelta.pc = "flag" => xdelta.step = "pick"
  BY TargetTypes DEF IInv, TypeOK, ClearedMeansNoId
<1>2. UNCHANGED <<cmd, phase, init, clone, firstPc>> /\ env'.force = env.force
  BY <1>1, XdeltaFrame DEF XdeltaFlag, StoreTypeOK
<1>3. UNCHANGED <<disk, staged, ids>> => P
  BY <1>1, KeepSound
<1>4. ASSUME XdeltaClearId PROVE P
  BY <1>1, <1>4, ClearSound DEF XdeltaClearId
<1>5. ASSUME XdeltaWriteId PROVE P
  BY <1>1, <1>5, KeepSound, WriteSound DEF XdeltaWriteId
<1>6. ASSUME NEW l \in Locs, NEW v, Output(l, v)
      PROVE  staged' = staged /\ \A g \in Halves \ {TargetHalf} : disk'[g] = disk[g]
  BY <1>1, <1>6, InPlace DEF Output, StoreTypeOK
<1>7. ASSUME NEW l \in Locs, XdeltaWriteBegin(l) \/ XdeltaWriteEnd(l) PROVE P
  <2>1. ids' = ids /\ ids[TargetHalf] = NoId /\ \E v : Output(l, v)
    BY <1>1, <1>7, InPlace DEF XdeltaWriteBegin, XdeltaWriteEnd
  <2> QED
    BY <1>1, <1>6, <2>1, TouchSound
<1>8. P
  BY <1>3, <1>4, <1>5, <1>7
     DEF XdeltaStep, XdeltaNext, XdeltaStart, XdeltaAbort, XdeltaDataLoop, XdeltaFilesOver,
         XdeltaFlag, XdeltaAlreadyGood, XdeltaFetch, XdeltaCopyFromCurrent, XdeltaSkip, store
<1>9. NothingStaged'
  BY <1>1, <1>2, <1>8 DEF NothingStaged
<1> QED
  BY <1>8, <1>9

LEMMA FirstInv ==
  ASSUME ~Partitions, Exclusive, IInv, FirstStep
  PROVE  NothingStaged' /\ IdSound'
<1>1. TypeOK /\ StoreTypeOK /\ NothingStaged /\ OneTool /\ IdSound
  BY DEF IInv, TypeOK
<1>2. UNCHANGED <<disk, staged, cmd, init>>
  BY <1>1, FirstFrame
<1>3. env'.force = env.force
  BY <1>1 DEF FirstStep, FirstNext, PersistCreated, FirstStart, FirstId, FirstRemoveTrigger,
     FirstFlagSuccess, store, StoreTypeOK
<1>4. IdSound'
  <2>1. UNCHANGED ids => IdSound'
    BY <1>1, <1>2, KeepSound
  <2>2. ASSUME NEW h \in Halves, NEW pc, NEW next, FirstId(h, pc, next)
        PROVE  IdSound'
    BY <1>1, <1>2, <2>1, <2>2, WriteSound DEF FirstId
  <2> QED
    BY <2>1, <2>2 DEF FirstStep, FirstNext, PersistCreated, FirstStart, FirstRemoveTrigger,
         FirstFlagSuccess, store, Halves
<1>5. NothingStaged'
  BY <1>1, <1>2, <1>3 DEF NothingStaged
<1> QED
  BY <1>4, <1>5

(* The steps of the boot, of the power and of the application. *)
LEMMA BootInv ==
  ASSUME ~AllowForce, IInv,
         \/ UBootStep \/ InitRamStep \/ PowerOff \/ BootFails \/ BootSucceeds
         \/ FirstReboot \/ AppAccepts \/ OperatorForces \/ UNCHANGED vars
  PROVE  NothingStaged' /\ IdSound'
<1>1. TypeOK /\ StoreTypeOK /\ NothingStaged /\ IdSound
  BY DEF IInv, TypeOK
<1>2. Pending = {} /\ init = Idle
  BY <1>1 DEF NothingStaged, Pending
<1>3. UNCHANGED <<disk, staged, ids>> /\ init' = Idle
  BY <1>2 DEF UBootStep, Mmcargs, InitRamStep, InitRamNext, EnterRootfsLoop, EnterExtraLoop,
     UpdatesOver, UpdateBegin, UpdateDone, UpdatePanic, PowerOff, BootFails, FirstReboot, Down,
     BootSucceeds, AppAccepts, OperatorForces, vars, store, Idle
<1>4. ~env'.force /\ ~cmd'.force
  BY <1>1, NoForceStep DEF NothingStaged, Next
<1> QED
  BY <1>1, <1>3, <1>4, KeepSound DEF NothingStaged

LEMMA NextInv ==
  ASSUME ~Partitions, Exclusive, ~AllowForce, IInv, [Next]_vars
  PROVE  IInv'
<1>1. ToolInv'
  BY NextTools DEF IInv, ToolInv
<1>2. NothingStaged' /\ IdSound'
  BY CloneInv, XdeltaInv, FirstInv, BootInv DEF Next
<1> QED
  BY <1>1, <1>2 DEF IInv, ToolInv

(* The invariant the safety properties rest on: an id that exists is the id  *)
(* of its half, and an invocation that has cleared an id finds it cleared.   *)
THEOREM Inductive ==
  ASSUME ~Partitions, Exclusive, ~AllowForce
  PROVE  Spec => []IInv
<1>1. Init => IInv
  BY InitInv
<1>2. IInv /\ [Next]_vars => IInv'
  BY NextInv
<1> QED
  BY <1>1, <1>2, PTL DEF Spec

------------------------------------------------------------------------------
(* Forced single boot *)

(* Forced single boot stages the updates of the running half. The ids stay   *)
(* sound where every squashfs is a boot asset: the initramfs then turns a    *)
(* staged update into the asset it stood for.                                *)
BootFull ==
  \A h \in Halves :
    /\ \A l \in BootLocs : disk[h][l] # NoFile
    /\ \A l \in DataLocs : disk[h][l] = NoFile

BootOnly ==
  /\ BootFull
  /\ clone.todo \cup clone.current \subseteq BootLocs
  /\ xdelta.todo \cup xdelta.current \subseteq BootLocs
  /\ clone.step = "pick" => clone.current = {}
  /\ Purging => clone.step = "pick"
  /\ \A l \in xdelta.current : xdelta.from = "package" => xdelta.pkg[l[2]] # NoFile
  /\ phase \notin {"rootfs", "extra"} => init = Idle
  /\ InitTodo \subseteq Pending /\ init.todo \cap init.current = {}

ForcedInv == ToolInv /\ StagedInv /\ BootOnly /\ IdSound

LEMMA TornIsAFile == \A h : Torn(h) # NoFile
BY ContentsAssumption DEF Torn

(* A write to a boot asset of half h, in place or staged. *)
LEMMA WriteBoot ==
  ASSUME StoreTypeOK, BootFull, NEW h \in Halves, NEW l \in BootLocs, NEW v, v # NoFile,
         \/ disk' = [disk EXCEPT ![h][l] = v] /\ UNCHANGED staged
         \/ staged' = [staged EXCEPT ![h][l[2]] = v] /\ UNCHANGED disk
  PROVE  /\ BootFull'
         /\ \A g \in Halves \ {h} : disk'[g] = disk[g] /\ staged'[g] = staged[g]
<1>1. \A g \in Halves \ {h} : disk'[g] = disk[g] /\ staged'[g] = staged[g]
  BY DEF StoreTypeOK
<1>2. BootFull'
  <2>1. \A m \in Locs : disk'[h][m] = disk[h][m] \/ (m = l /\ disk'[h][m] = v)
    BY DEF StoreTypeOK
  <2> QED
    BY <1>1, <2>1, LoopsApart DEF BootFull
<1> QED
  BY <1>1, <1>2

LEMMA TouchHalfSound ==
  ASSUME IdSound, NEW h \in Halves, ids[h] = NoId, UNCHANGED ids,
         \A g \in Halves \ {h} : disk'[g] = disk[g] /\ staged'[g] = staged[g]
  PROVE  IdSound'
BY ContentFrame DEF IdSound

LEMMA CloneForced ==
  ASSUME ~Partitions, Exclusive, ForcedInv, CloneStep
  PROVE  BootOnly' /\ IdSound'
<1> DEFINE C == /\ clone'.todo \cup clone'.current \subseteq BootLocs
                /\ clone'.step = "pick" => clone'.current = {}
                /\ clone'.pc \in {"purgeBoot", "purgeData"} => clone'.step = "pick"
           P == BootFull' /\ C /\ IdSound'
<1>1. /\ TypeOK /\ StoreTypeOK /\ CloneTypeOK /\ OneTool /\ IdSound /\ CloneTarget \in Halves
      /\ cmd.half \in Halves /\ BootFull
      /\ clone.step \in {"touch", "copy"} => ids[CloneTarget] = NoId
      /\ clone.todo \cup clone.current \subseteq BootLocs
      /\ clone.step = "pick" => clone.current = {}
      /\ clone.pc \in {"purgeBoot", "purgeData"} => clone.step = "pick"
  BY TargetTypes DEF ForcedInv, ToolInv, TypeOK, ClearedMeansNoId, BootOnly, Purging
<1>2. UNCHANGED <<env, cmd, phase, init, xdelta>> /\ phase = "up"
  BY <1>1, CloneFrame
<1>3. UNCHANGED <<disk, staged, ids>> => BootFull' /\ IdSound'
  BY <1>1, KeepSound DEF BootFull
<1>4. clone' = CloneIdle => C
  BY DEF CloneIdle
<1>5. /\ Listed(cmd.half, BootLocs) \subseteq BootLocs
      /\ Listed(CloneTarget, BootLocs) \subseteq BootLocs
      /\ Listed(cmd.half, DataLocs) = {} /\ Listed(CloneTarget, DataLocs) = {}
  BY <1>1 DEF Listed, BootFull
<1>6. ASSUME CloneStart PROVE P
  BY <1>3, <1>5, <1>6 DEF CloneStart, CloneIdle, store
<1>7. ASSUME CloneClearId PROVE P
  <2>1. IdSound' /\ BootFull'
    BY <1>1, <1>7, ClearSound DEF CloneClearId, BootFull
  <2>2. C
    BY <1>1, <1>7 DEF CloneClearId, CloneTypeOK
  <2> QED
    BY <2>1, <2>2
<1>8. ASSUME CloneCopyUnverified PROVE P
  BY <1>1, <1>3, <1>8 DEF CloneCopyUnverified, FileDone, CloneTypeOK, store
<1>9. ASSUME CloneAbort PROVE P
  BY <1>3, <1>4, <1>9 DEF CloneAbort, store
<1>10. ASSUME CloneNextLoop PROVE P
  BY <1>1, <1>3, <1>5, <1>10 DEF CloneNextLoop, LoopOver, CloneTypeOK, store
<1>11. ASSUME CloneFinish PROVE P
  BY <1>1, <1>3, <1>4, <1>11 DEF CloneFinish, CloneTypeOK, store
<1>12. ASSUME CloneWriteId PROVE P
  <2>1. IdSound' /\ BootFull'
    BY <1>1, <1>3, <1>12, WriteSound DEF CloneWriteId, BootFull
  <2> QED
    BY <1>4, <1>12, <2>1 DEF CloneWriteId
<1>13. ASSUME NEW l \in Locs, ClonePick(l) PROVE P
  <2>1. l \in BootLocs /\ disk[cmd.half][l] # NoFile
    BY <1>1, <1>13 DEF ClonePick, BootFull
  <2>2. NeedsWork(l) => clone.pc \notin {"purgeBoot", "purgeData"}
    BY <2>1 DEF NeedsWork, Orphan, Syncing
  <2>3. C
    <3>1. CASE clone' = [clone EXCEPT !.todo = @ \ {l}]
      BY <1>1, <3>1 DEF CloneTypeOK
    <3>2. CASE /\ NeedsWork(l)
               /\ clone' = [clone EXCEPT !.todo = @ \ {l}, !.current = {l},
                                         !.step = IF clone.cleared THEN "touch" ELSE "clear"]
      BY <1>1, <2>1, <2>2, <3>2 DEF CloneTypeOK
    <3> QED
      BY <1>13, <3>1, <3>2 DEF ClonePick
  <2> QED
    BY <1>3, <1>13, <2>3 DEF ClonePick, store
<1>14. ASSUME NEW l \in Locs, NEW v, CloneCopyBegin(l) \/ CloneCopyEnd(l), v # NoFile,
              WriteTarget(l, v)
       PROVE  P
  <2>1. /\ l \in BootLocs /\ UNCHANGED ids /\ ids[CloneTarget] = NoId
        /\ clone.step # "pick"
    BY <1>1, <1>14 DEF CloneCopyBegin, CloneCopyEnd
  <2>2. \/ disk' = [disk EXCEPT ![CloneTarget][l] = v] /\ UNCHANGED staged
        \/ staged' = [staged EXCEPT ![CloneTarget][l[2]] = v] /\ UNCHANGED disk
    BY <1>14 DEF WriteTarget
  <2>3. /\ BootFull'
        /\ \A g \in Halves \ {CloneTarget} : disk'[g] = disk[g] /\ staged'[g] = staged[g]
    BY <1>1, <1>14, <2>1, <2>2, WriteBoot
  <2>4. C
    BY <1>1, <1>14, <2>1 DEF CloneCopyBegin, CloneCopyEnd, FileDone, CloneTypeOK
  <2> QED
    BY <1>1, <2>1, <2>3, <2>4, TouchHalfSound
<1>15. ASSUME NEW l \in Locs, CloneCopyBegin(l) PROVE P
  BY <1>14, <1>15, TornIsAFile DEF CloneCopyBegin
<1>16. ASSUME NEW l \in Locs, CloneCopyEnd(l) PROVE P
  <2>1. Considered(cmd.half, l) # NoFile
    BY <1>1, <1>16 DEF CloneCopyEnd, Considered, HasUpdate, BootFull
  <2> QED
    BY <1>14, <1>16, <2>1 DEF CloneCopyEnd
<1>17. ASSUME NEW l \in Locs, ClonePurge(l) PROVE P
  BY <1>1, <1>17 DEF ClonePurge, Purging
<1>18. P
  BY <1>6, <1>7, <1>8, <1>9, <1>10, <1>11, <1>12, <1>13, <1>15, <1>16, <1>17
     DEF CloneStep, CloneNext
<1>19. init = Idle /\ xdelta.todo \cup xdelta.current \subseteq BootLocs
       /\ \A l \in xdelta.current : xdelta.from = "package" => xdelta.pkg[l[2]] # NoFile
  BY <1>2 DEF ForcedInv, BootOnly
<1> QED
  BY <1>2, <1>18, <1>19 DEF BootOnly, Purging, InitTodo, Idle

LEMMA XdeltaForced ==
  ASSUME ~Partitions, Exclusive, ForcedInv, XdeltaStep
  PROVE  BootOnly' /\ IdSound'
<1> DEFINE C == /\ xdelta'.todo \cup xdelta'.current \subseteq BootLocs
                /\ \A l \in xdelta'.current :
                     xdelta'.from = "package" => xdelta'.pkg[l[2]] # NoFile
           P == BootFull' /\ C /\ IdSound'
<1>1. /\ TypeOK /\ StoreTypeOK /\ XdeltaTypeOK /\ OneTool /\ IdSound /\ TargetHalf \in Halves
      /\ cmd.half \in Halves /\ BootFull
      /\ xdelta.step \in {"touch", "copy"} => ids[TargetHalf] = NoId
      /\ xdelta.todo \cup xdelta.current \subseteq BootLocs
      /\ \A l \in xdelta.current : xdelta.from = "package" => xdelta.pkg[l[2]] # NoFile
  BY TargetTypes DEF ForcedInv, ToolInv, TypeOK, ClearedMeansNoId, BootOnly
<1>2. UNCHANGED <<cmd, phase, init, clone>> /\ phase = "up"
  BY <1>1, XdeltaFrame
<1>3. UNCHANGED <<disk, staged, ids>> => BootFull' /\ IdSound'
  BY <1>1, KeepSound DEF BootFull
<1>4. xdelta' = XdeltaIdle => C
  BY DEF XdeltaIdle
<1>5. Existing(BootLocs) \subseteq BootLocs /\ Existing(DataLocs) = {}
  BY <1>1 DEF Existing, BootFull
<1>6. ASSUME XdeltaStart PROVE P
  <2>1. C
    BY <1>5, <1>6 DEF XdeltaStart, XdeltaIdle
  <2> QED
    BY <1>3, <1>6, <2>1 DEF XdeltaStart, store
<1>7. ASSUME XdeltaClearId PROVE P
  <2>1. IdSound' /\ BootFull'
    BY <1>1, <1>7, ClearSound DEF XdeltaClearId, BootFull
  <2>2. C
    BY <1>1, <1>7 DEF XdeltaClearId, XdeltaTypeOK
  <2> QED
    BY <2>1, <2>2
<1>8. ASSUME XdeltaAbort \/ XdeltaFlag PROVE P
  BY <1>3, <1>4, <1>8 DEF XdeltaAbort, XdeltaFlag, store
<1>9. ASSUME XdeltaDataLoop PROVE P
  <2>1. C
    BY <1>1, <1>5, <1>9 DEF XdeltaDataLoop, XdeltaTypeOK
  <2> QED
    BY <1>3, <1>9, <2>1 DEF XdeltaDataLoop, store
<1>10. ASSUME XdeltaFilesOver \/ XdeltaWriteId PROVE P
  <2>1. C
    BY <1>1, <1>4, <1>10 DEF XdeltaFilesOver, XdeltaWriteId, AfterId, XdeltaTypeOK
  <2>2. BootFull' /\ IdSound'
    BY <1>1, <1>3, <1>10, WriteSound DEF XdeltaFilesOver, XdeltaWriteId, BootFull, store
  <2> QED
    BY <2>1, <2>2
<1>11. ASSUME NEW l \in Locs, XdeltaAlreadyGood(l) \/ XdeltaSkip(l) PROVE P
  <2>1. C
    BY <1>1, <1>11 DEF XdeltaAlreadyGood, XdeltaSkip, XdeltaTypeOK
  <2> QED
    BY <1>3, <1>11, <2>1 DEF XdeltaAlreadyGood, XdeltaSkip, store
<1>12. ASSUME NEW l \in Locs, NEW from \in {"package", "current"}, Start(l, from), Picking(l),
              from = "package" => NeedsUpdate(l)
       PROVE  C
  BY <1>1, <1>12 DEF Start, Picking, NeedsUpdate, XdeltaTypeOK
<1>13. ASSUME NEW l \in Locs, XdeltaFetch(l) \/ XdeltaCopyFromCurrent(l) PROVE P
  <2>1. C
    BY <1>12, <1>13 DEF XdeltaFetch, XdeltaCopyFromCurrent, NoUpdate
  <2> QED
    BY <1>3, <1>13, <2>1 DEF XdeltaFetch, XdeltaCopyFromCurrent, store
<1>14. ASSUME NEW l \in Locs, XdeltaWriteBegin(l) \/ XdeltaWriteEnd(l) PROVE P
  <2>1. /\ l \in BootLocs /\ UNCHANGED ids /\ ids[TargetHalf] = NoId
        /\ OutputHalf(l) = TargetHalf
    BY <1>1, <1>14 DEF XdeltaWriteBegin, XdeltaWriteEnd, OutputHalf
  <2>2. C
    BY <1>1, <1>14 DEF XdeltaWriteBegin, XdeltaWriteEnd, XdeltaTypeOK
  <2>3. \/ UNCHANGED <<disk, staged>>
        \/ \E v : v # NoFile /\ Output(l, v)
    <3>1. xdelta.from = "package" => xdelta.pkg[l[2]] # NoFile \/ ~(l \in xdelta.current)
      BY <1>1
    <3>2. Current(l) # NoFile
      BY <1>1, <2>1 DEF Current, BootFull
    <3> QED
      BY <1>14, <3>1, <3>2, TornIsAFile DEF XdeltaWriteBegin, XdeltaWriteEnd
  <2>4. CASE UNCHANGED <<disk, staged>>
    BY <1>3, <2>1, <2>2, <2>4
  <2>5. ASSUME NEW v, v # NoFile, Output(l, v) PROVE P
    <3>1. \/ disk' = [disk EXCEPT ![TargetHalf][l] = v] /\ UNCHANGED staged
          \/ staged' = [staged EXCEPT ![TargetHalf][l[2]] = v] /\ UNCHANGED disk
      BY <2>1, <2>5 DEF Output
    <3>2. /\ BootFull'
          /\ \A g \in Halves \ {TargetHalf} : disk'[g] = disk[g] /\ staged'[g] = staged[g]
      BY <1>1, <2>1, <2>5, <3>1, WriteBoot
    <3> QED
      BY <1>1, <2>1, <2>2, <3>2, TouchHalfSound
  <2> QED
    BY <2>3, <2>4, <2>5
<1>15. P
  BY <1>6, <1>7, <1>8, <1>9, <1>10, <1>11, <1>13, <1>14 DEF XdeltaStep, XdeltaNext
<1>16. init = Idle /\ clone.todo \cup clone.current \subseteq BootLocs
       /\ (clone.step = "pick" => clone.current = {}) /\ (Purging => clone.step = "pick")
  BY <1>2 DEF ForcedInv, BootOnly
<1> QED
  BY <1>2, <1>15, <1>16 DEF BootOnly, Purging, InitTodo, Idle

(* Copying a staged update over a boot asset does not change the content of  *)
(* the half: torn or not, the asset counts for its update until that goes.   *)
LEMMA ApplyKeepsContent ==
  ASSUME ~Partitions, StoreTypeOK, BootFull, NEW h \in Halves,
         NEW n \in BootNames \cap SquashNames, staged[h][n] # NoFile,
         \/ UNCHANGED staged /\ \E v : v # NoFile /\ disk' = [disk EXCEPT ![h][<<"boot", n>>] = v]
         \/ /\ disk' = [disk EXCEPT ![h][<<"boot", n>>] = staged[h][n]]
            /\ staged' = [staged EXCEPT ![h][n] = NoFile]
  PROVE  BootFull' /\ \A g \in Halves : Content(g)' = Content(g)
<1> DEFINE b == <<"boot", n>>
<1>1. b \in BootLocs /\ b \in Locs /\ b[2] = n /\ n \in Names
  BY DEF BootLocs, Locs, Names
<1>0. PICK v : v # NoFile /\ disk' = [disk EXCEPT ![h][b] = v]
  OBVIOUS
<1>2. BootFull'
  <2>1. /\ \A g \in Halves \ {h} : disk'[g] = disk[g]
        /\ \A m \in Locs : disk'[h][m] = disk[h][m] \/ (m = b /\ disk'[h][m] = v)
    BY <1>0, <1>1 DEF StoreTypeOK
  <2> QED
    BY <1>0, <1>1, <2>1, LoopsApart DEF BootFull
<1>3. ASSUME NEW g \in Halves \ {h} PROVE Content(g)' = Content(g)
  BY ContentFrame DEF StoreTypeOK
<1>4. Content(h)' = Content(h)
  <2>1. ASSUME NEW l \in Locs
        PROVE  (IF disk'[h][l] = NoFile THEN NoFile ELSE Considered(h, l)')
                 = (IF disk[h][l] = NoFile THEN NoFile ELSE Considered(h, l))
    <3>1. CASE l \in DataLocs
      BY <1>2, <3>1 DEF BootFull
    <3>2. CASE l = b
      <4>1. LooksForUpdate(b)
        BY DEF LooksForUpdate
      <4>2. Considered(h, b) = staged[h][n]
        BY <4>1 DEF Considered, HasUpdate
      <4>3. Considered(h, b)' = staged[h][n]
        <5>1. LooksForUpdate(b)'
          BY <4>1 DEF LooksForUpdate
        <5>2. CASE staged' = staged
          BY <5>1, <5>2 DEF Considered, HasUpdate
        <5>3. CASE staged'[h][n] = NoFile /\ disk'[h][b] = staged[h][n]
          BY <5>1, <5>3 DEF Considered, HasUpdate
        <5>4. staged' # staged => staged'[h][n] = NoFile /\ disk'[h][b] = staged[h][n]
          BY <1>1 DEF StoreTypeOK
        <5> QED
          BY <5>2, <5>3, <5>4
      <4> QED
        BY <1>1, <1>2, <3>2, <4>2, <4>3 DEF BootFull
    <3>3. CASE l \in BootLocs /\ l # b
      <4>1. l[2] # n
        BY <3>3 DEF BootLocs
      <4>2. disk'[h][l] = disk[h][l] /\ staged'[h][l[2]] = staged[h][l[2]]
        <5>1. disk'[h][l] = disk[h][l]
          BY <1>0, <3>3, LoopsApart DEF StoreTypeOK
        <5>2. staged'[h][l[2]] = staged[h][l[2]]
          <6>1. CASE staged' = [staged EXCEPT ![h][n] = NoFile]
            BY <4>1, <6>1 DEF StoreTypeOK
          <6> QED
            BY <6>1
        <5> QED
          BY <5>1, <5>2
      <4> QED
        BY <4>2 DEF Considered, HasUpdate, LooksForUpdate
    <3> QED
      BY <3>1, <3>2, <3>3, LoopsApart
  <2> QED
    BY <2>1 DEF Content
<1> QED
  BY <1>2, <1>3, <1>4

LEMMA InitRamForced ==
  ASSUME ~Partitions, ~WriteErrors, DataNames \subseteq BootNames, ForcedInv, InitRamStep
  PROVE  BootOnly' /\ IdSound'
<1>1. /\ StoreTypeOK /\ InitRamTypeOK /\ LoopsSplit /\ BootOnly /\ BootFull /\ IdSound
      /\ InitTodo \subseteq Pending /\ init.todo \cap init.current = {}
  BY DEF ForcedInv, StagedInv, TypeOK, BootOnly
<1>2. UNCHANGED <<ids, cmd, clone, xdelta>>
  BY DEF InitRamStep, InitRamNext, EnterRootfsLoop, EnterExtraLoop, UpdatesOver,
     UpdateBegin, UpdateDone, UpdatePanic, store
<1>3. ASSUME BootFull', \A h \in Halves : Content(h)' = Content(h),
             phase' \notin {"rootfs", "extra"} => init' = Idle, InitTodo' \subseteq Pending',
             (init.todo \cap init.current = {})'
      PROVE  BootOnly' /\ IdSound'
  BY <1>1, <1>2, <1>3 DEF BootOnly, IdSound, Purging
<1>4. UNCHANGED <<disk, staged>> =>
        BootFull' /\ (\A h \in Halves : Content(h)' = Content(h)) /\ Pending' = Pending
  BY <1>1, ContentFrame DEF BootFull, Pending
<1>5. CASE EnterRootfsLoop \/ EnterExtraLoop \/ UpdatesOver
  <2>1. /\ UNCHANGED <<disk, staged>>
        /\ InitTodo' \subseteq Pending /\ (init.todo \cap init.current = {})'
        /\ phase' \notin {"rootfs", "extra"} => init' = Idle
    BY <1>1, <1>5 DEF EnterRootfsLoop, EnterExtraLoop, UpdatesOver, Idle, InitTodo
  <2> QED
    BY <1>3, <1>4, <2>1
<1>6. ASSUME NEW u \in Halves \X Names, UpdateBegin(u) \/ UpdateDone(u)
      PROVE  BootOnly' /\ IdSound'
  <2>1. /\ u \in InitTodo /\ u \in Pending /\ staged[u[1]][u[2]] # NoFile
        /\ phase \in {"rootfs", "extra"} /\ phase' = phase
    BY <1>1, <1>6 DEF UpdateBegin, UpdateDone, InitTodo, Pending
  <2>2. phase = "rootfs" /\ u[2] \in BootNames \cap SquashNames
    BY <1>1, <2>1, NamesAssumption DEF LoopsSplit, RootfsNames
  <2>3. Destination(u[2]) = <<"boot", u[2]>>
    BY <2>2 DEF Destination
  <2>4. BootFull' /\ \A h \in Halves : Content(h)' = Content(h)
    BY <1>1, <1>6, <2>1, <2>2, <2>3, ApplyKeepsContent, TornIsAFile DEF UpdateBegin, UpdateDone
  <2>5. InitTodo' \subseteq Pending' /\ (init.todo \cap init.current = {})'
    <3>1. CASE UpdateBegin(u)
      BY <1>1, <1>4, <3>1 DEF UpdateBegin, InitTodo, InitRamTypeOK, Pending
    <3>2. CASE UpdateDone(u)
      <4>1. u \in init.current /\ init'.todo = init.todo /\ init'.current = {}
        BY <1>1, <3>2 DEF UpdateDone, InitRamTypeOK
      <4>2. Pending \ {u} \subseteq Pending'
        <5>1. staged' = [staged EXCEPT ![u[1]][u[2]] = NoFile]
          BY <3>2 DEF UpdateDone
        <5>2. ASSUME NEW w \in Halves \X Names, w # u PROVE staged'[w[1]][w[2]] = staged[w[1]][w[2]]
          BY <1>1, <5>1, <5>2 DEF StoreTypeOK
        <5> QED
          BY <5>2 DEF Pending
      <4>3. InitTodo' \subseteq Pending \ {u}
        BY <1>1, <4>1 DEF InitTodo
      <4> QED
        BY <4>1, <4>2, <4>3
    <3> QED
      BY <1>6, <3>1, <3>2
  <2> QED
    BY <1>3, <2>1, <2>4, <2>5
<1> QED
  BY <1>5, <1>6 DEF InitRamStep, InitRamNext, UpdatePanic

LEMMA ForcedStep ==
  ASSUME ~Partitions, Exclusive, ~WriteErrors, DataNames \subseteq BootNames, ForcedInv,
         [Next]_vars
  PROVE  ForcedInv'
<1>1. /\ TypeOK /\ StoreTypeOK /\ ToolInv /\ StagedInv /\ BootOnly /\ BootFull /\ IdSound
      /\ OneTool
  BY DEF ForcedInv, ToolInv, BootOnly, TypeOK
<1>2. ToolInv' /\ StagedInv'
  BY <1>1, NextTools, StagedStep
<1>3. ASSUME UNCHANGED <<disk, staged>>, clone' \in {clone, CloneIdle},
             xdelta' \in {xdelta, XdeltaIdle},
             init' = Idle \/ (init' = init /\ phase' = phase)
      PROVE  BootOnly'
  <2>1. BootFull' /\ Pending' = Pending
    BY <1>1, <1>3 DEF BootFull, Pending
  <2>2. /\ clone'.todo \cup clone'.current \subseteq BootLocs
        /\ clone'.step = "pick" => clone'.current = {}
        /\ Purging' => clone'.step = "pick"
    BY <1>1, <1>3 DEF BootOnly, Purging, CloneIdle
  <2>3. /\ xdelta'.todo \cup xdelta'.current \subseteq BootLocs
        /\ \A l \in xdelta'.current :
             xdelta'.from = "package" => xdelta'.pkg[l[2]] # NoFile
    BY <1>1, <1>3 DEF BootOnly, XdeltaIdle
  <2>4. /\ phase' \notin {"rootfs", "extra"} => init' = Idle
        /\ InitTodo' \subseteq Pending /\ (init.todo \cap init.current = {})'
    BY <1>1, <1>3 DEF BootOnly, Idle, InitTodo
  <2> QED
    BY <2>1, <2>2, <2>3, <2>4 DEF BootOnly
<1>4. CASE FirstStep
  <2>1. UNCHANGED <<disk, staged, phase, init, clone, xdelta>>
    BY <1>1, <1>4, FirstFrame
  <2>2. UNCHANGED ids \/ \E h \in Halves : WriteId(h)
    BY <1>4 DEF FirstStep, FirstNext, PersistCreated, FirstStart, FirstId, FirstRemoveTrigger,
       FirstFlagSuccess, store, Halves
  <2>3. IdSound'
    BY <1>1, <2>1, <2>2, KeepSound, WriteSound
  <2> QED
    BY <1>2, <1>3, <2>1, <2>3 DEF ForcedInv
<1>5. CASE UBootStep \/ PowerOff \/ BootFails \/ FirstReboot \/ BootSucceeds \/ AppAccepts
           \/ OperatorForces \/ UNCHANGED vars
  <2>1. /\ UNCHANGED <<disk, staged, ids>>
        /\ clone' \in {clone, CloneIdle} /\ xdelta' \in {xdelta, XdeltaIdle}
    BY <1>5 DEF UBootStep, Mmcargs, PowerOff, BootFails, FirstReboot, Down, BootSucceeds,
       AppAccepts, OperatorForces, vars, store
  <2>2. phase \notin {"rootfs", "extra"} => init = Idle
    BY <1>1 DEF BootOnly
  <2>3. init' = Idle \/ (init' = init /\ phase' = phase)
    <3>1. CASE UBootStep \/ BootSucceeds
      BY <2>2, <3>1 DEF UBootStep, Mmcargs, BootSucceeds
    <3>2. CASE PowerOff \/ BootFails \/ FirstReboot
      BY <3>2 DEF PowerOff, BootFails, FirstReboot, Down
    <3>3. CASE AppAccepts \/ OperatorForces \/ UNCHANGED vars
      BY <3>3 DEF AppAccepts, OperatorForces, vars, store
    <3> QED
      BY <1>5, <3>1, <3>2, <3>3
  <2> QED
    BY <1>1, <1>2, <1>3, <2>1, <2>3, KeepSound DEF ForcedInv
<1>6. CASE InitRamStep
  BY <1>2, <1>6, InitRamForced DEF ForcedInv
<1>7. CASE CloneStep \/ XdeltaStep
  BY <1>2, <1>7, CloneForced, XdeltaForced DEF ForcedInv
<1> QED
  BY <1>4, <1>5, <1>6, <1>7 DEF Next

LEMMA InitForced ==
  ASSUME DataNames \subseteq BootNames, Init
  PROVE  ForcedInv
<1>1. ToolInv /\ IdSound
  BY InitTools DEF Init, StoreInit, IdSound
<1>2. StagedInv
  BY InitStaged
<1>3. BootFull
  <2>1. StrayLocs = DataLocs
    BY DEF StrayLocs, DataLocs
  <2>2. \A h \in Halves : disk[h] \in Installed
    BY DEF Init, StoreInit
  <2>3. ASSUME NEW h \in Halves
        PROVE  /\ \A l \in BootLocs : disk[h][l] # NoFile
               /\ \A l \in DataLocs : disk[h][l] = NoFile
    BY <2>1, <2>2, LoopsApart, ContentsAssumption DEF Installed
  <2> QED
    BY <2>3 DEF BootFull
<1>4. BootOnly
  BY <1>3 DEF Init, BootOnly, CloneInit, CloneIdle, XdeltaInit, XdeltaIdle, InitRamInit, Idle,
     Purging, InitTodo
<1> QED
  BY <1>1, <1>2, <1>4 DEF ForcedInv

LEMMA ForcedAlways ==
  ASSUME ~Partitions, Exclusive, ~WriteErrors, DataNames \subseteq BootNames
  PROVE  Spec => []ForcedInv
<1>1. Init => ForcedInv
  BY InitForced
<1>2. ForcedInv /\ [Next]_vars => ForcedInv'
  BY ForcedStep
<1> QED
  BY <1>1, <1>2, PTL DEF Spec

------------------------------------------------------------------------------
(* The properties *)

LEMMA SoundAlways ==
  ASSUME ~Partitions, Exclusive,
         AllowForce => ~WriteErrors /\ DataNames \subseteq BootNames
  PROVE  Spec => [](TypeOK /\ IdSound)
<1>1. CASE ~AllowForce
  BY <1>1, Inductive, PTL DEF IInv
<1>2. CASE ~WriteErrors /\ DataNames \subseteq BootNames
  BY <1>2, ForcedAlways, PTL DEF ForcedInv, ToolInv
<1> QED
  BY <1>1, <1>2

(* The id files tell the truth about the halves, over any sequence of       *)
(* updates, clonings, failures and reboots of the files-based scheme; with  *)
(* forced single boot, where the initramfs applies every staged update over *)
(* a boot asset and no write fails.                                         *)
THEOREM IdsSound ==
  ASSUME ~Partitions, Exclusive,
         AllowForce => ~WriteErrors /\ DataNames \subseteq BootNames
  PROVE  Spec => []IdSound
BY SoundAlways, PTL

(* An unrequested switch of half only happens between equal halves. *)
THEOREM FallbackIsSafe ==
  ASSUME ~Partitions, Exclusive,
         AllowForce => ~WriteErrors /\ DataNames \subseteq BootNames
  PROVE  Spec => FallbackSafe
<1>1. ASSUME TypeOK, IdSound, Mmcargs, ~env.attempt, ~env.force, env'.active # ActiveHalf
      PROVE  Content("a") = Content("b")
  <2>1. env'.active = Selected
    BY <1>1 DEF Mmcargs, TypeOK, StoreTypeOK
  <2>2. FallbackEligible
    BY <1>1, <2>1 DEF Selected, DbSwapRequested
  <2> QED
    BY <1>1, <2>2 DEF FallbackEligible, IdSound, Halves
<1>2. TypeOK /\ IdSound /\ [Next]_vars =>
        [Mmcargs /\ ~env.attempt /\ ~env.force /\ env'.active # ActiveHalf
           => Content("a") = Content("b")]_vars
  BY <1>1
<1> QED
  BY <1>2, SoundAlways, PTL DEF Spec, FallbackSafe

------------------------------------------------------------------------------
(* What the tools leave behind, when a write that fails is noticed           *)

(* dual-tool-clone.sh: the loops that are over leave no difference of the    *)
(* kind they look for, the current one none but in the files still to do.    *)
CloneTodo == clone.todo \cup clone.current
Copied(l) == disk[cmd.half][l] # NoFile => disk[CloneTarget][l] = disk[cmd.half][l]
Purged(l) == disk[cmd.half][l] = NoFile => disk[CloneTarget][l] = NoFile

CloneProgress ==
  /\ clone.pc # "idle" =>
       \A l \in BootLocs : Copied(l) \/ (clone.pc = "syncBoot" /\ l \in CloneTodo)
  /\ clone.pc \in {"syncData", "purgeBoot", "purgeData", "id"} =>
       \A l \in DataLocs : Copied(l) \/ (clone.pc = "syncData" /\ l \in CloneTodo)
  /\ clone.pc \in {"purgeBoot", "purgeData", "id"} =>
       \A l \in BootLocs : Purged(l) \/ (clone.pc = "purgeBoot" /\ l \in CloneTodo)
  /\ clone.pc \in {"purgeData", "id"} =>
       \A l \in DataLocs : Purged(l) \/ (clone.pc = "purgeData" /\ l \in CloneTodo)

CloneFile ==
  /\ clone.step = "pick" => clone.current = {}
  /\ clone.pc \in {"idle", "id"} => clone.step = "pick"
  /\ clone.step = "copy" => Syncing
  /\ \A l, m \in clone.current : l = m
  /\ clone.pc = "syncBoot" => CloneTodo \subseteq BootLocs
  /\ clone.pc = "syncData" => CloneTodo \subseteq DataLocs
  /\ Syncing => \A l \in CloneTodo : disk[cmd.half][l] # NoFile
  /\ Purging => \A l \in clone.current : disk[cmd.half][l] = NoFile

CloneWorkInv == CloneProgress /\ CloneFile

(* xdelta-apply.sh: likewise, towards the versions that are asked for.       *)
XdeltaTodo == xdelta.todo \cup xdelta.current
Applied(l) ==
  Current(l) # NoFile =>
    \/ disk[TargetHalf][l] = (IF NeedsUpdate(l) THEN xdelta.pkg[l[2]] ELSE Current(l))
    \/ xdelta.download /\ disk[TargetHalf][l] = Current(l)

XdeltaProgress ==
  /\ xdelta.pc # "idle" =>
       \A l \in BootLocs : Applied(l) \/ (xdelta.pc = "boot" /\ l \in XdeltaTodo)
  /\ xdelta.pc \in {"data", "id", "flag"} =>
       \A l \in DataLocs : Applied(l) \/ (xdelta.pc = "data" /\ l \in XdeltaTodo)

XdeltaFile ==
  /\ xdelta.step = "pick" => xdelta.current = {}
  /\ \A l, m \in xdelta.current : l = m
  /\ xdelta.pc = "boot" => XdeltaTodo \subseteq BootLocs
  /\ xdelta.pc = "data" => XdeltaTodo \subseteq DataLocs
  /\ \A l \in xdelta.current :
       IF xdelta.from = "package" THEN NeedsUpdate(l)
       ELSE NeedsUpdate(l) => xdelta.download

XdeltaWorkInv == XdeltaProgress /\ XdeltaFile

(* A step that touches neither the invocation nor the files, or ends it.     *)
LEMMA CloneWorkKept ==
  ASSUME CloneWorkInv,
         clone' = CloneIdle \/ (clone' = clone /\ UNCHANGED <<disk, cmd>>)
  PROVE  CloneWorkInv'
<1>1. CASE clone' = CloneIdle
  BY <1>1 DEF CloneIdle, CloneWorkInv, CloneProgress, CloneFile, CloneTodo, Syncing, Purging
<1>2. CASE clone' = clone /\ UNCHANGED <<disk, cmd>>
  <2>1. CloneTarget' = CloneTarget
    BY <1>2 DEF CloneTarget
  <2> QED
    BY <1>2, <2>1 DEF CloneWorkInv, CloneProgress, CloneFile, CloneTodo, Syncing, Purging,
       Copied, Purged
<1> QED
  BY <1>1, <1>2

LEMMA CloneWorkStep ==
  ASSUME Exclusive, SkipVerification => ~WriteErrors, Unforced, CloneWorkInv, CloneStep
  PROVE  CloneWorkInv'
<1>1. /\ TypeOK /\ StoreTypeOK /\ CloneTypeOK /\ NothingStaged
      /\ CloneTarget \in Halves /\ cmd.half \in Halves /\ CloneTarget # cmd.half
  BY TargetTypes, HalvesFacts DEF Unforced, ToolInv, TypeOK, CloneTarget
<1>2. cmd' = cmd /\ CloneTarget' = CloneTarget
  BY CloneFrame DEF Unforced, ToolInv, CloneTarget
<1>3. CloneProgress /\ CloneFile
  BY DEF CloneWorkInv
<1>4. \A l \in Locs : disk' = disk => (Copied(l)' <=> Copied(l)) /\ (Purged(l)' <=> Purged(l))
  BY <1>2 DEF Copied, Purged
<1>5. \A l \in Locs : Considered(cmd.half, l) = disk[cmd.half][l]
                      /\ Considered(CloneTarget, l) = disk[CloneTarget][l]
  BY <1>1, LocsFacts DEF NothingStaged, Considered, HasUpdate
<1>6. CASE CloneStart
  <2>1. /\ disk' = disk
        /\ clone'.pc = "syncBoot" /\ clone'.todo = Listed(cmd.half, BootLocs)
        /\ clone'.current = {} /\ clone'.step = "pick"
    BY <1>6 DEF CloneStart, CloneIdle, store
  <2>2. \A l \in BootLocs : Copied(l)' \/ l \in CloneTodo'
    BY <1>2, <2>1 DEF Listed, Copied, CloneTodo
  <2>3. CloneProgress'
    BY <2>1, <2>2 DEF CloneProgress
  <2>4. CloneFile'
    BY <1>2, <2>1 DEF CloneFile, CloneTodo, Listed, Syncing, Purging
  <2> QED
    BY <2>3, <2>4 DEF CloneWorkInv
<1>7. CASE CloneClearId
  <2>1. /\ disk' = disk /\ clone'.step = "touch"
        /\ clone'.pc = clone.pc /\ clone'.todo = clone.todo /\ clone'.current = clone.current
    BY <1>1, <1>7 DEF CloneClearId, CloneTypeOK
  <2>2. clone.step = "clear"
    BY <1>7 DEF CloneClearId
  <2> QED
    BY <1>2, <1>3, <1>4, <2>1, <2>2, LoopsApart
       DEF CloneWorkInv, CloneProgress, CloneFile, CloneTodo, Syncing, Purging
<1>8. CASE CloneCopyUnverified
  BY <1>8 DEF CloneCopyUnverified
<1>9. CASE CloneAbort \/ CloneWriteId
  BY <1>9, CloneWorkKept DEF CloneAbort, CloneWriteId
<1>10. CASE CloneNextLoop
  <2>1. /\ disk' = disk /\ clone.todo = {} /\ clone.current = {} /\ clone.step = "pick"
        /\ clone'.step = "pick" /\ clone'.current = {} /\ CloneTodo = {}
    BY <1>1, <1>3, <1>10 DEF CloneNextLoop, LoopOver, store, CloneFile, CloneTypeOK, CloneTodo
  <2>2. CASE clone.pc = "syncBoot"
    <3>1. clone'.pc = "syncData" /\ clone'.todo = Listed(cmd.half, DataLocs)
      BY <1>1, <1>10, <2>2 DEF CloneNextLoop, CloneTypeOK
    <3>2. \A l \in BootLocs : Copied(l)'
      BY <1>3, <1>4, <2>1, <2>2, LoopsApart DEF CloneProgress
    <3>3. \A l \in DataLocs : Copied(l)' \/ l \in CloneTodo'
      BY <1>2, <2>1, <3>1 DEF Listed, Copied, CloneTodo
    <3>4. CloneFile'
      BY <1>2, <2>1, <3>1 DEF CloneFile, CloneTodo, Listed, Syncing, Purging
    <3> QED
      BY <3>1, <3>2, <3>3, <3>4 DEF CloneWorkInv, CloneProgress
  <2>3. CASE clone.pc = "syncData"
    <3>1. clone'.pc = "purgeBoot" /\ clone'.todo = Listed(CloneTarget, BootLocs)
      BY <1>1, <1>10, <2>3 DEF CloneNextLoop, CloneTypeOK
    <3>2. \A l \in BootLocs \cup DataLocs : Copied(l)'
      BY <1>3, <1>4, <2>1, <2>3, LoopsApart DEF CloneProgress
    <3>3. \A l \in BootLocs : Purged(l)' \/ l \in CloneTodo'
      BY <1>2, <2>1, <3>1 DEF Listed, Purged, CloneTodo
    <3>4. CloneFile'
      BY <1>2, <2>1, <3>1 DEF CloneFile, CloneTodo, Syncing, Purging
    <3> QED
      BY <3>1, <3>2, <3>3, <3>4 DEF CloneWorkInv, CloneProgress
  <2>4. CASE clone.pc = "purgeBoot"
    <3>1. clone'.pc = "purgeData" /\ clone'.todo = Listed(CloneTarget, DataLocs)
      BY <1>1, <1>10, <2>4 DEF CloneNextLoop, CloneTypeOK
    <3>2. /\ \A l \in BootLocs \cup DataLocs : Copied(l)'
          /\ \A l \in BootLocs : Purged(l)'
      BY <1>3, <1>4, <2>1, <2>4, LoopsApart DEF CloneProgress
    <3>3. \A l \in DataLocs : Purged(l)' \/ l \in CloneTodo'
      BY <1>2, <2>1, <3>1 DEF Listed, Purged, CloneTodo
    <3>4. CloneFile'
      BY <1>2, <2>1, <3>1 DEF CloneFile, CloneTodo, Syncing, Purging
    <3> QED
      BY <3>1, <3>2, <3>3, <3>4 DEF CloneWorkInv, CloneProgress
  <2> QED
    BY <1>10, <2>2, <2>3, <2>4 DEF CloneNextLoop
<1>11. CASE CloneFinish
  <2>1. CASE clone' = CloneIdle
    BY <2>1, CloneWorkKept
  <2>2. CASE clone' # CloneIdle
    <3>1. /\ disk' = disk /\ clone.pc = "purgeData" /\ clone.todo = {} /\ clone.current = {}
          /\ clone'.pc = "id" /\ clone'.todo = {} /\ clone'.current = {}
          /\ clone'.step = "pick"
      BY <1>1, <1>3, <1>11, <2>2
         DEF CloneFinish, CloneOver, LoopOver, store, CloneTypeOK, CloneFile
    <3>2. \A l \in BootLocs \cup DataLocs : Copied(l)' /\ Purged(l)'
      BY <1>3, <1>4, <3>1, LoopsApart DEF CloneProgress, CloneTodo
    <3> QED
      BY <3>1, <3>2 DEF CloneWorkInv, CloneProgress, CloneFile, CloneTodo, Syncing, Purging
  <2> QED
    BY <2>1, <2>2
<1>12. ASSUME NEW l \in Locs, ClonePick(l) PROVE CloneWorkInv'
  <2>1. /\ disk' = disk /\ clone'.pc = clone.pc /\ clone'.todo = clone.todo \ {l}
        /\ clone.step = "pick" /\ l \in clone.todo /\ clone.current = {}
    BY <1>1, <1>3, <1>12 DEF ClonePick, store, CloneTypeOK, CloneFile
  <2>2. CASE NeedsWork(l) /\ clone'.current = {l} /\ clone'.step \in {"touch", "clear"}
    <3>1. CloneTodo' = CloneTodo
      BY <2>1, <2>2 DEF CloneTodo
    <3>2. Purging => disk[cmd.half][l] = NoFile
      BY <2>2 DEF NeedsWork, Syncing, Purging, Orphan
    <3>3. CloneProgress'
      BY <1>3, <1>4, <2>1, <3>1, LoopsApart DEF CloneProgress
    <3>4. clone.pc \notin {"idle", "id"}
      BY <2>2 DEF NeedsWork, Syncing, Purging
    <3> QED
      BY <1>2, <1>3, <2>1, <2>2, <3>1, <3>2, <3>3, <3>4 DEF CloneWorkInv, CloneFile, Syncing, Purging
  <2>3. CASE ~NeedsWork(l) /\ clone'.current = {} /\ clone'.step = "pick"
    <3>1. CloneTodo' = CloneTodo \ {l}
      BY <2>1, <2>3 DEF CloneTodo
    <3>2. Syncing => Copied(l)
      BY <1>5, <2>3 DEF NeedsWork, Copied
    <3>3. Purging => Purged(l)
      BY <1>1, <2>3, LocsFacts DEF NeedsWork, Purged, Orphan, NothingStaged
    <3>4. CloneProgress'
      BY <1>3, <1>4, <2>1, <3>1, <3>2, <3>3, LoopsApart DEF CloneProgress, Syncing, Purging
    <3> QED
      BY <1>2, <1>3, <2>1, <2>3, <3>1, <3>4 DEF CloneWorkInv, CloneFile, Syncing, Purging
  <2> QED
    BY <1>1, <1>3, <1>12, <2>1, <2>2, <2>3 DEF ClonePick, CloneTypeOK
<1>13. ASSUME NEW l \in Locs, CloneCopyBegin(l) PROVE CloneWorkInv'
  <2>1. /\ disk' = [disk EXCEPT ![CloneTarget][l] = Torn(CloneTarget)]
        /\ clone'.step = "copy" /\ clone'.pc = clone.pc /\ CloneTodo' = CloneTodo
        /\ clone'.current = clone.current
        /\ l \in clone.current /\ clone.step = "touch" /\ Syncing
    BY <1>1, <1>13, InPlace DEF CloneCopyBegin, WriteTarget, CloneTypeOK, CloneTodo
  <2>2. /\ disk'[cmd.half] = disk[cmd.half]
        /\ \A m \in Locs \ {l} : disk'[CloneTarget][m] = disk[CloneTarget][m]
    BY <1>1, <2>1 DEF StoreTypeOK
  <2>3. \A m \in Locs \ {l} : (Copied(m)' <=> Copied(m))
    BY <1>2, <2>2 DEF Copied
  <2>4. l \in CloneTodo
    BY <2>1 DEF CloneTodo
  <2>5. CloneProgress'
    BY <1>3, <2>1, <2>3, <2>4, LoopsApart DEF CloneProgress, CloneFile, Syncing
  <2> QED
    BY <1>2, <1>3, <2>1, <2>2, <2>5 DEF CloneWorkInv, CloneFile, Syncing, Purging
<1>14. ASSUME NEW l \in Locs, CloneCopyEnd(l) PROVE CloneWorkInv'
  <2>1. /\ disk' = [disk EXCEPT ![CloneTarget][l] = disk[cmd.half][l]]
        /\ clone'.step = "pick" /\ clone'.pc = clone.pc /\ clone'.todo = clone.todo
        /\ clone'.current = {}
        /\ clone.current = {l} /\ clone.step = "copy" /\ Syncing
    BY <1>1, <1>3, <1>5, <1>14, InPlace
       DEF CloneCopyEnd, WriteTarget, FileDone, CloneTypeOK, CloneFile
  <2>2. /\ disk'[cmd.half] = disk[cmd.half] /\ disk'[CloneTarget][l] = disk[cmd.half][l]
        /\ \A m \in Locs \ {l} : disk'[CloneTarget][m] = disk[CloneTarget][m]
    BY <1>1, <2>1 DEF StoreTypeOK
  <2>3. Copied(l)' /\ \A m \in Locs \ {l} : (Copied(m)' <=> Copied(m))
    BY <1>2, <2>2 DEF Copied
  <2>4. CloneTodo' = clone.todo /\ CloneTodo = clone.todo \cup {l}
    BY <2>1 DEF CloneTodo
  <2>5. CloneProgress'
    BY <1>3, <2>1, <2>3, <2>4, LoopsApart DEF CloneProgress, CloneFile, Syncing
  <2> QED
    BY <1>2, <1>3, <2>1, <2>2, <2>4, <2>5 DEF CloneWorkInv, CloneFile, Syncing, Purging
<1>15. ASSUME NEW l \in Locs, ClonePurge(l) PROVE CloneWorkInv'
  <2>1. /\ disk' = [disk EXCEPT ![CloneTarget][l] = NoFile]
        /\ clone'.step = "pick" /\ clone'.pc = clone.pc /\ clone'.todo = clone.todo
        /\ clone'.current = {}
        /\ clone.current = {l} /\ clone.step = "touch" /\ Purging /\ disk[cmd.half][l] = NoFile
    BY <1>1, <1>3, <1>15 DEF ClonePurge, FileDone, CloneTypeOK, CloneFile
  <2>2. /\ disk'[cmd.half] = disk[cmd.half] /\ disk'[CloneTarget][l] = NoFile
        /\ \A m \in Locs \ {l} : disk'[CloneTarget][m] = disk[CloneTarget][m]
    BY <1>1, <2>1 DEF StoreTypeOK
  <2>3. /\ Copied(l)' /\ Purged(l)'
        /\ \A m \in Locs \ {l} : (Copied(m)' <=> Copied(m)) /\ (Purged(m)' <=> Purged(m))
    BY <1>2, <2>1, <2>2 DEF Copied, Purged
  <2>4. CloneTodo' = clone.todo /\ CloneTodo = clone.todo \cup {l}
    BY <2>1 DEF CloneTodo
  <2>5. CloneProgress'
    BY <1>3, <2>1, <2>3, <2>4, LoopsApart DEF CloneProgress, Purging
  <2> QED
    BY <1>2, <1>3, <2>1, <2>2, <2>4, <2>5 DEF CloneWorkInv, CloneFile, Syncing, Purging
<1> QED
  BY <1>6, <1>7, <1>8, <1>9, <1>10, <1>11, <1>12, <1>13, <1>14, <1>15 DEF CloneStep, CloneNext

LEMMA XdeltaWorkKept ==
  ASSUME XdeltaWorkInv,
         xdelta' = XdeltaIdle \/ (xdelta' = xdelta /\ UNCHANGED <<disk, cmd>>)
  PROVE  XdeltaWorkInv'
<1>1. CASE xdelta' = XdeltaIdle
  BY <1>1 DEF XdeltaIdle, XdeltaWorkInv, XdeltaProgress, XdeltaFile, XdeltaTodo
<1>2. CASE xdelta' = xdelta /\ UNCHANGED <<disk, cmd>>
  <2>1. TargetHalf' = TargetHalf
    BY <1>2 DEF TargetHalf
  <2> QED
    BY <1>2, <2>1 DEF XdeltaWorkInv, XdeltaProgress, XdeltaFile, XdeltaTodo, Applied, Current,
       NeedsUpdate
<1> QED
  BY <1>1, <1>2

LEMMA XdeltaWorkStep ==
  ASSUME ~Partitions, Exclusive, SkipVerification => ~WriteErrors, Unforced, XdeltaWorkInv,
         XdeltaStep
  PROVE  XdeltaWorkInv'
<1> DEFINE Same == xdelta'.pkg = xdelta.pkg /\ xdelta'.download = xdelta.download
<1>1. /\ TypeOK /\ StoreTypeOK /\ XdeltaTypeOK /\ NothingStaged
      /\ TargetHalf \in Halves /\ cmd.half \in Halves /\ TargetHalf # cmd.half
  BY TargetTypes, HalvesFacts DEF Unforced, ToolInv, TypeOK, TargetHalf, NothingStaged
<1>2. cmd' = cmd /\ TargetHalf' = TargetHalf
  BY XdeltaFrame DEF Unforced, ToolInv, TargetHalf
<1>3. XdeltaProgress /\ XdeltaFile
  BY DEF XdeltaWorkInv
<1>4. \A l \in Locs :
        disk'[cmd.half][l] = disk[cmd.half][l] /\ Same =>
          /\ Current(l)' = Current(l) /\ (NeedsUpdate(l)' <=> NeedsUpdate(l))
          /\ disk'[TargetHalf][l] = disk[TargetHalf][l] => (Applied(l)' <=> Applied(l))
  BY <1>2 DEF Applied, Current, NeedsUpdate
<1>5. \A l \in Locs : CheckedCopy(l) = disk[TargetHalf][l] /\ ~Staging(l)
                      /\ OutputHalf(l) = TargetHalf
  BY <1>1, InPlace DEF CheckedCopy
<1>6. CASE XdeltaStart
  <2>1. PICK pkg \in Packages, download \in BOOLEAN, other \in BOOLEAN :
          xdelta' = [XdeltaIdle EXCEPT !.pc = "boot", !.todo = Existing(BootLocs),
                       !.pkg = pkg, !.download = download, !.pending = other]
    BY <1>6 DEF XdeltaStart
  <2>2. /\ disk' = disk /\ xdelta'.pc = "boot" /\ xdelta'.todo = Existing(BootLocs)
        /\ xdelta'.current = {} /\ xdelta'.step = "pick"
    BY <1>6, <2>1 DEF XdeltaStart, XdeltaIdle, store
  <2>3. \A l \in BootLocs : Applied(l)' \/ l \in XdeltaTodo'
    BY <1>2, <2>2 DEF Existing, Applied, Current, XdeltaTodo
  <2> QED
    BY <2>2, <2>3 DEF XdeltaWorkInv, XdeltaProgress, XdeltaFile, XdeltaTodo, Existing
<1>7. CASE XdeltaClearId
  <2>1. /\ disk' = disk /\ Same /\ xdelta'.step = "touch" /\ xdelta'.from = xdelta.from
        /\ xdelta'.pc = xdelta.pc /\ xdelta'.todo = xdelta.todo
        /\ xdelta'.current = xdelta.current
    BY <1>1, <1>7 DEF XdeltaClearId, XdeltaTypeOK
  <2>2. XdeltaTodo' = XdeltaTodo
    BY <2>1 DEF XdeltaTodo
  <2>3. XdeltaProgress'
    BY <1>2, <1>3, <1>4, <2>1, <2>2, LoopsApart DEF XdeltaProgress
  <2>4. XdeltaFile'
    BY <1>1, <1>3, <1>4, <2>1, <2>2 DEF XdeltaFile, XdeltaTypeOK
  <2> QED
    BY <2>3, <2>4 DEF XdeltaWorkInv
<1>8. CASE XdeltaAbort \/ XdeltaFlag
  BY <1>8, XdeltaWorkKept DEF XdeltaAbort, XdeltaFlag
<1>9. CASE XdeltaDataLoop
  <2>1. /\ disk' = disk /\ Same /\ xdelta.pc = "boot" /\ XdeltaTodo = {}
        /\ xdelta'.pc = "data" /\ xdelta'.todo = Existing(DataLocs)
        /\ xdelta'.current = {} /\ xdelta'.step = "pick"
    BY <1>1, <1>3, <1>9 DEF XdeltaDataLoop, XdeltaTypeOK, XdeltaFile, XdeltaTodo, store
  <2>2. \A l \in BootLocs : Applied(l)'
    BY <1>3, <1>4, <2>1, LoopsApart DEF XdeltaProgress
  <2>3. \A l \in DataLocs : Applied(l)' \/ l \in XdeltaTodo'
    BY <1>2, <2>1 DEF Existing, Applied, Current, XdeltaTodo
  <2> QED
    BY <2>1, <2>2, <2>3 DEF XdeltaWorkInv, XdeltaProgress, XdeltaFile, XdeltaTodo, Existing
<1>10. ASSUME UNCHANGED disk, xdelta.current = {}, xdelta.todo = {}, xdelta.pc \in {"data", "id"},
              \/ xdelta' = XdeltaIdle
              \/ \E pc \in {"id", "flag"} : xdelta' = [xdelta EXCEPT !.pc = pc]
       PROVE  XdeltaWorkInv'
  <2>1. CASE xdelta' = XdeltaIdle
    BY <2>1, XdeltaWorkKept
  <2>2. CASE \E pc \in {"id", "flag"} : xdelta' = [xdelta EXCEPT !.pc = pc]
    <3>1. /\ Same /\ xdelta'.pc \in {"id", "flag"} /\ xdelta'.current = {}
          /\ xdelta'.todo = {}
      BY <1>1, <1>10, <2>2 DEF XdeltaTypeOK
    <3>2. \A l \in BootLocs \cup DataLocs : Applied(l)'
      BY <1>3, <1>4, <1>10, <3>1, LoopsApart DEF XdeltaProgress, XdeltaTodo
    <3> QED
      BY <3>1, <3>2 DEF XdeltaWorkInv, XdeltaProgress, XdeltaFile, XdeltaTodo
  <2> QED
    BY <1>10, <2>1, <2>2
<1>11. CASE XdeltaFilesOver
  BY <1>1, <1>3, <1>10, <1>11 DEF XdeltaFilesOver, AfterId, XdeltaFile, store
<1>12. CASE XdeltaWriteId
  <2>1. xdelta.step = "pick" /\ xdelta.todo = {}
    BY <1>12 DEF XdeltaWriteId, Unforced, ToolInv, ClearedMeansNoId
  <2> QED
    BY <1>1, <1>3, <1>10, <1>12, <2>1 DEF XdeltaWriteId, AfterId, XdeltaFile
<1>13. ASSUME NEW l \in Locs, XdeltaAlreadyGood(l) \/ XdeltaSkip(l) PROVE XdeltaWorkInv'
  <2>1. /\ disk' = disk /\ Same /\ xdelta'.pc = xdelta.pc /\ xdelta.current = {}
        /\ xdelta'.todo = xdelta.todo \ {l} /\ xdelta'.current = {} /\ xdelta'.step = "pick"
    BY <1>1, <1>3, <1>13
       DEF XdeltaAlreadyGood, XdeltaSkip, NoUpdate, Picking, store, XdeltaTypeOK, XdeltaFile
  <2>2. Applied(l)
    BY <1>5, <1>13 DEF XdeltaAlreadyGood, XdeltaSkip, NoUpdate, Applied
  <2>3. XdeltaTodo' = XdeltaTodo \ {l}
    BY <2>1 DEF XdeltaTodo
  <2>4. XdeltaProgress'
    BY <1>2, <1>3, <1>4, <2>1, <2>2, <2>3, LoopsApart DEF XdeltaProgress
  <2> QED
    BY <1>3, <2>1, <2>3, <2>4 DEF XdeltaWorkInv, XdeltaFile
<1>14. ASSUME NEW l \in Locs, NEW from \in {"package", "current"}, Picking(l), UNCHANGED store,
              Start(l, from),
              IF from = "package" THEN NeedsUpdate(l) ELSE NeedsUpdate(l) => xdelta.download
       PROVE  XdeltaWorkInv'
  <2>1. /\ disk' = disk /\ Same /\ xdelta'.pc = xdelta.pc /\ xdelta.current = {}
        /\ l \in xdelta.todo
        /\ xdelta'.todo = xdelta.todo \ {l} /\ xdelta'.current = {l} /\ xdelta'.step # "pick"
        /\ xdelta'.from = from
    BY <1>1, <1>3, <1>14 DEF Start, Picking, store, XdeltaTypeOK, XdeltaFile
  <2>2. XdeltaTodo' = XdeltaTodo
    BY <2>1 DEF XdeltaTodo
  <2>3. XdeltaProgress'
    BY <1>2, <1>3, <1>4, <2>1, <2>2, LoopsApart DEF XdeltaProgress
  <2>4. XdeltaFile'
    BY <1>3, <1>4, <1>14, <2>1, <2>2 DEF XdeltaFile
  <2> QED
    BY <2>3, <2>4 DEF XdeltaWorkInv
<1>15. ASSUME NEW l \in Locs, XdeltaFetch(l) \/ XdeltaCopyFromCurrent(l) PROVE XdeltaWorkInv'
  BY <1>14, <1>15 DEF XdeltaFetch, XdeltaCopyFromCurrent, NoUpdate
<1>16. ASSUME NEW l \in Locs, l \in xdelta.current, NEW v,
              disk' = [disk EXCEPT ![TargetHalf][l] = v]
       PROVE  /\ disk'[cmd.half] = disk[cmd.half] /\ disk'[TargetHalf][l] = v
              /\ \A m \in Locs \ {l} : disk'[TargetHalf][m] = disk[TargetHalf][m]
              /\ xdelta.current = {l} /\ XdeltaTodo = xdelta.todo \cup {l}
  BY <1>1, <1>3, <1>16 DEF StoreTypeOK, XdeltaFile, XdeltaTodo
<1>17. ASSUME NEW l \in Locs, XdeltaWriteBegin(l) PROVE XdeltaWorkInv'
  <2>1. /\ disk' = [disk EXCEPT ![TargetHalf][l] = Torn(TargetHalf)]
        /\ Same /\ xdelta'.pc = xdelta.pc /\ xdelta'.step = "copy" /\ l \in xdelta.current
        /\ xdelta'.todo = xdelta.todo /\ xdelta'.current = xdelta.current
        /\ xdelta'.from = xdelta.from
    BY <1>1, <1>5, <1>17 DEF XdeltaWriteBegin, Output, XdeltaTypeOK
  <2>2. XdeltaTodo' = XdeltaTodo /\ l \in XdeltaTodo
    BY <2>1 DEF XdeltaTodo
  <2>3. \A m \in Locs \ {l} : Applied(m)' <=> Applied(m)
    BY <1>4, <1>16, <2>1
  <2>4. XdeltaProgress'
    <3>1. xdelta.pc \in {"idle", "boot", "data"}
      BY <1>1, <1>17 DEF XdeltaWriteBegin, XdeltaTypeOK, Unforced, ToolInv, ClearedMeansNoId
    <3> QED
      BY <1>3, <2>1, <2>2, <2>3, <3>1, LoopsApart DEF XdeltaProgress, XdeltaFile
  <2>5. XdeltaFile'
    BY <1>1, <1>3, <1>4, <1>16, <2>1, <2>2 DEF XdeltaFile, XdeltaTypeOK
  <2> QED
    BY <2>4, <2>5 DEF XdeltaWorkInv
<1>18. ASSUME NEW l \in Locs, XdeltaWriteEnd(l) PROVE XdeltaWorkInv'
  <2>1. /\ Same /\ xdelta'.pc = xdelta.pc /\ xdelta'.step = "pick" /\ l \in xdelta.current
        /\ xdelta'.todo = xdelta.todo /\ xdelta'.current = {}
    BY <1>1, <1>18 DEF XdeltaWriteEnd, XdeltaTypeOK
  <2>2. PICK v : /\ disk' = [disk EXCEPT ![TargetHalf][l] = v]
                 /\ xdelta.from = "package" => v = xdelta.pkg[l[2]]
                 /\ xdelta.from # "package" => v = Current(l)
    BY <1>5, <1>18 DEF XdeltaWriteEnd, Output
  <2>3. /\ disk'[cmd.half] = disk[cmd.half] /\ disk'[TargetHalf][l] = v
        /\ \A m \in Locs \ {l} : disk'[TargetHalf][m] = disk[TargetHalf][m]
        /\ XdeltaTodo = xdelta.todo \cup {l}
    BY <1>16, <2>1, <2>2
  <2>4. /\ XdeltaTodo' \subseteq XdeltaTodo
        /\ \A m \in XdeltaTodo : m # l => m \in XdeltaTodo'
    BY <2>1, <2>3 DEF XdeltaTodo
  <2>5. \A m \in Locs \ {l} : Applied(m)' <=> Applied(m)
    BY <1>4, <2>1, <2>3
  <2>6. Applied(l)'
    <3>1. Current(l)' = Current(l) /\ (NeedsUpdate(l)' <=> NeedsUpdate(l))
      BY <1>4, <2>1, <2>3
    <3>2. IF xdelta.from = "package" THEN NeedsUpdate(l) ELSE NeedsUpdate(l) => xdelta.download
      BY <1>3, <2>1 DEF XdeltaFile
    <3> QED
      BY <1>2, <2>1, <2>2, <2>3, <3>1, <3>2 DEF Applied
  <2>7. XdeltaProgress'
    <3>1. ASSUME NEW m \in Locs, Applied(m) \/ m \in XdeltaTodo
          PROVE  Applied(m)' \/ m \in XdeltaTodo'
      BY <2>4, <2>5, <2>6, <3>1
    <3>2. ASSUME NEW m \in Locs, Applied(m) PROVE Applied(m)'
      BY <2>5, <2>6, <3>2
    <3> QED
      BY <1>3, <2>1, <3>1, <3>2, LoopsApart DEF XdeltaProgress
  <2> QED
    BY <1>3, <2>1, <2>4, <2>7 DEF XdeltaWorkInv, XdeltaFile
<1> QED
  BY <1>6, <1>7, <1>8, <1>9, <1>11, <1>12, <1>13, <1>15, <1>17, <1>18 DEF XdeltaStep, XdeltaNext

(* The other steps leave an invocation and its files alone, or end it. *)
LEMMA WorkInv ==
  ASSUME Exclusive, SkipVerification => ~WriteErrors, Unforced, [Next]_vars
  PROVE  /\ CloneWorkInv => CloneWorkInv'
         /\ ~Partitions /\ XdeltaWorkInv => XdeltaWorkInv'
<1>1. OneTool /\ Pending = {} /\ init = Idle
  BY DEF Unforced, ToolInv, NothingStaged, Pending
<1>2. CASE CloneStep
  BY <1>1, <1>2, CloneWorkStep, XdeltaWorkKept, CloneFrame DEF CloneStep
<1>3. CASE XdeltaStep
  BY <1>1, <1>3, XdeltaWorkStep, CloneWorkKept, XdeltaFrame DEF XdeltaStep
<1>4. CASE UBootStep
  BY <1>1, <1>4, CloneWorkKept, XdeltaWorkKept DEF UBootStep, Mmcargs, OneTool, NoTool
<1>5. CASE InitRamStep
  BY <1>1, <1>5, CloneWorkKept, XdeltaWorkKept
     DEF InitRamStep, InitRamNext, EnterRootfsLoop, EnterExtraLoop, UpdatesOver, UpdateBegin,
         UpdateDone, UpdatePanic, Idle
<1>6. CASE FirstStep
  BY <1>6, CloneWorkKept, XdeltaWorkKept
     DEF FirstStep, FirstNext, PersistCreated, FirstStart, FirstId, FirstRemoveTrigger,
         FirstFlagSuccess, store
<1>7. CASE PowerOff \/ BootFails \/ FirstReboot
  BY <1>7, CloneWorkKept, XdeltaWorkKept DEF PowerOff, BootFails, FirstReboot, Down
<1>8. CASE BootSucceeds \/ AppAccepts \/ OperatorForces \/ UNCHANGED vars
  BY <1>8, CloneWorkKept, XdeltaWorkKept DEF BootSucceeds, AppAccepts, OperatorForces, vars, store
<1> QED
  BY <1>2, <1>3, <1>4, <1>5, <1>6, <1>7, <1>8 DEF Next

LEMMA WorkInit == ASSUME Init PROVE CloneWorkInv /\ XdeltaWorkInv
BY DEF Init, CloneInit, CloneIdle, XdeltaInit, XdeltaIdle, CloneWorkInv, CloneProgress,
   CloneFile, CloneTodo, Syncing, Purging, XdeltaWorkInv, XdeltaProgress, XdeltaFile, XdeltaTodo

(* dual-tool-clone.sh that has gone through its four loops has made the      *)
(* inactive half what the active half is, in either scheme.                  *)
THEOREM ClonesAreComplete ==
  ASSUME Exclusive, ~AllowForce, SkipVerification => ~WriteErrors
  PROVE  Spec => []CloneComplete
<1>1. Unforced /\ CloneWorkInv /\ [Next]_vars => CloneWorkInv'
  BY WorkInv
<1>2. ASSUME Unforced, CloneWorkInv, CloneOver PROVE Content(CloneTarget) = Content(cmd.half)
  <2>1. CloneTodo = {} /\ clone.pc = "purgeData"
    BY <1>2 DEF CloneOver, LoopOver, CloneWorkInv, CloneFile, CloneTodo
  <2>2. \A l \in Locs : disk[CloneTarget][l] = disk[cmd.half][l]
    BY <1>2, <2>1, LoopsApart DEF CloneWorkInv, CloneProgress, Copied, Purged
  <2>3. CloneTarget \in Halves /\ cmd.half \in Halves
    BY <1>2, TargetTypes DEF Unforced, ToolInv, TypeOK
  <2>4. \A h \in Halves, l \in Locs : Considered(h, l) = disk[h][l]
    BY <1>2, LocsFacts DEF Unforced, NothingStaged, Considered, HasUpdate
  <2> QED
    BY <2>2, <2>3, <2>4 DEF Content
<1> QED
  BY <1>1, <1>2, WorkInit, UnforcedAlways, PTL DEF Spec, CloneComplete

(* xdelta-apply.sh asks for the switch only to a half that has every asset   *)
(* of the running one at the version the package asks for.                   *)
THEOREM UpdatesAreComplete ==
  ASSUME ~Partitions, Exclusive, ~AllowForce, SkipVerification => ~WriteErrors
  PROVE  Spec => []UpdateComplete
<1>1. Unforced /\ XdeltaWorkInv /\ [Next]_vars => XdeltaWorkInv'
  BY WorkInv
<1>2. ASSUME Unforced, XdeltaWorkInv PROVE UpdateComplete
  <2>1. xdelta.pc = "flag" => \A l \in Locs : Applied(l)
    BY <1>2, LoopsApart DEF XdeltaWorkInv, XdeltaProgress
  <2>2. TargetHalf \in Halves
    BY <1>2, TargetTypes DEF Unforced, ToolInv, TypeOK
  <2>3. \A l \in Locs : Content(TargetHalf)[l] = disk[TargetHalf][l]
    BY <1>2, <2>2, LocsFacts DEF Unforced, NothingStaged, Content, Considered, HasUpdate
  <2> QED
    BY <2>1, <2>3 DEF UpdateComplete, Existing, Applied, Current
<1> QED
  BY <1>1, <1>2, WorkInit, UnforcedAlways, PTL DEF Spec
============================================================================
