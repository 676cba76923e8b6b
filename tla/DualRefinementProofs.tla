------------------------ MODULE DualRefinementProofs ------------------------
(***************************************************************************)
(* The files-based scheme, with one tool at a time and no forced single     *)
(* boot, implements the abstract A/B update system.                         *)
(***************************************************************************)
EXTENDS DualSafetyProofs

------------------------------------------------------------------------------
(* What a tool that works on half h may do to the disk in one step *)

Benign(h) ==
  \/ UNCHANGED <<disk, ids>>
  \/ UNCHANGED disk /\ (ClearId(h) \/ WriteId(h))
  \/ UNCHANGED ids /\ ids[h] = NoId /\ \A g \in Halves \ {h} : disk'[g] = disk[g]

LEMMA CloneBenign ==
  ASSUME ~Partitions, IInv, CloneStep
  PROVE  Benign(Other(cmd.half))
<1>1. /\ TypeOK /\ StoreTypeOK /\ NothingStaged
      /\ CloneTarget = Other(cmd.half) /\ CloneTarget \in Halves
      /\ clone.step \in {"touch", "copy"} => ids[CloneTarget] = NoId
  BY TargetTypes DEF IInv, TypeOK, CloneTarget, ClearedMeansNoId
<1>2. ASSUME NEW l \in Locs, NEW v, WriteTarget(l, v)
      PROVE  \A g \in Halves \ {CloneTarget} : disk'[g] = disk[g]
  BY <1>1, <1>2, InPlace DEF WriteTarget, StoreTypeOK
<1>3. ASSUME NEW l \in Locs, CloneCopyBegin(l) \/ CloneCopyEnd(l)
      PROVE  Benign(CloneTarget)
  BY <1>1, <1>2, <1>3 DEF CloneCopyBegin, CloneCopyEnd, Benign
<1>4. ASSUME NEW l \in Locs, ClonePurge(l)
      PROVE  Benign(CloneTarget)
  BY <1>1, <1>4 DEF ClonePurge, Benign, StoreTypeOK
<1> QED
  BY <1>1, <1>3, <1>4
     DEF CloneStep, CloneNext, CloneStart, CloneClearId, CloneCopyUnverified, CloneAbort,
         CloneNextLoop, CloneFinish, CloneWriteId, ClonePick, Benign, store

LEMMA XdeltaBenign ==
  ASSUME ~Partitions, IInv, XdeltaStep
  PROVE  Benign(Other(cmd.half))
<1>1. /\ TypeOK /\ StoreTypeOK /\ NothingStaged
      /\ TargetHalf = Other(cmd.half) /\ TargetHalf \in Halves
      /\ xdelta.step \in {"touch", "copy"} => ids[TargetHalf] = NoId
  BY TargetTypes DEF IInv, TypeOK, TargetHalf, NothingStaged, ClearedMeansNoId
<1>2. ASSUME NEW l \in Locs, NEW v, Output(l, v)
      PROVE  \A g \in Halves \ {TargetHalf} : disk'[g] = disk[g]
  BY <1>1, <1>2, InPlace DEF Output, StoreTypeOK
<1>3. ASSUME NEW l \in Locs, XdeltaWriteBegin(l) \/ XdeltaWriteEnd(l)
      PROVE  Benign(TargetHalf)
  BY <1>1, <1>2, <1>3 DEF XdeltaWriteBegin, XdeltaWriteEnd, Benign
<1> QED
  BY <1>1, <1>3
     DEF XdeltaStep, XdeltaNext, XdeltaStart, XdeltaClearId, XdeltaAbort, XdeltaDataLoop,
         XdeltaFilesOver, XdeltaWriteId, XdeltaFlag, XdeltaAlreadyGood, XdeltaFetch,
         XdeltaCopyFromCurrent, NoUpdate, XdeltaSkip, Benign, store

------------------------------------------------------------------------------
(* The refinement mapping *)

abContent == [h \in Halves |-> Content(h)]
abRunning == IF phase = "off" THEN "none" ELSE cmd.half

LEMMA InitMaps == ASSUME Init PROVE AB!Init
<1>1. StoreTypeOK
  BY InitTyped DEF TypeOK
<1>2. abContent \in [Halves -> Ids]
  BY <1>1, ContentTypes DEF abContent
<1> QED
  BY <1>2 DEF Init, StoreInit, AB!Init, abContent, ActiveHalf, Halves

LEMMA ContentTypesNext ==
  StoreTypeOK' => (\A h \in Halves : Content(h) \in Ids)'
<1>1. StoreTypeOK => \A h \in Halves : Content(h) \in Ids
  BY ContentTypes
<1> QED
  BY <1>1, PTL

(* The tools change neither what runs nor what boots next, so what they do   *)
(* is the abstract revocation, rewriting or certification of a slot.         *)
LEMMA BenignMaps ==
  ASSUME ~Partitions, TypeOK, TypeOK', NEW h \in Halves, phase = "up", h # cmd.half, Benign(h),
         UNCHANGED <<staged, cmd, phase>>, env'.active = env.active,
         env'.attempt = env.attempt
  PROVE  [AB!Next]_(AB!abVars)
<1>1. /\ abRunning = cmd.half /\ abRunning \notin {"none", h}
      /\ UNCHANGED <<abRunning, ActiveHalf, env.attempt>>
  BY DEF abRunning, ActiveHalf, TypeOK, StoreTypeOK, Halves
<1>2. UNCHANGED disk => UNCHANGED abContent
  BY ContentFrame DEF abContent
<1>3. CASE UNCHANGED <<disk, ids>>
  BY <1>1, <1>2, <1>3 DEF AB!abVars, abContent, abRunning
<1>4. CASE UNCHANGED disk /\ ClearId(h)
  BY <1>1, <1>2, <1>4 DEF ClearId, AB!Next, AB!Revoke, abContent, abRunning
<1>5. CASE UNCHANGED disk /\ WriteId(h)
  BY <1>1, <1>2, <1>5, FilesId DEF WriteId, AB!Next, AB!Certify, abContent, abRunning
<1>6. CASE UNCHANGED ids /\ ids[h] = NoId /\ \A g \in Halves \ {h} : disk'[g] = disk[g]
  <2>1. \A g \in Halves \ {h} : Content(g)' = Content(g)
    BY <1>6, ContentFrame
  <2>2. abContent' = [abContent EXCEPT ![h] = Content(h)']
    BY <2>1 DEF abContent
  <2>3. Content(h)' \in Ids
    BY ContentTypesNext DEF TypeOK
  <2> QED
    BY <1>1, <1>6, <2>2, <2>3 DEF AB!Next, AB!Rewrite, abContent, abRunning
<1> QED
  BY <1>3, <1>4, <1>5, <1>6 DEF Benign

(* The boot, and every step that leaves the disk alone. *)
LEMMA MmcargsMaps ==
  ASSUME IInv, IInv', Mmcargs
  PROVE  [AB!Next]_(AB!abVars)
<1>1. /\ TypeOK /\ StoreTypeOK /\ Selected \in Halves
      /\ ~env.force /\ phase = "off"
      /\ cmd'.half = Selected /\ env'.active = Selected /\ env'.attempt = env.attempt
      /\ phase' = "initram" /\ UNCHANGED <<disk, staged, ids>>
  <2>1. /\ TypeOK /\ StoreTypeOK /\ ~env.force
    BY DEF IInv, TypeOK, NothingStaged
  <2>2. Selected \in Halves
    BY HalvesFacts DEF Selected, ActiveHalf, Halves
  <2> QED
    BY <2>1, <2>2 DEF Mmcargs, StoreTypeOK
<1>2. abRunning = "none" /\ abRunning' = Selected /\ ActiveHalf' = Selected
  BY <1>1 DEF abRunning, ActiveHalf, Halves
<1>3. UNCHANGED abContent
  BY <1>1, ContentFrame DEF abContent
<1>4. Selected = ActiveHalf \/ env.attempt \/ AB!Certified
  <2>1. ASSUME FallbackEligible PROVE AB!Certified
    BY <2>1 DEF FallbackEligible, AB!Certified, Halves
  <2> QED
    BY <1>1, <2>1 DEF Selected, DbSwapRequested
<1>5. AB!Boot(Selected)
  BY <1>1, <1>2, <1>3, <1>4 DEF AB!Boot, abRunning, abContent
<1> QED
  BY <1>1, <1>5 DEF AB!Next

LEMMA RestMaps ==
  ASSUME IInv, UNCHANGED <<disk, staged, ids, cmd>>, env'.active = env.active,
         \/ phase' = "off" /\ env' = env
         \/ (phase = "off" <=> phase' = "off") /\ env'.attempt = env.attempt
         \/ phase = "up" /\ phase' = "up" /\ env'.attempt \in BOOLEAN
  PROVE  [AB!Next]_(AB!abVars)
<1>1. UNCHANGED abContent /\ UNCHANGED ActiveHalf
  BY ContentFrame DEF abContent, ActiveHalf
<1>2. cmd.half # "none"
  BY DEF IInv, TypeOK, StoreTypeOK, Halves
<1>3. CASE phase' = "off" /\ env' = env
  BY <1>1, <1>3 DEF AB!Next, AB!Stop, abContent
<1>4. CASE (phase = "off" <=> phase' = "off") /\ env'.attempt = env.attempt
  BY <1>1, <1>4 DEF AB!abVars, abContent
<1>5. CASE phase = "up" /\ phase' = "up" /\ env'.attempt \in BOOLEAN
  BY <1>1, <1>2, <1>5 DEF AB!Next, AB!Request, abContent
<1> QED
  BY <1>3, <1>4, <1>5

(* The id of either half, the running one included, may be written. *)
LEMMA FirstIdMaps ==
  ASSUME ~Partitions, TypeOK, NEW h \in Halves, phase = "up", WriteId(h),
         UNCHANGED <<disk, staged, env, cmd, phase>>
  PROVE  [AB!Next]_(AB!abVars)
<1>1. UNCHANGED abContent
  BY ContentFrame DEF abContent
<1>2. abRunning # "none" /\ UNCHANGED <<abRunning, ActiveHalf, env.attempt>>
  BY DEF abRunning, ActiveHalf, TypeOK, StoreTypeOK, Halves
<1> QED
  BY <1>1, <1>2, FilesId DEF WriteId, AB!Next, AB!Certify, abContent, abRunning

LEMMA NextMaps ==
  ASSUME ~Partitions, Exclusive, ~AllowForce, IInv, IInv', [Next]_vars
  PROVE  [AB!Next]_(AB!abVars)
<1>1. /\ TypeOK /\ TypeOK' /\ StoreTypeOK /\ StoreTypeOK' /\ cmd.half \in Halves
      /\ Other(cmd.half) \in Halves /\ Other(cmd.half) # cmd.half
      /\ NothingStaged /\ NothingStaged' /\ OneTool
  BY HalvesFacts DEF IInv, TypeOK, StoreTypeOK
<1>2. staged' = staged
  <2>1. \A h \in Halves : staged'[h] = staged[h]
    BY <1>1 DEF NothingStaged, StoreTypeOK
  <2> QED
    BY <1>1, <2>1 DEF StoreTypeOK
<1>3. CASE UBootStep
  BY <1>3, MmcargsMaps DEF UBootStep
<1>4. CASE InitRamStep
  BY <1>1, <1>4, RestMaps
     DEF InitRamStep, InitRamNext, EnterRootfsLoop, EnterExtraLoop, UpdatesOver, UpdateBegin,
         UpdateDone, UpdatePanic, NothingStaged, Idle, store
<1>5. CASE CloneStep
  BY <1>1, <1>2, <1>5, CloneFrame, CloneBenign, BenignMaps
<1>6. CASE XdeltaStep
  <2>1. CASE UNCHANGED env
    BY <1>1, <1>2, <1>6, <2>1, XdeltaFrame, XdeltaBenign, BenignMaps
  <2>2. CASE XdeltaFlag
    BY <1>1, <1>6, <2>2, XdeltaFrame, RestMaps DEF XdeltaFlag, StoreTypeOK
  <2> QED
    BY <1>1, <1>6, <2>1, <2>2, XdeltaFrame
<1>7. CASE FirstStep
  <2>1. CASE PersistCreated \/ FirstStart \/ FirstRemoveTrigger
    BY <2>1, RestMaps DEF PersistCreated, FirstStart, FirstRemoveTrigger, store
  <2>2. CASE FirstFlagSuccess
    BY <1>1, <2>2, RestMaps DEF FirstFlagSuccess, StoreTypeOK
  <2>3. ASSUME NEW h \in Halves, NEW pc \in {"idA", "idB"}, NEW next, FirstId(h, pc, next)
        PROVE  [AB!Next]_(AB!abVars)
    BY <1>1, <2>3, FirstIdMaps, RestMaps DEF FirstId, OneTool, NoTool
  <2> QED
    BY <1>7, <2>1, <2>2, <2>3 DEF FirstStep, FirstNext, Halves
<1>8. CASE PowerOff \/ BootFails \/ FirstReboot
  BY <1>8, RestMaps DEF PowerOff, BootFails, FirstReboot, Down
<1>9. CASE BootSucceeds
  BY <1>1, <1>9, RestMaps DEF BootSucceeds
<1>10. CASE AppAccepts
  BY <1>1, <1>10, RestMaps DEF AppAccepts, StoreTypeOK
<1>11. CASE OperatorForces
  BY <1>11 DEF OperatorForces
<1>12. CASE UNCHANGED vars
  BY <1>12, RestMaps DEF vars, store
<1> QED
  BY <1>3, <1>4, <1>5, <1>6, <1>7, <1>8, <1>9, <1>10, <1>11, <1>12 DEF Next

(* The files, tools and boot script of the files-based scheme are an A/B     *)
(* update system: what is rewritten is never what runs and never vouched     *)
(* for, and the half that boots changes on request or between equal halves.  *)
THEOREM Refines ==
  ASSUME ~Partitions, Exclusive, ~AllowForce
  PROVE  Spec => ImplementsAB
<1>1. Init => AB!Init
  BY InitMaps
<1>2. IInv /\ IInv' /\ [Next]_vars => [AB!Next]_(AB!abVars)
  BY NextMaps
<1> QED
  BY <1>1, <1>2, Inductive, PTL DEF Spec, ImplementsAB, AB!Spec
============================================================================
