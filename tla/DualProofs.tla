----------------------------- MODULE DualProofs -----------------------------
(***************************************************************************)
(* Proofs about the dual-boot system, for every set of assets, versions and *)
(* packages.                                                                *)
(***************************************************************************)
EXTENDS DualProps, Integers, FiniteSetTheorems, TLAPS

------------------------------------------------------------------------------
(* Facts about the shared operators *)

LEMMA HalvesFacts ==
  /\ \A h \in Halves : Other(h) \in Halves /\ Other(h) # h
  /\ \A h \in Halves : Torn(h) \in Contents
  /\ Versions \subseteq Contents /\ NoFile \in Contents
BY DEF Halves, Other, Torn, Contents

LEMMA LocsFacts ==
  /\ \A l \in Locs : l[2] \in Names
  /\ \A n \in BootNames : <<"boot", n>> \in Locs
  /\ \A n \in DataNames : <<"data", n>> \in Locs
BY DEF Locs, BootLocs, DataLocs, Names

(* The loops of the tools go through different files. *)
LEMMA LoopsApart == BootLocs \cap DataLocs = {} /\ Locs = BootLocs \cup DataLocs
  BY DEF BootLocs, DataLocs, Locs

(* What the tools read is a content, and an id is the content of a half. *)
LEMMA ContentTypes ==
  ASSUME StoreTypeOK
  PROVE  /\ \A h \in Halves, l \in Locs : Considered(h, l) \in Contents
         /\ \A h \in Halves : Content(h) \in Ids
         /\ \A h \in Halves : DualToolId(h) \in Ids
<1>1. ASSUME NEW h \in Halves, NEW l \in Locs
      PROVE  Considered(h, l) \in Contents
  BY LocsFacts DEF StoreTypeOK, Considered, HasUpdate
<1>2. ASSUME NEW h \in Halves PROVE Content(h) \in Ids
  BY <1>1, HalvesFacts DEF Content, Ids
<1>3. ASSUME NEW h \in Halves PROVE DualToolId(h) \in Ids
  <2>1. \A l \in Locs : IdSide(h, l) \in Halves
    BY HalvesFacts DEF IdSide, StoreTypeOK
  <2> QED
    BY <1>2, <2>1 DEF DualToolId, Ids
<1> QED
  BY <1>1, <1>2, <1>3

------------------------------------------------------------------------------
(* Type correctness *)

LEMMA InitTyped == Init => TypeOK
<1> SUFFICES ASSUME Init PROVE TypeOK
  OBVIOUS
<1>1. StoreTypeOK
  BY HalvesFacts DEF Init, StoreInit, StoreTypeOK, Installed, Halves, Contents, Ids, Phases
<1>2. InitRamTypeOK
  BY DEF Init, InitRamInit, InitRamTypeOK, Idle
<1>3. CloneTypeOK
  BY DEF Init, CloneInit, CloneTypeOK, CloneIdle, ClonePcs
<1>4. XdeltaTypeOK
  BY DEF Init, XdeltaInit, XdeltaTypeOK, XdeltaIdle
<1>5. FirstTypeOK
  BY DEF Init, FirstInitInit, FirstTypeOK
<1> QED
  BY <1>1, <1>2, <1>3, <1>4, <1>5 DEF TypeOK

(* A write to one file of one half, in place or staged. *)
LEMMA WriteTyped ==
  ASSUME StoreTypeOK, NEW h \in Halves, NEW l, NEW n, NEW v \in Contents
  PROVE  /\ [disk EXCEPT ![h][l] = v] \in [Halves -> [Locs -> Contents]]
         /\ [staged EXCEPT ![h][n] = v] \in [Halves -> [Names -> Contents]]
BY DEF StoreTypeOK

LEMMA IdTyped ==
  ASSUME StoreTypeOK, NEW h \in Halves
  PROVE  /\ WriteId(h) => ids' \in [Halves -> Ids \cup {NoId}]
         /\ ClearId(h) => ids' \in [Halves -> Ids \cup {NoId}]
BY ContentTypes DEF StoreTypeOK, WriteId, ClearId

LEMMA InitRamTyped ==
  ASSUME StoreTypeOK, InitRamTypeOK, InitRamNext
  PROVE  StoreTypeOK' /\ InitRamTypeOK'
<1>1. CASE EnterRootfsLoop
  BY <1>1 DEF EnterRootfsLoop, StoreTypeOK, InitRamTypeOK, Idle, Pending, Phases
<1>2. CASE EnterExtraLoop
  BY <1>2 DEF EnterExtraLoop, StoreTypeOK, InitRamTypeOK, Idle, Pending, Phases
<1>3. CASE UpdatesOver
  BY <1>3 DEF UpdatesOver, StoreTypeOK, InitRamTypeOK, Phases
<1>4. ASSUME NEW u \in Halves \X Names, UpdateBegin(u)
      PROVE  StoreTypeOK' /\ InitRamTypeOK'
  <2>1. u[1] \in Halves /\ u[2] \in Names /\ Torn(u[1]) \in Contents
    BY HalvesFacts
  <2>2. disk' \in [Halves -> [Locs -> Contents]]
    BY <1>4, <2>1, WriteTyped DEF UpdateBegin
  <2>3. InitRamTypeOK'
    BY <1>4 DEF UpdateBegin, InitRamTypeOK
  <2> QED
    BY <1>4, <2>2, <2>3 DEF UpdateBegin, StoreTypeOK
<1>5. ASSUME NEW u \in Halves \X Names, UpdateDone(u)
      PROVE  StoreTypeOK' /\ InitRamTypeOK'
  <2>1. u[1] \in Halves /\ u[2] \in Names
    OBVIOUS
  <2>2. staged[u[1]][u[2]] \in Contents /\ NoFile \in Contents
    BY <2>1, HalvesFacts DEF StoreTypeOK
  <2>3. disk' \in [Halves -> [Locs -> Contents]]
    BY <1>5, <2>1, <2>2, WriteTyped DEF UpdateDone
  <2>4. staged' \in [Halves -> [Names -> Contents]]
    BY <1>5, <2>1, <2>2, WriteTyped DEF UpdateDone
  <2>5. InitRamTypeOK'
    BY <1>5 DEF UpdateDone, InitRamTypeOK
  <2> QED
    BY <1>5, <2>3, <2>4, <2>5 DEF UpdateDone, StoreTypeOK
<1>6. ASSUME NEW u \in Halves \X Names, UpdatePanic(u)
      PROVE  StoreTypeOK' /\ InitRamTypeOK'
  BY <1>6 DEF UpdatePanic, store, StoreTypeOK, InitRamTypeOK
<1> QED
  BY <1>1, <1>2, <1>3, <1>4, <1>5, <1>6 DEF InitRamNext

(* The half each tool works on, and the file it writes there. *)
LEMMA TargetTypes ==
  ASSUME StoreTypeOK
  PROVE  /\ CloneTarget \in Halves /\ TargetHalf \in Halves /\ cmd.half \in Halves
         /\ \A l \in Locs : OutputHalf(l) \in Halves
BY HalvesFacts DEF StoreTypeOK, CloneTarget, TargetHalf, OutputHalf, Halves

LEMMA WriteTargetTyped ==
  ASSUME StoreTypeOK, NEW l \in Locs, NEW v \in Contents, WriteTarget(l, v)
  PROVE  /\ disk' \in [Halves -> [Locs -> Contents]]
         /\ staged' \in [Halves -> [Names -> Contents]]
<1>1. CASE HasUpdate(CloneTarget, l)
  <2>1. UNCHANGED disk /\ staged' = [staged EXCEPT ![CloneTarget][l[2]] = v]
    BY <1>1 DEF WriteTarget
  <2> QED
    BY <2>1, TargetTypes, WriteTyped DEF StoreTypeOK
<1>2. CASE ~HasUpdate(CloneTarget, l)
  <2>1. UNCHANGED staged /\ disk' = [disk EXCEPT ![CloneTarget][l] = v]
    BY <1>2 DEF WriteTarget
  <2> QED
    BY <2>1, TargetTypes, WriteTyped DEF StoreTypeOK
<1> QED
  BY <1>1, <1>2

LEMMA OutputTyped ==
  ASSUME StoreTypeOK, NEW l \in Locs, NEW v \in Contents, Output(l, v)
  PROVE  /\ disk' \in [Halves -> [Locs -> Contents]]
         /\ staged' \in [Halves -> [Names -> Contents]]
<1>1. CASE Staging(l)
  <2>1. UNCHANGED disk /\ staged' = [staged EXCEPT ![OutputHalf(l)][l[2]] = v]
    BY <1>1 DEF Output
  <2> QED
    BY <2>1, TargetTypes, WriteTyped DEF StoreTypeOK
<1>2. CASE ~Staging(l)
  <2>1. UNCHANGED staged /\ disk' = [disk EXCEPT ![OutputHalf(l)][l] = v]
    BY <1>2 DEF Output
  <2> QED
    BY <2>1, TargetTypes, WriteTyped DEF StoreTypeOK
<1> QED
  BY <1>1, <1>2

LEMMA CloneTyped ==
  ASSUME StoreTypeOK, CloneTypeOK, CloneNext
  PROVE  StoreTypeOK' /\ CloneTypeOK'
<1> USE DEF CloneTypeOK, ClonePcs
<1> DEFINE P == StoreTypeOK' /\ CloneTypeOK'
<1>1. CloneIdle \in [pc : ClonePcs, todo : SUBSET Locs, current : SUBSET Locs,
                     step : {"pick", "clear", "touch", "copy"},
                     cleared : BOOLEAN, changes : BOOLEAN]
  BY DEF CloneIdle
<1>2. \A h, locs : locs \subseteq Locs => Listed(h, locs) \subseteq Locs
  BY DEF Listed
<1>3. BootLocs \subseteq Locs /\ DataLocs \subseteq Locs
  BY DEF Locs
<1>4. UNCHANGED store => StoreTypeOK'
  BY DEF store, StoreTypeOK
<1>5. CASE CloneStart
  BY <1>1, <1>2, <1>3, <1>4, <1>5 DEF CloneStart
<1>6. CASE CloneClearId
  BY <1>6, TargetTypes, IdTyped DEF CloneClearId, StoreTypeOK
<1>7. CASE CloneCopyUnverified
  BY <1>4, <1>7 DEF CloneCopyUnverified, FileDone
<1>8. CASE CloneAbort
  BY <1>1, <1>4, <1>8 DEF CloneAbort
<1>9. CASE CloneNextLoop
  <2>1. /\ Listed(cmd.half, DataLocs) \subseteq Locs
        /\ Listed(CloneTarget, BootLocs) \subseteq Locs
        /\ Listed(CloneTarget, DataLocs) \subseteq Locs
    BY <1>2, <1>3
  <2> QED
    BY <1>4, <1>9, <2>1 DEF CloneNextLoop
<1>10. CASE CloneFinish
  BY <1>1, <1>4, <1>10 DEF CloneFinish
<1>11. CASE CloneWriteId
  BY <1>1, <1>11, TargetTypes, IdTyped DEF CloneWriteId, StoreTypeOK
<1>12. ASSUME NEW l \in Locs, ClonePick(l) PROVE P
  <2>1. CASE clone' = [clone EXCEPT !.todo = @ \ {l}]
    BY <1>4, <1>12, <2>1 DEF ClonePick
  <2>2. CASE clone' = [clone EXCEPT !.todo = @ \ {l}, !.current = {l},
                                    !.step = IF clone.cleared THEN "touch" ELSE "clear"]
    BY <1>4, <1>12, <2>2 DEF ClonePick
  <2> QED
    BY <1>12, <2>1, <2>2 DEF ClonePick
<1>13. ASSUME NEW l \in Locs, CloneCopyBegin(l) PROVE P
  <2>1. Torn(CloneTarget) \in Contents
    BY TargetTypes, HalvesFacts
  <2> QED
    BY <1>13, <2>1, WriteTargetTyped DEF CloneCopyBegin, StoreTypeOK
<1>14. ASSUME NEW l \in Locs, CloneCopyEnd(l) PROVE P
  <2>1. Considered(cmd.half, l) \in Contents
    BY TargetTypes, ContentTypes
  <2> QED
    BY <1>14, <2>1, WriteTargetTyped DEF CloneCopyEnd, FileDone, StoreTypeOK
<1>15. ASSUME NEW l \in Locs, ClonePurge(l) PROVE P
  <2>1. disk' \in [Halves -> [Locs -> Contents]]
    BY <1>15, TargetTypes, HalvesFacts, WriteTyped DEF ClonePurge
  <2> QED
    BY <1>15, <2>1 DEF ClonePurge, FileDone, StoreTypeOK
<1> QED
  BY <1>5, <1>6, <1>7, <1>8, <1>9, <1>10, <1>11, <1>12, <1>13, <1>14, <1>15 DEF CloneNext

LEMMA XdeltaTyped ==
  ASSUME StoreTypeOK, XdeltaTypeOK, XdeltaNext
  PROVE  StoreTypeOK' /\ XdeltaTypeOK'
<1> DEFINE P == StoreTypeOK' /\ XdeltaTypeOK'
<1>1. XdeltaInit => XdeltaTypeOK
  BY DEF XdeltaInit, XdeltaIdle, XdeltaTypeOK
<1>2. xdelta' = XdeltaIdle => XdeltaTypeOK'
  BY DEF XdeltaIdle, XdeltaTypeOK
<1>3. Existing(BootLocs) \subseteq Locs /\ Existing(DataLocs) \subseteq Locs
  BY DEF Existing, Locs
<1>4. UNCHANGED store => StoreTypeOK'
  BY DEF store, StoreTypeOK
<1>5. ASSUME NEW l \in Locs, NEW from \in {"package", "current"}, Start(l, from)
      PROVE  XdeltaTypeOK'
  BY <1>5 DEF Start, XdeltaTypeOK
<1>6. CASE XdeltaStart
  <2>1. PICK pkg \in Packages, download \in BOOLEAN, other \in BOOLEAN :
          xdelta' = [XdeltaIdle EXCEPT !.pc = "boot", !.todo = Existing(BootLocs),
                       !.pkg = pkg, !.download = download, !.pending = other]
    BY <1>6 DEF XdeltaStart
  <2>2. pkg \in [Names -> Versions \cup {NoFile}]
    BY PackagesAssumption
  <2> QED
    BY <1>3, <1>4, <1>6, <2>1, <2>2 DEF XdeltaStart, XdeltaIdle, XdeltaTypeOK
<1>7. CASE XdeltaClearId
  BY <1>7, TargetTypes, IdTyped DEF XdeltaClearId, StoreTypeOK, XdeltaTypeOK
<1>8. CASE XdeltaAbort
  BY <1>2, <1>4, <1>8 DEF XdeltaAbort
<1>9. CASE XdeltaDataLoop
  BY <1>3, <1>4, <1>9 DEF XdeltaDataLoop, XdeltaTypeOK
<1>10. xdelta' = AfterId => XdeltaTypeOK'
  BY <1>2 DEF AfterId, XdeltaTypeOK
<1>11. CASE XdeltaFilesOver
  BY <1>4, <1>10, <1>11 DEF XdeltaFilesOver, XdeltaTypeOK
<1>12. CASE XdeltaWriteId
  BY <1>2, <1>10, <1>12, TargetTypes, IdTyped DEF XdeltaWriteId, StoreTypeOK
<1>13. CASE XdeltaFlag
  <2>1. env' \in [attempt : BOOLEAN, active : Halves \cup {"unset"},
                  last : Halves \cup {"unset"}, force : BOOLEAN]
    BY <1>13 DEF XdeltaFlag, StoreTypeOK
  <2> QED
    BY <1>2, <1>13, <2>1 DEF XdeltaFlag, StoreTypeOK
<1>14. ASSUME NEW l \in Locs, XdeltaAlreadyGood(l) PROVE P
  BY <1>4, <1>14 DEF XdeltaAlreadyGood, XdeltaTypeOK
<1>15. ASSUME NEW l \in Locs, XdeltaFetch(l) PROVE P
  BY <1>4, <1>5, <1>15 DEF XdeltaFetch
<1>16. ASSUME NEW l \in Locs, XdeltaCopyFromCurrent(l) PROVE P
  BY <1>4, <1>5, <1>16 DEF XdeltaCopyFromCurrent
<1>17. ASSUME NEW l \in Locs, XdeltaSkip(l) PROVE P
  BY <1>4, <1>17 DEF XdeltaSkip, XdeltaTypeOK
<1>18. ASSUME NEW l \in Locs, XdeltaWriteBegin(l) PROVE P
  <2>1. Torn(OutputHalf(l)) \in Contents
    BY TargetTypes, HalvesFacts
  <2>2. /\ disk' \in [Halves -> [Locs -> Contents]]
        /\ staged' \in [Halves -> [Names -> Contents]]
    BY <1>18, <2>1, OutputTyped DEF XdeltaWriteBegin, StoreTypeOK
  <2> QED
    BY <1>18, <2>2 DEF XdeltaWriteBegin, StoreTypeOK, XdeltaTypeOK
<1>19. ASSUME NEW l \in Locs, XdeltaWriteEnd(l) PROVE P
  <2>1. Torn(OutputHalf(l)) \in Contents /\ Current(l) \in Contents
    BY TargetTypes, HalvesFacts DEF Current, StoreTypeOK
  <2>2. xdelta.pkg[l[2]] \in Contents
    BY LocsFacts, HalvesFacts DEF XdeltaTypeOK
  <2>3. /\ disk' \in [Halves -> [Locs -> Contents]]
        /\ staged' \in [Halves -> [Names -> Contents]]
    BY <1>19, <2>1, <2>2, OutputTyped DEF XdeltaWriteEnd
  <2> QED
    BY <1>19, <2>3 DEF XdeltaWriteEnd, StoreTypeOK, XdeltaTypeOK
<1> QED
  BY <1>6, <1>7, <1>8, <1>9, <1>11, <1>12, <1>13, <1>14, <1>15, <1>16, <1>17, <1>18, <1>19
     DEF XdeltaNext

LEMMA FirstTyped ==
  ASSUME StoreTypeOK, FirstTypeOK, FirstNext
  PROVE  StoreTypeOK' /\ FirstTypeOK'
<1>1. UNCHANGED store => StoreTypeOK'
  BY DEF store, StoreTypeOK
<1>2. CASE PersistCreated
  BY <1>1, <1>2 DEF PersistCreated, FirstTypeOK
<1>3. CASE FirstStart
  BY <1>1, <1>3 DEF FirstStart, FirstTypeOK
<1>4. ASSUME NEW h \in Halves, NEW pc, NEW next \in {"idB", "remove"}, FirstId(h, pc, next)
      PROVE  StoreTypeOK' /\ FirstTypeOK'
  BY <1>4, IdTyped DEF FirstId, StoreTypeOK, FirstTypeOK
<1>5. CASE FirstRemoveTrigger
  BY <1>1, <1>5 DEF FirstRemoveTrigger, FirstTypeOK
<1>6. CASE FirstFlagSuccess
  BY <1>6 DEF FirstFlagSuccess, StoreTypeOK, FirstTypeOK
<1> QED
  BY <1>2, <1>3, <1>4, <1>5, <1>6 DEF FirstNext, Halves

LEMMA MmcargsTyped == ASSUME StoreTypeOK, Mmcargs PROVE StoreTypeOK'
<1>1. Selected \in Halves
  BY HalvesFacts DEF Selected, ActiveHalf, Halves
<1> QED
  BY <1>1 DEF Mmcargs, StoreTypeOK, Phases

LEMMA NextTyped == ASSUME TypeOK, [Next]_vars PROVE TypeOK'
<1> USE DEF TypeOK
<1>1. /\ UNCHANGED init => (InitRamTypeOK' <=> InitRamTypeOK)
      /\ UNCHANGED clone => (CloneTypeOK' <=> CloneTypeOK)
      /\ UNCHANGED xdelta => (XdeltaTypeOK' <=> XdeltaTypeOK)
      /\ UNCHANGED firstVars => (FirstTypeOK' <=> FirstTypeOK)
  BY DEF InitRamTypeOK, CloneTypeOK, XdeltaTypeOK, FirstTypeOK, firstVars
<1>2. Down => TypeOK'
  BY DEF Down, StoreTypeOK, Phases, InitRamTypeOK, Idle, CloneTypeOK, CloneIdle, ClonePcs,
         XdeltaTypeOK, XdeltaIdle, FirstTypeOK
<1>3. CASE UBootStep
  BY <1>1, <1>3, MmcargsTyped DEF UBootStep
<1>4. CASE InitRamStep
  BY <1>1, <1>4, InitRamTyped DEF InitRamStep
<1>5. CASE CloneStep
  BY <1>1, <1>5, CloneTyped DEF CloneStep
<1>6. CASE XdeltaStep
  BY <1>1, <1>6, XdeltaTyped DEF XdeltaStep
<1>7. CASE FirstStep
  BY <1>1, <1>7, FirstTyped DEF FirstStep
<1>8. CASE PowerOff \/ BootFails \/ FirstReboot
  BY <1>2, <1>8 DEF PowerOff, BootFails, FirstReboot
<1>9. CASE BootSucceeds
  BY <1>1, <1>9 DEF BootSucceeds, StoreTypeOK, Phases
<1>10. CASE AppAccepts
  BY <1>1, <1>10 DEF AppAccepts, StoreTypeOK
<1>11. CASE OperatorForces
  BY <1>1, <1>11 DEF OperatorForces, StoreTypeOK
<1>12. CASE UNCHANGED vars
  BY <1>1, <1>12 DEF vars, store, StoreTypeOK, firstVars
<1> QED
  BY <1>3, <1>4, <1>5, <1>6, <1>7, <1>8, <1>9, <1>10, <1>11, <1>12 DEF Next

(* Every variable of the system keeps its type, whatever the scheme, the    *)
(* options and the failures.                                                *)
THEOREM TypeCorrect == Spec => []TypeOK
BY InitTyped, NextTyped, PTL DEF Spec

------------------------------------------------------------------------------
(* Staged updates, in either scheme and with any number of tools at once     *)

(* The tools run only while the system is up. *)
ToolsUp ==
  /\ phase # "up" => clone = CloneIdle /\ xdelta = XdeltaIdle
  /\ clone.pc = "idle" => clone = CloneIdle
  /\ xdelta.pc = "idle" => xdelta = XdeltaIdle

(* Only squashfs files are staged. *)
StagedAreSquash == \A h \in Halves, n \in Names : staged[h][n] # NoFile => n \in SquashNames

InitTodo == init.todo \cup init.current

(* The rootfs loop has all the rootfs updates to apply and no other, so none *)
(* is left for the extra loop.                                               *)
LoopsSplit ==
  /\ \A u, w \in init.current : u = w
  /\ phase = "rootfs" =>
       /\ \A u \in InitTodo : u[2] \in RootfsNames
       /\ \A u \in Pending : u[2] \in RootfsNames => u \in InitTodo
  /\ phase = "extra" => \A u \in InitTodo : u[2] \in SquashNames \ RootfsNames

StagedInv == TypeOK /\ ToolsUp /\ StagedAreSquash /\ LoopsSplit

LEMMA CloneUp ==
  ASSUME TypeOK, ToolsUp, CloneStep
  PROVE  phase = "up" /\ UNCHANGED <<phase, init, xdelta>> /\ ToolsUp'
<1>1. UNCHANGED <<phase, init, xdelta>>
  BY DEF CloneStep, CloneNext, CloneStart, CloneClearId, CloneCopyUnverified, CloneAbort,
     CloneNextLoop, CloneFinish, CloneWriteId, ClonePick, CloneCopyBegin, CloneCopyEnd,
     ClonePurge, store
<1>2. clone.pc = "idle" => CloneStart
  <2>1. clone.pc = "idle" => clone.step = "pick" /\ clone.todo = {}
    BY DEF ToolsUp, CloneIdle
  <2> QED
    BY <2>1 DEF CloneStep, CloneNext, CloneClearId, CloneCopyUnverified, CloneAbort,
       CloneNextLoop, LoopOver, CloneFinish, CloneOver, CloneWriteId, ClonePick,
       CloneCopyBegin, CloneCopyEnd, ClonePurge
<1>3. phase = "up"
  BY <1>2 DEF CloneStart, ToolsUp, CloneIdle
<1>4. clone'.pc = "idle" => clone' = CloneIdle
  <2>1. CASE clone.pc = "idle"
    BY <1>2, <2>1 DEF CloneStart, CloneIdle
  <2>2. CASE clone.pc # "idle" /\ clone' # CloneIdle
    BY <2>2 DEF TypeOK, CloneTypeOK, CloneStep, CloneNext, CloneStart, CloneClearId,
       CloneCopyUnverified, CloneAbort, CloneNextLoop, CloneFinish, CloneWriteId, ClonePick,
       CloneCopyBegin, CloneCopyEnd, ClonePurge, FileDone
  <2> QED
    BY <2>1, <2>2
<1> QED
  BY <1>1, <1>3, <1>4 DEF ToolsUp

LEMMA XdeltaUp ==
  ASSUME TypeOK, ToolsUp, XdeltaStep
  PROVE  phase = "up" /\ UNCHANGED <<phase, init, clone>> /\ ToolsUp'
<1>1. UNCHANGED <<phase, init, clone>>
  BY DEF XdeltaStep, XdeltaNext, XdeltaStart, XdeltaClearId, XdeltaAbort, XdeltaDataLoop,
     XdeltaFilesOver, XdeltaWriteId, XdeltaFlag, XdeltaAlreadyGood, XdeltaFetch,
     XdeltaCopyFromCurrent, XdeltaSkip, XdeltaWriteBegin, XdeltaWriteEnd, store
<1>2. xdelta.pc = "idle" => XdeltaStart
  <2>1. xdelta.pc = "idle" => /\ xdelta.step = "pick" /\ xdelta.todo = {}
                              /\ ~xdelta.download
    BY DEF ToolsUp, XdeltaIdle
  <2> QED
    BY <2>1 DEF XdeltaStep, XdeltaNext, XdeltaClearId, XdeltaAbort, XdeltaDataLoop,
       XdeltaFilesOver, XdeltaWriteId, XdeltaFlag, XdeltaAlreadyGood, XdeltaFetch,
       XdeltaCopyFromCurrent, XdeltaSkip, XdeltaWriteBegin, XdeltaWriteEnd, Picking, NoUpdate
<1>3. phase = "up"
  <2>1. phase # "up" => xdelta.pc = "idle"
    BY DEF ToolsUp, XdeltaIdle
  <2> QED
    BY <1>2, <2>1 DEF XdeltaStart
<1>4. xdelta'.pc = "idle" => xdelta' = XdeltaIdle
  <2>1. CASE XdeltaStart
    <3>1. PICK pkg \in Packages, download \in BOOLEAN, other \in BOOLEAN :
            xdelta' = [XdeltaIdle EXCEPT !.pc = "boot", !.todo = Existing(BootLocs),
                         !.pkg = pkg, !.download = download, !.pending = other]
      BY <2>1 DEF XdeltaStart
    <3> QED
      BY <3>1 DEF XdeltaIdle
  <2>2. CASE ~XdeltaStart /\ xdelta' # XdeltaIdle
    <3>1. XdeltaTypeOK /\ xdelta.pc # "idle"
      BY <1>2, <2>2 DEF TypeOK
    <3>2. CASE XdeltaClearId \/ XdeltaDataLoop \/ XdeltaFilesOver \/ XdeltaWriteId
      BY <2>2, <3>1, <3>2 DEF XdeltaClearId, XdeltaDataLoop, XdeltaFilesOver, XdeltaWriteId,
         AfterId, XdeltaTypeOK
    <3>3. ASSUME NEW l \in Locs, NEW from, Start(l, from) PROVE xdelta'.pc # "idle"
      BY <3>1, <3>3 DEF Start, XdeltaTypeOK
    <3>4. ASSUME NEW l \in Locs, XdeltaAlreadyGood(l) \/ XdeltaFetch(l)
                 \/ XdeltaCopyFromCurrent(l) \/ XdeltaSkip(l)
          PROVE  xdelta'.pc # "idle"
      BY <3>1, <3>3, <3>4 DEF XdeltaAlreadyGood, XdeltaFetch, XdeltaCopyFromCurrent, XdeltaSkip,
         XdeltaTypeOK
    <3>5. ASSUME NEW l \in Locs, XdeltaWriteBegin(l) \/ XdeltaWriteEnd(l)
          PROVE  xdelta'.pc # "idle"
      BY <3>1, <3>5 DEF XdeltaWriteBegin, XdeltaWriteEnd, XdeltaTypeOK
    <3> QED
      BY <2>2, <3>2, <3>4, <3>5 DEF XdeltaStep, XdeltaNext, XdeltaAbort, XdeltaFlag
  <2> QED
    BY <2>1, <2>2
<1> QED
  BY <1>1, <1>3, <1>4 DEF ToolsUp

(* A tool writes to a staged update only where it looks for one. *)
LEMMA ToolsStageSquash ==
  ASSUME TypeOK, StagedAreSquash, CloneStep \/ XdeltaStep
  PROVE  StagedAreSquash'
<1>1. StoreTypeOK
  BY DEF TypeOK
<1>2. staged' = staged => StagedAreSquash'
  BY DEF StagedAreSquash
<1>3. ASSUME NEW h, NEW n \in SquashNames, NEW v, staged' = [staged EXCEPT ![h][n] = v]
      PROVE  StagedAreSquash'
  BY <1>1, <1>3 DEF StagedAreSquash, StoreTypeOK
<1>4. ASSUME NEW l \in Locs, NEW v, WriteTarget(l, v) \/ Output(l, v)
      PROVE  StagedAreSquash'
  BY <1>2, <1>3, <1>4 DEF WriteTarget, Output, HasUpdate, Staging, LooksForUpdate
<1>5. CASE CloneStep
  BY <1>2, <1>4, <1>5
     DEF CloneStep, CloneNext, CloneStart, CloneClearId, CloneCopyUnverified, CloneAbort,
         CloneNextLoop, CloneFinish, CloneWriteId, ClonePick, CloneCopyBegin, CloneCopyEnd,
         ClonePurge, store
<1>6. CASE XdeltaStep
  BY <1>2, <1>4, <1>6
     DEF XdeltaStep, XdeltaNext, XdeltaStart, XdeltaClearId, XdeltaAbort, XdeltaDataLoop,
         XdeltaFilesOver, XdeltaWriteId, XdeltaFlag, XdeltaAlreadyGood, XdeltaFetch,
         XdeltaCopyFromCurrent, XdeltaSkip, XdeltaWriteBegin, XdeltaWriteEnd, store
<1> QED
  BY <1>5, <1>6

(* What the initramfs does to the staged updates: it drops one at a time,    *)
(* after copying it to the file of the current loop.                         *)
LEMMA InitRamSplit ==
  ASSUME ~WriteErrors \/ RootfsNames = {}, StagedInv, InitRamStep
  PROVE  StagedAreSquash' /\ LoopsSplit'
<1>1. StoreTypeOK /\ InitRamTypeOK /\ StagedAreSquash /\ LoopsSplit
  BY DEF StagedInv, TypeOK
<1>2. \A u \in Pending : u \in Halves \X Names /\ u[2] \in SquashNames
  BY <1>1 DEF StagedAreSquash, Pending
<1>3. CASE EnterRootfsLoop
  BY <1>1, <1>2, <1>3
     DEF EnterRootfsLoop, Idle, StagedAreSquash, LoopsSplit, InitTodo, Pending
<1>4. CASE EnterExtraLoop
  BY <1>1, <1>2, <1>4
     DEF EnterExtraLoop, Idle, StagedAreSquash, LoopsSplit, InitTodo, Pending
<1>5. CASE UpdatesOver
  BY <1>1, <1>5 DEF UpdatesOver, StagedAreSquash, LoopsSplit
<1>6. ASSUME NEW u \in Halves \X Names, UpdateBegin(u) PROVE StagedAreSquash' /\ LoopsSplit'
  <2>1. /\ staged' = staged /\ phase' = phase
        /\ init'.todo = init.todo \ {u} /\ init'.current = {u} /\ InitTodo' = InitTodo
    BY <1>1, <1>6 DEF UpdateBegin, InitRamTypeOK, InitTodo
  <2> QED
    BY <1>1, <2>1 DEF StagedAreSquash, LoopsSplit, Pending
<1>7. ASSUME NEW u \in Halves \X Names, UpdateDone(u) PROVE StagedAreSquash' /\ LoopsSplit'
  <2>1. /\ staged' = [staged EXCEPT ![u[1]][u[2]] = NoFile] /\ phase' = phase
        /\ init'.todo = init.todo /\ init'.current = {} /\ InitTodo' \subseteq InitTodo
        /\ InitTodo \subseteq InitTodo' \cup {u}
    BY <1>1, <1>7 DEF UpdateDone, InitRamTypeOK, InitTodo, LoopsSplit
  <2>2. Pending' \subseteq Pending \ {u}
    BY <1>1, <2>1 DEF Pending, StoreTypeOK
  <2>3. StagedAreSquash'
    BY <1>1, <2>1 DEF StagedAreSquash, StoreTypeOK
  <2> QED
    BY <1>1, <2>1, <2>2, <2>3 DEF LoopsSplit
<1>8. ASSUME NEW u \in Halves \X Names, UpdatePanic(u) PROVE StagedAreSquash' /\ LoopsSplit'
  <2>1. /\ staged' = staged /\ phase' = phase /\ RootfsNames = {}
        /\ init'.current = {} /\ InitTodo' \subseteq InitTodo
    BY <1>1, <1>8 DEF UpdatePanic, InitRamTypeOK, InitTodo, store
  <2> QED
    BY <1>1, <2>1 DEF StagedAreSquash, LoopsSplit, Pending
<1> QED
  BY <1>3, <1>4, <1>5, <1>6, <1>7, <1>8 DEF InitRamStep, InitRamNext

LEMMA StagedStep ==
  ASSUME ~WriteErrors \/ RootfsNames = {}, StagedInv, [Next]_vars
  PROVE  StagedInv'
<1>1. TypeOK /\ ToolsUp /\ StagedAreSquash /\ LoopsSplit
  BY DEF StagedInv
<1>2. TypeOK'
  BY <1>1, NextTyped
<1>3. UNCHANGED staged => StagedAreSquash'
  BY <1>1 DEF StagedAreSquash
<1>4. phase' \notin {"rootfs", "extra"} /\ (init' = Idle \/ init' = init) => LoopsSplit'
  BY <1>1 DEF LoopsSplit, Idle
<1>5. CASE UBootStep \/ PowerOff \/ BootFails \/ FirstReboot \/ BootSucceeds
  BY <1>1, <1>2, <1>3, <1>4, <1>5
     DEF UBootStep, Mmcargs, PowerOff, BootFails, FirstReboot, Down, BootSucceeds, StagedInv,
         ToolsUp, CloneIdle, XdeltaIdle
<1>6. CASE InitRamStep
  <2>1. UNCHANGED <<clone, xdelta>> /\ phase # "up" /\ phase' # "up"
    BY <1>6 DEF InitRamStep, InitRamNext, EnterRootfsLoop, EnterExtraLoop, UpdatesOver,
       UpdateBegin, UpdateDone, UpdatePanic, store
  <2>2. ToolsUp'
    BY <1>1, <2>1 DEF ToolsUp
  <2> QED
    BY <1>2, <1>6, <2>2, InitRamSplit DEF StagedInv
<1>7. CASE CloneStep \/ XdeltaStep
  BY <1>1, <1>2, <1>4, <1>7, CloneUp, XdeltaUp, ToolsStageSquash DEF StagedInv
<1>8. CASE FirstStep \/ AppAccepts \/ OperatorForces \/ UNCHANGED vars
  <2>1. UNCHANGED <<staged, phase, init, clone, xdelta>>
    BY <1>8 DEF FirstStep, FirstNext, PersistCreated, FirstStart, FirstId, FirstRemoveTrigger,
       FirstFlagSuccess, AppAccepts, OperatorForces, vars, store
  <2>2. ToolsUp' /\ LoopsSplit'
    BY <1>1, <2>1 DEF ToolsUp, LoopsSplit, InitTodo, Pending
  <2> QED
    BY <1>2, <1>3, <2>1, <2>2 DEF StagedInv
<1> QED
  BY <1>5, <1>6, <1>7, <1>8 DEF Next

LEMMA InitStaged == ASSUME Init PROVE StagedInv
BY InitTyped DEF Init, StoreInit, InitRamInit, Idle, CloneInit, XdeltaInit, StagedInv, ToolsUp,
   StagedAreSquash, LoopsSplit

LEMMA StagedAlways ==
  ASSUME ~WriteErrors \/ RootfsNames = {}
  PROVE  Spec => []StagedInv
<1>1. Init => StagedInv
  BY InitStaged
<1>2. StagedInv /\ [Next]_vars => StagedInv'
  BY StagedStep
<1> QED
  BY <1>1, <1>2, PTL DEF Spec

(* The initramfs drops a staged update only once the file it replaces holds  *)
(* it: in either scheme, whatever power does during the copies, with any     *)
(* number of tools at once, as long as no write fails or no squashfs is kept *)
(* in the boot folder.                                                       *)
THEOREM UpdatesAreNotLost ==
  ASSUME ~WriteErrors \/ RootfsNames = {}
  PROVE  Spec => UpdateNotLost
<1>1. ASSUME StagedInv, [Next]_vars, phase # "up", NEW h \in Halves, NEW n \in Names,
             staged[h][n] # NoFile, staged'[h][n] = NoFile
      PROVE  disk'[h][<<IF n \in RootfsNames THEN "boot" ELSE "data", n>>] = staged[h][n]
  <2>1. TypeOK /\ StoreTypeOK /\ ToolsUp /\ LoopsSplit
    BY <1>1 DEF StagedInv, TypeOK
  <2>2. ~CloneStep /\ ~XdeltaStep
    BY <1>1, <2>1, CloneUp, XdeltaUp
  <2>3. PICK u \in Halves \X Names : UpdateDone(u)
    BY <1>1, <2>2 DEF Next, UBootStep, Mmcargs, PowerOff, BootFails, FirstReboot, Down,
       BootSucceeds, InitRamStep, InitRamNext, EnterRootfsLoop, EnterExtraLoop, UpdatesOver,
       UpdateBegin, UpdatePanic, FirstStep, FirstNext, PersistCreated, FirstStart, FirstId,
       FirstRemoveTrigger, FirstFlagSuccess, AppAccepts, OperatorForces, vars, store
  <2>4. u[1] = h /\ u[2] = n
    BY <1>1, <2>1, <2>3 DEF UpdateDone, StoreTypeOK
  <2>5. u \in InitTodo
    BY <2>3 DEF UpdateDone, InitTodo
  <2>6. /\ Destination(n) = <<IF n \in RootfsNames THEN "boot" ELSE "data", n>>
        /\ Destination(n) \in Locs
    <3>1. CASE phase = "rootfs"
      BY <2>1, <2>4, <2>5, <3>1, LocsFacts DEF LoopsSplit, Destination, RootfsNames
    <3>2. CASE phase = "extra"
      <4>1. n \in SquashNames \ RootfsNames
        BY <2>1, <2>4, <2>5, <3>2 DEF LoopsSplit
      <4>2. n \in DataNames
        BY <4>1, NamesAssumption DEF RootfsNames
      <4> QED
        BY <3>2, <4>1, <4>2, LocsFacts DEF Destination
    <3> QED
      BY <2>3, <3>1, <3>2 DEF UpdateDone
  <2>7. disk' = [disk EXCEPT ![h][Destination(n)] = staged[h][n]]
    BY <2>3, <2>4 DEF UpdateDone
  <2> QED
    BY <2>1, <2>6, <2>7 DEF StoreTypeOK
<1>2. StagedInv /\ [Next]_vars =>
        [phase # "up" =>
           \A h \in Halves, n \in Names :
             staged[h][n] # NoFile /\ staged'[h][n] = NoFile =>
               disk'[h][<<IF n \in RootfsNames THEN "boot" ELSE "data", n>>]
                 = staged[h][n]]_vars
  BY <1>1
<1> QED
  BY <1>2, StagedAlways, PTL DEF Spec, UpdateNotLost

------------------------------------------------------------------------------
(* The boot gets past the initramfs with nothing left to apply               *)

(* Each loop still has in hand every update it will have to leave applied.   *)
ExtraHasAll ==
  /\ phase = "extra" => Pending \subseteq InitTodo
  /\ phase = "mount" => Pending = {}

LEMMA ExtraStep ==
  ASSUME ~WriteErrors, StagedInv, ExtraHasAll, [Next]_vars
  PROVE  ExtraHasAll'
<1>1. TypeOK /\ StoreTypeOK /\ InitRamTypeOK /\ ToolsUp /\ LoopsSplit
  BY DEF StagedInv, TypeOK
<1>2. CASE InitRamStep
  <2>1. CASE EnterRootfsLoop
    BY <2>1 DEF EnterRootfsLoop, ExtraHasAll
  <2>2. CASE EnterExtraLoop
    BY <2>2 DEF EnterExtraLoop, ExtraHasAll, InitTodo, Pending, Idle
  <2>3. CASE UpdatesOver
    BY <2>3 DEF UpdatesOver, ExtraHasAll, InitTodo, Pending, Idle
  <2>4. ASSUME NEW u \in Halves \X Names, UpdateBegin(u) PROVE ExtraHasAll'
    <3>1. InitTodo' = InitTodo /\ Pending' = Pending /\ phase' = phase /\ phase # "mount"
      BY <1>1, <2>4 DEF UpdateBegin, InitRamTypeOK, InitTodo, Pending
    <3> QED
      BY <3>1 DEF ExtraHasAll
  <2>5. ASSUME NEW u \in Halves \X Names, UpdateDone(u) PROVE ExtraHasAll'
    <3>1. /\ Pending' \subseteq Pending \ {u} /\ phase' = phase /\ phase # "mount"
          /\ InitTodo \subseteq InitTodo' \cup {u}
      BY <1>1, <2>5 DEF UpdateDone, InitRamTypeOK, InitTodo, LoopsSplit, Pending, StoreTypeOK
    <3> QED
      BY <3>1 DEF ExtraHasAll
  <2> QED
    BY <1>2, <2>1, <2>2, <2>3, <2>4, <2>5 DEF InitRamStep, InitRamNext, UpdatePanic
<1>3. CASE CloneStep \/ XdeltaStep
  BY <1>1, <1>3, CloneUp, XdeltaUp DEF ExtraHasAll
<1>4. CASE UBootStep \/ PowerOff \/ BootFails \/ FirstReboot \/ BootSucceeds
  BY <1>4 DEF UBootStep, Mmcargs, PowerOff, BootFails, FirstReboot, Down, BootSucceeds,
     ExtraHasAll
<1>5. CASE FirstStep \/ AppAccepts \/ OperatorForces \/ UNCHANGED vars
  <2>1. UNCHANGED <<staged, phase, init>>
    BY <1>5 DEF FirstStep, FirstNext, PersistCreated, FirstStart, FirstId, FirstRemoveTrigger,
       FirstFlagSuccess, AppAccepts, OperatorForces, vars, store
  <2> QED
    BY <2>1 DEF ExtraHasAll, InitTodo, Pending
<1> QED
  BY <1>2, <1>3, <1>4, <1>5 DEF Next

(* Where no write fails, the system is started with no update left staged,   *)
(* whichever boots were interrupted before: what is safe in UpdateApplied.   *)
THEOREM NoUpdateIsLeft ==
  ASSUME ~WriteErrors
  PROVE  Spec => [](phase = "mount" => Pending = {})
<1>1. Init => ExtraHasAll
  BY DEF Init, StoreInit, ExtraHasAll
<1>2. StagedInv /\ ExtraHasAll /\ [Next]_vars => ExtraHasAll'
  BY ExtraStep
<1>3. ExtraHasAll => (phase = "mount" => Pending = {})
  BY DEF ExtraHasAll
<1> QED
  BY <1>1, <1>2, <1>3, StagedAlways, PTL DEF Spec

(* What the initramfs has still to do: the loops it has still to enter, then *)
(* the updates of the current one, twice as long as they are not begun.      *)
LoopsLeft(p) == CASE p = "initram" -> 3 [] p = "rootfs" -> 2 [] p = "extra" -> 1 [] OTHER -> 0
UpdatesLeft == 2 * Cardinality(init.todo) + Cardinality(init.current)

(* The update loops of the initramfs come to an end, whatever fails: every   *)
(* step of theirs leaves a loop, or leaves one with less to do.              *)
THEOREM UpdateLoopsEnd ==
  ASSUME IsFiniteSet(Names)
  PROVE  Spec => [][InitRamStep =>
                      \/ LoopsLeft(phase)' < LoopsLeft(phase)
                      \/ /\ LoopsLeft(phase)' = LoopsLeft(phase)
                         /\ UpdatesLeft \in Nat /\ UpdatesLeft' \in Nat
                         /\ UpdatesLeft' < UpdatesLeft]_vars
<1> DEFINE Less == \/ LoopsLeft(phase)' < LoopsLeft(phase)
                   \/ /\ LoopsLeft(phase)' = LoopsLeft(phase)
                      /\ UpdatesLeft \in Nat /\ UpdatesLeft' \in Nat
                      /\ UpdatesLeft' < UpdatesLeft
<1>1. ASSUME TypeOK, InitRamStep PROVE Less
  <2>1. InitRamTypeOK
    BY <1>1 DEF TypeOK
  <2>2. IsFiniteSet(init.todo) /\ IsFiniteSet(init.current)
    <3>1. IsFiniteSet(Halves \X Names)
      <4>1. IsFiniteSet({"a"} \cup {"b"})
        BY FS_AddElement, FS_Singleton
      <4>2. Halves = {"a"} \cup {"b"}
        BY DEF Halves
      <4> QED
        BY <4>1, <4>2, FS_Product
    <3> QED
      BY <2>1, <3>1, FS_Subset DEF InitRamTypeOK
  <2>3. Cardinality(init.todo) \in Nat /\ Cardinality(init.current) \in Nat
    BY <2>2, FS_CardinalityType
  <2>4. CASE EnterRootfsLoop \/ EnterExtraLoop \/ UpdatesOver
    BY <2>4 DEF EnterRootfsLoop, EnterExtraLoop, UpdatesOver, LoopsLeft
  <2>5. ASSUME NEW u \in Halves \X Names, UpdateBegin(u) PROVE Less
    <3>1. /\ u \in init.todo /\ init.current = {} /\ phase' = phase
          /\ init'.todo = init.todo \ {u} /\ init'.current = {u}
      BY <2>1, <2>5 DEF UpdateBegin, InitRamTypeOK
    <3>2. /\ Cardinality(init'.todo) = Cardinality(init.todo) - 1
          /\ Cardinality(init.todo \ {u}) \in Nat
      BY <2>2, <3>1, FS_RemoveElement, FS_CardinalityType
    <3>3. Cardinality(init'.current) = 1 /\ Cardinality(init.current) = 0
      BY <3>1, FS_Singleton, FS_EmptySet
    <3> QED
      BY <2>3, <3>1, <3>2, <3>3 DEF LoopsLeft, UpdatesLeft
  <2>6. ASSUME NEW u \in Halves \X Names, UpdateDone(u) \/ UpdatePanic(u) PROVE Less
    <3>1. /\ u \in init.current /\ phase' = phase
          /\ init'.todo = init.todo /\ init'.current = {}
      BY <2>1, <2>6 DEF UpdateDone, UpdatePanic, InitRamTypeOK, store
    <3>2. Cardinality(init'.current) = 0 /\ Cardinality(init.current) # 0
      BY <2>2, <3>1, FS_EmptySet
    <3> QED
      BY <2>3, <3>1, <3>2 DEF LoopsLeft, UpdatesLeft
  <2> QED
    BY <1>1, <2>4, <2>5, <2>6 DEF InitRamStep, InitRamNext
<1>2. TypeOK /\ [Next]_vars => [InitRamStep => Less]_vars
  BY <1>1
<1> QED
  BY <1>2, TypeCorrect, PTL DEF Spec
============================================================================
