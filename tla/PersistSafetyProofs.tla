------------------------- MODULE PersistSafetyProofs ------------------------
(***************************************************************************)
(* The inductive invariant of the persistent root file system, and what     *)
(* follows from it.  KeysKept needs dual boot (its sync); the parts on the  *)
(* overlay and on the SecureFS checks hold without it too.                  *)
(***************************************************************************)
EXTENDS PersistProofs

KeysInv == (DualBoot => KeysKept) /\ LoopInv /\ FirstInv

(* The actions, as the cases of the proofs below.                            *)
LEMMA NextCases ==
  ASSUME [Next]_vars
  PROVE  \/ BootStep(LoopNext) \/ BootStep(FormatFails) \/ FirstStep \/ FirstFails
         \/ OverlayNext /\ UNCHANGED <<first, failed>>
         \/ FirstReboot \/ Shutdown \/ PowerFails \/ UNCHANGED vars
BY DEF Next, OverlayNext

------------------------------------------------------------------------------
(* KeysInv *)

LEMMA LoopKeepsKeys ==
  ASSUME TypeOK, KeysInv, BootStep(LoopNext \/ FormatFails)
  PROVE  KeysInv'
<1> USE DEF KeysInv, KeysKept, LoopInv, FirstInv, BootStep, Goto, store, LoopPcs, OverlayPcs
<1>1. CASE Boot \/ LeaveEarlyShell \/ SkipGrowth \/ MountPanic \/ FormatFails
  BY <1>1 DEF Boot, LeaveEarlyShell, SkipGrowth, MountPanic, FormatFails
<1>2. CASE GrowPartition \/ GrowFilesystem
  BY <1>2 DEF GrowPartition, GrowFilesystem
<1>3. CASE ForceFirstInit
  BY <1>3 DEF ForceFirstInit
<1>4. CASE CreateBin
  BY <1>4 DEF CreateBin
<1>5. CASE FormatBin
  BY <1>5 DEF FormatBin, Formatted
<1>6. CASE FindBin \/ MountBin
  BY <1>6 DEF FindBin, MountBin
<1>7. CASE Autofix
  BY <1>7 DEF Autofix
<1>8. CASE LeavePanic
  BY <1>8 DEF LeavePanic
<1> QED
  BY <1>1, <1>2, <1>3, <1>4, <1>5, <1>6, <1>7, <1>8 DEF LoopNext, LoopStep

(* Writing the root file system keeps its keys. *)
LEMMA WriteRootKeys ==
  ASSUME StoreTypeOK, OverlayTypeOK, NEW r, WriteRoot(r), r.keys = Root.keys \/ r.keys = TRUE
  PROVE  /\ layer.keys => layer'.keys
         /\ (~overlay /\ r.keys = TRUE) => layer'.keys
BY DEF WriteRoot, Root, StoreTypeOK, OverlayTypeOK, Layers

LEMMA OverlayKeepsKeys ==
  ASSUME TypeOK, KeysInv, OverlayNext /\ UNCHANGED <<first, failed>>
  PROVE  KeysInv'
<1> USE DEF KeysInv, KeysKept, LoopInv, FirstInv, Goto, store, overlayVars, OverlayPcs
<1>1. CASE MountLayers \/ SecureNext \/ SecurePanic \/ SecureOver
  BY <1>1 DEF MountLayers, SecureNext, SecurePanic, SecureOver
<1>2. CASE EnforceOverlay \/ NoOverlay \/ OverlayPanic \/ LeaveOverlayPanic
  BY <1>2 DEF EnforceOverlay, NoOverlay, OverlayPanic, LeaveOverlayPanic
<1>3. CASE LeaveSecurePanic
  BY <1>3 DEF LeaveSecurePanic
<1>4. CASE Edit
  <2>1. PICK c \in Root.conf .. MaxEdits : WriteRoot([Root EXCEPT !.conf = c])
    BY <1>4 DEF Edit
  <2>2. [Root EXCEPT !.conf = c].keys = Root.keys
    BY RootTyped DEF TypeOK, Layers
  <2>3. layer.keys => layer'.keys
    BY <2>1, <2>2, WriteRootKeys DEF TypeOK
  <2> QED
    BY <1>4, <2>3 DEF Edit
<1>5. CASE WriteBack
  BY <1>5 DEF WriteBack, Sync
<1>6. CASE Commit
  <2>1. layer'.keys = layer.keys /\ durable'.keys = layer.keys
    BY <1>6, CommitTargetFacts DEF Commit, TypeOK
  <2> QED
    BY <1>6, <2>1 DEF Commit
<1> QED
  BY <1>1, <1>2, <1>3, <1>4, <1>5, <1>6 DEF OverlayNext, OverlayStep

(* The service runs without overlay, and syncs before its trigger goes; what *)
(* fails is noted.                                                           *)
LEMMA FirstKeepsKeys ==
  ASSUME TypeOK, KeysInv, OverlayInv, FirstStep \/ FirstFails
  PROVE  KeysInv'
<1> USE DEF KeysInv, KeysKept, LoopInv, FirstInv, FirstStep, FirstFails, store, overlayVars
<1>1. CASE FirstStart
  BY <1>1 DEF FirstStart
<1>2. CASE CreateKeys
  <2>1. [Root EXCEPT !.keys = TRUE].keys = TRUE
    BY RootTyped DEF TypeOK, Layers
  <2>2. pc = "up" /\ ~overlay
    BY <1>2 DEF CreateKeys, OverlayInv, Decided
  <2>3. WriteRoot([Root EXCEPT !.keys = TRUE])
    BY <1>2 DEF CreateKeys
  <2>4. layer'.keys
    BY <2>1, <2>2, <2>3, WriteRootKeys DEF TypeOK
  <2> QED
    BY <1>2, <2>4 DEF CreateKeys
<1>3. CASE WriteIds
  BY <1>3 DEF WriteIds, Sync
<1>4. CASE RemoveTrigger
  BY <1>4 DEF RemoveTrigger
<1>5. CASE KeysFail
  BY <1>5 DEF KeysFail
<1>6. CASE IdsFail \/ TriggerStays
  BY <1>6 DEF IdsFail, TriggerStays
<1> QED
  BY <1>1, <1>2, <1>3, <1>4, <1>5, <1>6

LEMMA DownKeepsKeys ==
  ASSUME TypeOK, KeysInv, FirstReboot \/ Shutdown \/ PowerFails
  PROVE  KeysInv'
<1> USE DEF KeysInv, KeysKept, LoopInv, FirstInv, Down, OverlayPcs
<1>1. CASE FirstReboot \/ Shutdown
  BY <1>1 DEF FirstReboot, Shutdown, Sync
<1>2. CASE PowerFails
  <2>1. bin' = "good" => bin = "good"
    BY <1>2 DEF PowerFails
  <2>2. layer'.keys \in {layer.keys, durable.keys} /\ durable' = layer'
    BY <1>2 DEF PowerFails, AfterPowerFailure
  <2> QED
    BY <1>2, <2>1, <2>2 DEF PowerFails
<1> QED
  BY <1>1, <1>2

------------------------------------------------------------------------------
(* OverlayInv *)

LEMMA OverlayDecided ==
  ASSUME TypeOK, FirstInv, OverlayInv, [Next]_vars
  PROVE  OverlayInv'
<1> USE DEF OverlayInv, Decided, Goto, store, overlayVars
<1>1. CASE BootStep(LoopNext) \/ BootStep(FormatFails)
  BY <1>1 DEF BootStep, LoopNext, LoopStep, Boot, LeaveEarlyShell, SkipGrowth, MountPanic,
     FormatFails, GrowPartition, GrowFilesystem, ForceFirstInit, CreateBin, FormatBin,
     FindBin, MountBin, Autofix, LeavePanic
<1>2. CASE OverlayNext /\ UNCHANGED <<first, failed>>
  <2>1. CASE MountLayers
    BY <1>2, <2>1 DEF MountLayers, OverlayRefused
  <2>2. CASE SecureNext \/ SecurePanic \/ SecureOver \/ LeaveSecurePanic
    BY <1>2, <2>2 DEF SecureNext, SecurePanic, SecureOver, LeaveSecurePanic
  <2>3. CASE EnforceOverlay \/ NoOverlay \/ OverlayPanic \/ LeaveOverlayPanic
    BY <1>2, <2>3 DEF EnforceOverlay, NoOverlay, OverlayPanic, LeaveOverlayPanic
  <2>4. CASE Edit \/ WriteBack \/ Commit
    BY <1>2, <2>4 DEF Edit, WriteBack, Commit
  <2> QED
    BY <1>2, <2>1, <2>2, <2>3, <2>4 DEF OverlayNext, OverlayStep
<1>3. CASE FirstStep \/ FirstFails
  <2>1. CASE FirstStart \/ WriteIds \/ KeysFail \/ IdsFail \/ TriggerStays
    BY <1>3, <2>1 DEF FirstStep, FirstFails, FirstStart, WriteIds, KeysFail, IdsFail, TriggerStays
  <2>2. CASE CreateKeys
    BY <1>3, <2>2 DEF FirstStep, FirstFails, CreateKeys
  <2>3. CASE RemoveTrigger
    BY <1>3, <2>3 DEF FirstStep, FirstFails, RemoveTrigger
  <2> QED
    BY <1>3, <2>1, <2>2, <2>3 DEF FirstStep, FirstFails
<1>4. CASE UNCHANGED vars
  BY <1>4 DEF vars
<1>5. CASE FirstReboot \/ Shutdown \/ PowerFails
  BY <1>5 DEF FirstReboot, Shutdown, PowerFails, Down
<1> QED
  BY <1>1, <1>2, <1>3, <1>4, <1>5, NextCases

------------------------------------------------------------------------------
(* SecureInv *)

(* The checks of one file system are passed one by one. *)
LEMMA NextCheck ==
  ASSUME TypeOK, SecureInv, SecureBoot, SecureNext
  PROVE  SecureInv'
<1> DEFINE f == secure.fs
<1>1. /\ pc = "secure" /\ pc' = pc /\ flags' = flags
      /\ f \in Secured /\ secure.check \in Checks /\ secure.defect \in Defects
      /\ f \in Nat /\ Len(SecureOrder) \in Nat
  BY LenFact DEF SecureNext, TypeOK, OverlayTypeOK, Secured, store
<1>2. Passed(f) \/ secure.defect[f] >= secure.check
  BY <1>1 DEF SecureInv
<1>3. secure.defect[f] \in Nat /\ secure.defect[f] <= 3
  BY <1>1 DEF Defects, Checks
<1>4. secure'.defect = secure.defect
  BY DEF SecureNext, NextFilesystem, TypeOK, OverlayTypeOK
<1>5. \A g \in Secured : Passed(g)' = Passed(g)
  BY <1>1, <1>4 DEF Passed
<1>6. \A g \in Secured : g < f => Passed(g)
  BY <1>1 DEF SecureInv, Decided
<1>7. CASE secure'.fs = f + 1 /\ secure'.check = 1 /\ Passed(f)
  <2>1. \A g \in Secured : g < f + 1 => Passed(g)
    BY <1>1, <1>6, <1>7 DEF Secured
  <2>2. \A g \in Secured : secure'.defect[g] >= 1 \/ Passed(g)
    BY <1>1, <1>4 DEF Defects, Checks, Passed
  <2> QED
    BY <1>1, <1>5, <1>7, <2>1, <2>2 DEF SecureInv
<1>8. CASE /\ secure'.fs = f /\ secure'.check = secure.check + 1
           /\ secure.check # 3 /\ secure.defect[f] # secure.check
  <2>1. Passed(f) \/ secure.defect[f] >= secure.check + 1
    BY <1>1, <1>2, <1>3, <1>8 DEF Checks
  <2> QED
    BY <1>1, <1>4, <1>5, <1>6, <1>8, <2>1 DEF SecureInv
<1>9. \/ secure'.fs = f + 1 /\ secure'.check = 1 /\ Passed(f)
      \/ /\ secure'.fs = f /\ secure'.check = secure.check + 1
         /\ secure.check # 3 /\ secure.defect[f] # secure.check
  <2>1. CASE SkipRequested /\ NextFilesystem
    BY <2>1 DEF SkipRequested, NextFilesystem, Passed, TypeOK, OverlayTypeOK
  <2>2. CASE secure.check = 3 /\ ThisDefect # secure.check /\ NextFilesystem
    <3>1. secure.defect[f] # 3
      BY <2>2 DEF ThisDefect
    <3>2. Passed(f)
      BY <1>2, <1>3, <2>2, <3>1
    <3> QED
      BY <2>2, <3>2 DEF NextFilesystem, TypeOK, OverlayTypeOK
  <2>3. CASE secure.check # 3 /\ ThisDefect # secure.check
             /\ secure' = [secure EXCEPT !.check = @ + 1]
    BY <2>3 DEF ThisDefect, TypeOK, OverlayTypeOK
  <2> QED
    BY <2>1, <2>2, <2>3 DEF SecureNext
<1> QED
  BY <1>7, <1>8, <1>9

LEMMA Consoles ==
  ASSUME TypeOK, SecureInv, SecureBoot, LeaveSecurePanic
  PROVE  SecureInv'
<1>1. /\ secure'.fs = secure.fs /\ secure'.check = secure.check
      /\ pc = "securePanic" /\ pc' = "secure"
  BY DEF LeaveSecurePanic, Goto, TypeOK, OverlayTypeOK
<1>2. \A g \in Secured : Passed(g) => Passed(g)'
  BY DEF LeaveSecurePanic, Passed, TypeOK, OverlayTypeOK, Defects, store
<1>3. \A g \in Secured : secure'.defect[g] = secure.defect[g] \/ secure'.defect[g] = 0
  BY DEF LeaveSecurePanic, TypeOK, OverlayTypeOK, Defects
<1>4. \A g \in Secured : secure'.defect[g] = 0 => Passed(g)'
  BY DEF Passed
<1> QED
  BY <1>1, <1>2, <1>3, <1>4 DEF SecureInv, Decided

LEMMA SecureChecked ==
  ASSUME TypeOK, SecureInv, FirstInv, [Next]_vars
  PROVE  SecureInv'
<1> SUFFICES ASSUME SecureBoot PROVE SecureInv'
  BY DEF SecureInv
<1>1. CASE SecureNext
  BY <1>1, NextCheck
<1>2. CASE LeaveSecurePanic
  BY <1>2, Consoles
<1>3. CASE MountLayers
  <2>1. secure'.fs = 1 /\ secure'.check = 1 /\ secure'.defect = secure.defect /\ pc' = "secure"
    BY <1>3 DEF MountLayers, Goto, TypeOK, OverlayTypeOK
  <2>2. \A g \in Secured : secure'.defect[g] = 0 \/ secure'.defect[g] >= 1
    BY <2>1 DEF TypeOK, OverlayTypeOK, Defects, Checks
  <2>3. \A g \in Secured : ~(g < 1)
    BY LenFact DEF Secured
  <2> QED
    BY <2>1, <2>2, <2>3 DEF SecureInv, Decided, Passed
<1>4. CASE SecurePanic \/ OverlayPanic \/ LeaveOverlayPanic \/ EnforceOverlay \/ NoOverlay
  BY <1>4 DEF SecurePanic, OverlayPanic, LeaveOverlayPanic, EnforceOverlay, NoOverlay,
     SecureInv, Decided, Passed, Goto, store, overlayVars
<1>5. CASE SecureOver
  <2>1. secure.fs = Len(SecureOrder) + 1
    BY <1>5, LenFact DEF SecureOver, Secured, TypeOK, OverlayTypeOK
  <2> QED
    BY <1>5, <2>1 DEF SecureOver, SecureInv, Decided, Passed, Goto, store, overlayVars
<1>6. CASE Edit \/ WriteBack \/ Commit \/ UNCHANGED vars
  BY <1>6 DEF Edit, WriteBack, Commit, vars, SecureInv, Decided, Passed, store, overlayVars
<1>7. CASE FirstStep \/ FirstFails
  <2>1. secure' = secure /\ pc' = pc /\ ("securefs.skip" \in flags => "securefs.skip" \in flags')
    BY <1>7 DEF FirstStep, FirstFails, FirstStart, CreateKeys, WriteIds, RemoveTrigger, KeysFail,
       IdsFail, TriggerStays, store, overlayVars
  <2> QED
    BY <2>1 DEF SecureInv, Decided, Passed
<1>8. CASE FirstReboot \/ Shutdown \/ PowerFails
  BY <1>8 DEF FirstReboot, Shutdown, PowerFails, Down, SecureInv, Decided
<1>9. CASE BootStep(LoopNext) \/ BootStep(FormatFails)
  <2>1. pc' \notin Decided
    BY <1>9 DEF Decided, BootStep, LoopNext, LoopStep, Boot, LeaveEarlyShell, SkipGrowth, MountPanic,
       FormatFails, GrowPartition, GrowFilesystem, ForceFirstInit, CreateBin, FormatBin,
       FindBin, MountBin, Autofix, LeavePanic, Goto
  <2> QED
    BY <2>1 DEF SecureInv, Decided
<1> QED
  BY <1>1, <1>2, <1>3, <1>4, <1>5, <1>6, <1>7, <1>8, <1>9, NextCases DEF OverlayNext, OverlayStep

------------------------------------------------------------------------------
(* The theorems *)

LEMMA InitInv == Init => PersistInv
BY DEF Init, StoreInit, PersistInv, KeysKept, LoopInv, OverlayInv, FirstInv, SecureInv, Decided, OverlayPcs

LEMMA StepInv ==
  ASSUME TypeOK, PersistInv, [Next]_vars
  PROVE  PersistInv'
<1>1. KeysInv
  BY DEF PersistInv, KeysInv
<1>2. KeysInv'
  <2>1. CASE UNCHANGED vars
    BY <1>1, <2>1 DEF vars, KeysInv, KeysKept, LoopInv, FirstInv, store
  <2>2. CASE BootStep(LoopNext) \/ BootStep(FormatFails)
    BY <1>1, <2>2, LoopKeepsKeys DEF BootStep
  <2> QED
    BY <1>1, <2>1, <2>2, NextCases, OverlayKeepsKeys, FirstKeepsKeys, DownKeepsKeys DEF PersistInv
<1>3. OverlayInv' /\ SecureInv'
  BY OverlayDecided, SecureChecked DEF PersistInv
<1> QED
  BY <1>2, <1>3 DEF KeysInv, PersistInv

(* The strengthening is an invariant of every device.                        *)
THEOREM PersistInductive == Spec => []PersistInv
<1>1. TypeOK /\ PersistInv /\ [Next]_vars => PersistInv'
  BY StepInv
<1> QED
  BY <1>1, InitInv, TypeCorrect, PTL DEF Spec

(* No dual-boot device loses its first initialization to an interruption: a  *)
(* persistent layer without keys has its trigger file, or openssl failed in  *)
(* the run that removed it, or dual-tool-id.sh did and power before the       *)
(* reboot of that run (aesys-firstinit.sh 33-96).                            *)
THEOREM KeysAreKept == ASSUME DualBoot PROVE Spec => []KeysKept
<1>1. PersistInv => KeysKept
  BY DEF PersistInv
<1> QED
  BY <1>1, PersistInductive, PTL

(* A root file system without overlay is one whose overlay is disabled or    *)
(* whose first initialization is under way (init-aesys.sh 512-519).          *)
THEOREM WritableRootIsTemporary == Spec => []WritableRootEnds
<1>1. PersistInv => WritableRootEnds
  BY DEF PersistInv, OverlayInv, Decided, WritableRootEnds
<1> QED
  BY <1>1, PersistInductive, PTL

(* Root is switched to checked file systems, whatever the consoles of        *)
(* do_panic were used for (init-aesys.sh 542-743).                           *)
THEOREM StartIsSecure == Spec => []SecureStart
<1>1. TypeOK /\ PersistInv => SecureStart
  <2> SUFFICES ASSUME TypeOK, PersistInv, pc = "up", SecureBoot, NEW f \in Secured
               PROVE  Passed(f)
    BY DEF SecureStart, Passed
  <2>1. secure.fs = Len(SecureOrder) + 1 /\ f < secure.fs
    BY LenFact DEF PersistInv, SecureInv, Secured
  <2> QED
    BY <2>1 DEF PersistInv, SecureInv, Decided
<1> QED
  BY <1>1, PersistInductive, TypeCorrect, PTL
==============================================================================
