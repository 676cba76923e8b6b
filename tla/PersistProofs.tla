---------------------------- MODULE PersistProofs ---------------------------
(***************************************************************************)
(* Proofs about the persistent root file system, for every size of disk,    *)
(* every list of file systems to check and any number of failures.          *)
(***************************************************************************)
EXTENDS PersistSystem, TLAPS

AllTypes == StoreTypeOK /\ OverlayTypeOK

LEMMA LenFact == Len(SecureOrder) \in Nat
BY SecureAssumption

(* Writing the root file system writes one of the two layers. *)
LEMMA RootTyped ==
  ASSUME StoreTypeOK, OverlayTypeOK
  PROVE  /\ Root \in Layers
         /\ \A r \in Layers : WriteRoot(r) => layer' \in Layers /\ ram' \in Layers
BY DEF StoreTypeOK, OverlayTypeOK, Root, WriteRoot

LEMMA CommitTargetFacts ==
  ASSUME StoreTypeOK, OverlayTypeOK
  PROVE  CommitTarget \in Layers /\ CommitTarget.keys = layer.keys
BY DEF CommitTarget, StoreTypeOK, OverlayTypeOK, Layers

(* Going on to another file system or to another check. *)
LEMMA SecureTyped ==
  ASSUME OverlayTypeOK
  PROVE  /\ \A n \in 1 .. Len(SecureOrder) + 1, c \in Checks :
              [secure EXCEPT !.fs = n, !.check = c]
                \in [fs : 1 .. Len(SecureOrder) + 1, check : Checks, defect : Defects]
         /\ \A c \in Checks :
              [secure EXCEPT !.check = c]
                \in [fs : 1 .. Len(SecureOrder) + 1, check : Checks, defect : Defects]
<1>1. secure \in [fs : 1 .. Len(SecureOrder) + 1, check : Checks, defect : Defects]
  BY DEF OverlayTypeOK
<1> HIDE DEF OverlayTypeOK
<1> QED
  BY <1>1

LEMMA EmptyTyped == EmptyLayer \in Layers
BY SizeAssumption DEF EmptyLayer, Layers

------------------------------------------------------------------------------
(* Type correctness *)

LEMMA InitTyped == Init => TypeOK
<1> SUFFICES ASSUME Init PROVE TypeOK
  OBVIOUS
<1>1. StoreTypeOK
  BY EmptyTyped, SizeAssumption DEF Init, StoreInit, StoreTypeOK, Bins
<1>2. OverlayTypeOK
  <2>1. PICK d \in Defects : secure = [fs |-> 1, check |-> 1, defect |-> d]
    BY DEF Init, OverlayInit
  <2>2. secure \in [fs : 1 .. Len(SecureOrder) + 1, check : Checks, defect : Defects]
    <3>1. 1 \in 1 .. Len(SecureOrder) + 1 /\ 1 \in Checks
      BY LenFact DEF Checks
    <3> QED
      BY <2>1, <3>1
  <2>3. overlay = FALSE /\ ram = EmptyLayer /\ committed = 0
    BY DEF Init, OverlayInit
  <2>4. committed \in 0 .. MaxEdits
    BY <2>3, SizeAssumption
  <2>5. overlay \in BOOLEAN /\ ram \in Layers
    BY <2>3, EmptyTyped
  <2> QED
    BY <2>2, <2>4, <2>5 DEF OverlayTypeOK
<1> QED
  BY <1>1, <1>2, SystemAssumption DEF Init, TypeOK, FirstPcs

LEMMA LoopTyped ==
  ASSUME TypeOK, BootStep(LoopNext \/ FormatFails)
  PROVE  AllTypes' /\ pc' \in {"off"} \cup LoopPcs \cup OverlayPcs
<1> USE EmptyTyped, SizeAssumption DEF TypeOK, AllTypes, StoreTypeOK, OverlayTypeOK, store, Goto, LoopPcs, OverlayPcs
<1>1. overlay' \in BOOLEAN /\ ram' \in Layers /\ committed' \in 0 .. MaxEdits
      /\ secure' \in [fs : 1 .. Len(SecureOrder) + 1, check : Checks, defect : Defects]
  BY DEF BootStep
<1>2. StoreTypeOK' /\ pc' \in {"off"} \cup LoopPcs \cup OverlayPcs
  <2>1. CASE Boot \/ LeaveEarlyShell \/ SkipGrowth \/ FindBin \/ MountBin \/ MountPanic \/ FormatFails
    BY <2>1 DEF Boot, LeaveEarlyShell, SkipGrowth, FindBin, MountBin, MountPanic, FormatFails
  <2>2. CASE GrowPartition \/ GrowFilesystem
    BY <2>2 DEF GrowPartition, GrowFilesystem
  <2>3. CASE ForceFirstInit \/ LeavePanic
    BY <2>3 DEF ForceFirstInit, LeavePanic, Flags, Bins
  <2>4. CASE CreateBin \/ FormatBin \/ Autofix
    BY <2>4 DEF CreateBin, FormatBin, Formatted, Autofix, Bins
  <2> QED
    BY <2>1, <2>2, <2>3, <2>4 DEF BootStep, LoopNext, LoopStep
<1> QED
  BY <1>1, <1>2

LEMMA OverlayTyped ==
  ASSUME TypeOK, OverlayNext
  PROVE  AllTypes' /\ pc' \in {"off"} \cup LoopPcs \cup OverlayPcs
<1> USE LenFact DEF TypeOK, AllTypes, StoreTypeOK, OverlayTypeOK, store, overlayVars, Goto, LoopPcs, OverlayPcs
<1>1. CASE MountLayers
  <2>1. 1 \in 1 .. Len(SecureOrder) + 1 /\ 1 \in Checks
    BY DEF Checks
  <2>2. secure' \in [fs : 1 .. Len(SecureOrder) + 1, check : Checks, defect : Defects]
    BY <1>1, <2>1, SecureTyped DEF MountLayers
  <2> QED
    BY <1>1, <2>2 DEF MountLayers
<1>2. CASE SecureNext
  <2>1. secure.fs + 1 \in 1 .. Len(SecureOrder) + 1 /\ 1 \in Checks
        /\ (secure.check # 3 => secure.check + 1 \in Checks)
    BY <1>2 DEF SecureNext, Secured, Checks
  <2>2. secure' \in [fs : 1 .. Len(SecureOrder) + 1, check : Checks, defect : Defects]
    BY <1>2, <2>1, SecureTyped DEF SecureNext, NextFilesystem
  <2> QED
    BY <1>2, <2>2 DEF SecureNext
<1>3. CASE LeaveSecurePanic
  <2>1. secure' \in [fs : 1 .. Len(SecureOrder) + 1, check : Checks, defect : Defects]
    BY <1>3 DEF LeaveSecurePanic, Defects
  <2> QED
    BY <1>3, <2>1 DEF LeaveSecurePanic, Flags
<1>4. CASE SecurePanic \/ SecureOver \/ OverlayPanic \/ LeaveOverlayPanic \/ NoOverlay \/ EnforceOverlay
  BY <1>4 DEF SecurePanic, SecureOver, OverlayPanic, LeaveOverlayPanic, NoOverlay, EnforceOverlay
<1>5. CASE Edit
  <2>1. PICK c \in Root.conf .. MaxEdits : WriteRoot([Root EXCEPT !.conf = c])
    BY <1>5 DEF Edit
  <2>2. [Root EXCEPT !.conf = c] \in Layers
    BY <2>1, RootTyped, SizeAssumption DEF Layers
  <2> QED
    BY <1>5, <2>1, <2>2, RootTyped DEF Edit
<1>6. CASE WriteBack \/ Commit
  BY <1>6, CommitTargetFacts DEF WriteBack, Sync, Commit, Layers
<1> QED
  BY <1>1, <1>2, <1>3, <1>4, <1>5, <1>6 DEF OverlayNext, OverlayStep

LEMMA FirstTyped ==
  ASSUME TypeOK, FirstStep \/ FirstFails
  PROVE  AllTypes' /\ first' \in FirstPcs /\ failed' \subseteq {"keys", "ids"}
<1> USE DEF TypeOK, AllTypes, StoreTypeOK, OverlayTypeOK, store, overlayVars, FirstPcs
<1>1. CASE CreateKeys
  <2>1. [Root EXCEPT !.keys = TRUE] \in Layers
    BY RootTyped DEF Layers
  <2> QED
    BY <1>1, <2>1, RootTyped DEF CreateKeys
<1>2. CASE FirstStart \/ WriteIds \/ RemoveTrigger \/ IdsFail \/ TriggerStays
  BY <1>2 DEF FirstStart, WriteIds, Sync, RemoveTrigger, IdsFail, TriggerStays
<1>3. CASE KeysFail
  <2>1. PICK kept \in {FALSE, Root.keys} : WriteRoot([Root EXCEPT !.keys = kept])
    BY <1>3 DEF KeysFail
  <2>2. [Root EXCEPT !.keys = kept] \in Layers
    BY <2>1, RootTyped DEF Layers
  <2> QED
    BY <1>3, <2>1, <2>2, RootTyped DEF KeysFail
<1> QED
  BY <1>1, <1>2, <1>3 DEF FirstStep, FirstFails

LEMMA DownTyped ==
  ASSUME TypeOK, Down, layer' \in Layers, durable' \in Layers, bin' \in Bins
  PROVE  AllTypes' /\ pc' = "off" /\ first' \in FirstPcs
BY EmptyTyped DEF TypeOK, AllTypes, StoreTypeOK, OverlayTypeOK, Down, FirstPcs

LEMMA StepTyped == TypeOK /\ [Next]_vars => TypeOK'
<1> SUFFICES ASSUME TypeOK, [Next]_vars PROVE TypeOK'
  OBVIOUS
<1> USE SystemAssumption
<1>1. Fault => faults' \in 0 .. MaxFaults
  BY DEF Fault, TypeOK
<1>2. CASE BootStep(LoopNext) /\ UNCHANGED faults
  BY <1>2, LoopTyped DEF BootStep, TypeOK, AllTypes
<1>3. CASE BootStep(FormatFails) /\ Fault
  BY <1>3, <1>1, LoopTyped DEF BootStep, TypeOK, AllTypes
<1>4. CASE (OverlayStep \/ LeaveSecurePanic \/ LeaveOverlayPanic \/ Edit \/ WriteBack \/ Commit)
           /\ UNCHANGED <<first, failed, faults>>
  BY <1>4, OverlayTyped DEF OverlayNext, TypeOK, AllTypes
<1>5. CASE OverlayPanic /\ Fault /\ UNCHANGED <<first, failed>>
  BY <1>5, <1>1, OverlayTyped DEF OverlayNext, TypeOK, AllTypes
<1>6. CASE FirstStep \/ FirstFails
  BY <1>6, <1>1, FirstTyped DEF FirstStep, FirstFails, TypeOK, AllTypes
<1>7. CASE FirstReboot \/ Shutdown
  BY <1>7, <1>1, DownTyped DEF FirstReboot, Shutdown, Sync, TypeOK, AllTypes, StoreTypeOK
<1>8. CASE PowerFails
  BY <1>8, <1>1, DownTyped DEF PowerFails, AfterPowerFailure, Bins, TypeOK, AllTypes, StoreTypeOK
<1>9. CASE UNCHANGED vars
  BY <1>9 DEF vars, TypeOK, StoreTypeOK, OverlayTypeOK, store, overlayVars
<1> QED
  BY <1>2, <1>3, <1>4, <1>5, <1>6, <1>7, <1>8, <1>9 DEF Next

(* Every reachable state of a device is well typed. *)
THEOREM TypeCorrect == Spec => []TypeOK
BY InitTyped, StepTyped, PTL DEF Spec
==============================================================================
