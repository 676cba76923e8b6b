------------------------------ MODULE FirstInit ------------------------------
(***************************************************************************)
(* The first initialization: aesys-firstinit.sh, started by systemd while   *)
(* /data/.sys/firstinit.pending exists.  It writes the id files of both     *)
(* halves, removes its trigger, flags the boot as successful and reboots.   *)
(***************************************************************************)
EXTENDS DualStore

VARIABLES
  firstPending,  \* /data/.sys/firstinit.pending
  firstPc        \* where the service is

firstVars == <<firstPending, firstPc>>

FirstTypeOK ==
  /\ firstPending \in BOOLEAN
  /\ firstPc \in {"idle", "idA", "idB", "remove", "success", "reboot"}

FirstInitInit == firstPending = TRUE /\ firstPc = "idle"

(* The initramfs had to create persist.bin again: it forces the service.    *)
PersistCreated ==
  /\ phase = "initram"
  /\ firstPending' = TRUE
  /\ UNCHANGED <<store, firstPc>>

FirstStart ==
  /\ phase = "up" /\ firstPending /\ firstPc = "idle"
  /\ firstPc' = "idA"
  /\ UNCHANGED <<store, firstPending>>

(* dual-tool-id.sh -b -t half -s; the service does not look at the result.  *)
FirstId(h, pc, next) ==
  /\ firstPc = pc
  /\ WriteId(h) \/ (WriteErrors /\ UNCHANGED ids)
  /\ firstPc' = next
  /\ UNCHANGED <<disk, staged, env, cmd, phase, firstPending>>

FirstRemoveTrigger ==
  /\ firstPc = "remove"
  /\ firstPending' = FALSE /\ firstPc' = "success"
  /\ UNCHANGED store

(* fw_setenv db_last_half *)
FirstFlagSuccess ==
  /\ firstPc = "success"
  /\ env' = [env EXCEPT !.last = "unset"]
  /\ firstPc' = "reboot"
  /\ UNCHANGED <<disk, staged, ids, cmd, phase, firstPending>>

FirstNext ==
  \/ PersistCreated \/ FirstStart
  \/ FirstId("a", "idA", "idB") \/ FirstId("b", "idB", "remove")
  \/ FirstRemoveTrigger \/ FirstFlagSuccess
==============================================================================
