------------------------------- MODULE InitRam -------------------------------
(***************************************************************************)
(* /init of the initramfs (init-aesys.sh) as far as the halves are          *)
(* concerned: staged updates are copied over the files they replace, the    *)
(* rootfs ones into /boot first and then whatever is left into /data/.sys,  *)
(* and the system is started.                                               *)
(***************************************************************************)
EXTENDS DualStore

VARIABLE init  \* the update loop: what is left to apply, what is being copied

initVars == <<init>>

Pending == {u \in Halves \X Names : staged[u[1]][u[2]] # NoFile}
RootfsNames == BootNames \cap SquashNames

Idle == [todo |-> {}, current |-> {}]

InitRamTypeOK ==
  init \in [todo : SUBSET (Halves \X Names), current : SUBSET (Halves \X Names)]

InitRamInit == init = Idle

(* Faulty: the rootfs has no treatment of its own. *)
Destination_DataOnly(n) == <<"data", n>>

(* The file an update is copied to, in the loop of the current phase. *)
Destination(n) == <<IF phase = "rootfs" THEN "boot" ELSE "data", n>>

(* The rootfs loop looks for its fixed list of updates. *)
EnterRootfsLoop ==
  /\ phase = "initram"
  /\ phase' = "rootfs"
  /\ init' = [Idle EXCEPT !.todo = {u \in Pending : u[2] \in RootfsNames}]
  /\ UNCHANGED <<disk, staged, ids, env, cmd>>

(* cp truncates the destination before it fills it. *)
UpdateBegin(u) ==
  /\ phase \in {"rootfs", "extra"}
  /\ u \in init.todo /\ init.current = {}
  /\ init' = [init EXCEPT !.todo = @ \ {u}, !.current = {u}]
  /\ disk' = [disk EXCEPT ![u[1]][Destination(u[2])] = Torn(u[1])]
  /\ UNCHANGED <<staged, ids, env, cmd, phase>>

(* Faulty: the update is applied and kept. *)
UpdateDone_Kept(u) ==
  /\ phase \in {"rootfs", "extra"}
  /\ u \in init.current
  /\ init' = [init EXCEPT !.current = {}]
  /\ disk' = [disk EXCEPT ![u[1]][Destination(u[2])] = staged[u[1]][u[2]]]
  /\ UNCHANGED <<staged, ids, env, cmd, phase>>

(* The copy is verified and the update removed. *)
UpdateDone(u) ==
  /\ phase \in {"rootfs", "extra"}
  /\ u \in init.current
  /\ init' = [init EXCEPT !.current = {}]
  /\ disk' = [disk EXCEPT ![u[1]][Destination(u[2])] = staged[u[1]][u[2]]]
  /\ staged' = [staged EXCEPT ![u[1]][u[2]] = NoFile]
  /\ UNCHANGED <<ids, env, cmd, phase>>

(* Faulty: the update is removed whatever the verification says. *)
UpdatePanic_Removes(u) ==
  /\ WriteErrors
  /\ phase \in {"rootfs", "extra"}
  /\ u \in init.current
  /\ init' = [init EXCEPT !.current = {}]
  /\ staged' = [staged EXCEPT ![u[1]][u[2]] = NoFile]
  /\ UNCHANGED <<disk, ids, env, cmd, phase>>

(* The verification fails: do_panic opens a console and, once it is left,   *)
(* the boot goes on with the update still there.                            *)
UpdatePanic(u) ==
  /\ WriteErrors
  /\ phase \in {"rootfs", "extra"}
  /\ u \in init.current
  /\ init' = [init EXCEPT !.current = {}]
  /\ UNCHANGED store

(* The extra loop takes every *.update that is still there. *)
EnterExtraLoop ==
  /\ phase = "rootfs" /\ init = Idle
  /\ phase' = "extra"
  /\ init' = [Idle EXCEPT !.todo = Pending]
  /\ UNCHANGED <<disk, staged, ids, env, cmd>>

UpdatesOver ==
  /\ phase = "extra" /\ init = Idle
  /\ phase' = "mount"
  /\ UNCHANGED <<disk, staged, ids, env, cmd, init>>

InitRamNext ==
  \/ EnterRootfsLoop \/ EnterExtraLoop \/ UpdatesOver
  \/ \E u \in Halves \X Names : UpdateBegin(u) \/ UpdateDone(u) \/ UpdatePanic(u)
==============================================================================
