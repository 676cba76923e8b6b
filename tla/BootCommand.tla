------------------------------ MODULE BootCommand -----------------------------
(***************************************************************************)
(* The boot command of gemini_env.h (bootcmd, bsp_bootcmd and the scripts  *)
(* they run): which kernel is started, from where, with which device tree, *)
(* ramdisk and arguments.                                                  *)
(*                                                                         *)
(* A file of the MMC is <<base, partition, suffix>>: its suffix is the     *)
(* sequence of the halves appended to its name.  Scripts find a variable   *)
(* in the environment first and among the shell's own variables then; a    *)
(* PXE label finds it in the environment only.                             *)
(***************************************************************************)
EXTENDS BootEnv

CONSTANTS
  Situations,  \* the boards and media to look at
  MaxBoots,    \* bound: boots
  MaxRetries,  \* bound: boot commands given again at the prompt
  MaxFaults    \* bound: reads that fail of a file that is there, kernels that return

ASSUME BoundsAssumption ==
  MaxBoots \in Nat \ {0} /\ MaxRetries \in Nat /\ MaxFaults \in Nat
ASSUME SituationsAssumption ==
  \A s \in Situations :
    /\ s.board \in Boards /\ s.force \in BOOLEAN
    /\ s.layout \in {"single", "files", "partitions"}

Halves == {"a", "b"}
Unset == "unset"
Methods == {"static", "mixed"}

VARIABLES
  at,       \* the board, its id and its media; never changes
  ids,      \* the contents of .sys/a.id and .sys/b.id
  saved,    \* the environment in the MMC
  env,      \* the environment in memory
  shell,    \* gemini_fdt_file and gemini_fit_conf, the shell's own variables
  dual,     \* the dual-boot scheme mmcargs found: dbv_dual and its companions
  mem,      \* what was loaded, by address
  kernel,   \* what was started
  pc, boots, retries, faults

vars == <<at, ids, saved, env, shell, dual, mem, kernel, pc, boots, retries, faults>>

Addresses ==
  {Addr(at.board, n) : n \in {"loadaddr", "fdt_addr_r", "initrd_addr", "fitaddr",
                              "kernel_addr_r", "ramdisk_addr_r"}}
Empty == <<"nothing", 0, <<>>>>
NoArgs == [half |-> Unset, mode |-> Unset, force |-> FALSE]
NoBootargs == [db |-> NoArgs, root |-> 0, secure |-> FALSE]
NoKernel == [source |-> "none"]
NoShell == [fdt |-> Unset, fdtSuffix |-> <<>>, conf |-> Unset]

(* The environment nobody has changed. *)
FreshEnv ==
  [active |-> Unset, last |-> Unset, attempt |-> FALSE, force |-> at.force,
   forcedId |-> at.forcedId, off |-> at.pxeOff, suffix |-> <<>>, mmcpart |-> 1,
   dbargs |-> NoArgs, bootargs |-> NoBootargs, conf |-> Unset,
   loadaddr |-> Addr(at.board, "loadaddr")]

(* Is the file on the MMC?  A dual device has each file once per half.       *)
Exists(base, part, suffix) ==
  /\ base \notin at.missing
  /\ CASE at.layout = "single"     -> part = 1 /\ suffix = <<>>
       [] at.layout = "files"      -> part = 1 /\ suffix \in {<<h>> : h \in Halves}
       [] at.layout = "partitions" -> part \in {1, 2} /\ suffix = <<>>

Fault == faults < MaxFaults /\ faults' = faults + 1

Init ==
  /\ at \in Situations
  /\ ids \in [Halves -> {1, 2}]
  /\ env = FreshEnv /\ saved = env
  /\ shell = NoShell /\ dual = "none"
  /\ mem = [a \in Addresses |-> Empty] /\ kernel = NoKernel
  /\ pc = "detect" /\ boots = 1 /\ retries = 0 /\ faults = 0

(* All the scripts of the boot command are the ones modelled here. *)
GeminiScripts ==
  \A s \in {"bootcmd", "bsp_bootcmd", "mmcargs", "loadimage", "loadfdt", "mmcboot"} :
    Script(at.board, s) = "gemini"

------------------------------------------------------------------------------
(* gemini_hw_detect, after bootcmd and bsp_bootcmd started: the device tree  *)
(* and the configuration of the FIT image.                                   *)
GeminiHwDetect ==
  /\ pc = "detect"
  /\ pc' = IF GeminiScripts THEN "pxeboot" ELSE "evk"
  /\ LET name == IF env.forcedId # Unset THEN env.forcedId ELSE at.boardid IN
     shell' = [fdt |-> IF name = Unset THEN "fdtfile" ELSE name, fdtSuffix |-> <<>>,
               conf |-> IF name = Unset THEN "conf-default" ELSE name]
  /\ UNCHANGED <<at, ids, saved, env, dual, mem, kernel, boots, retries, faults>>

------------------------------------------------------------------------------
(* pxeboot: the network goes first unless it is disabled.                    *)

PxeOff(what) == what \in env.off \cup at.marks

(* The tests find it enabled: it is not disabled, or a mark is there and     *)
(* test -e cannot read it.                                                   *)
FoundEnabled(what) ==
  /\ what \notin env.off
  /\ IF what \in at.marks THEN Fault ELSE UNCHANGED faults

(* Faulty: the marks of the file system are not looked at. *)
PxeBoot_EnvOnly ==
  /\ pc = "pxeboot"
  /\ IF "pxe" \in env.off THEN pc' = "mmcargs" /\ UNCHANGED env
     ELSE pc' = "static" /\ env' = [env EXCEPT !.conf = shell.conf]
  /\ UNCHANGED <<at, ids, saved, shell, dual, mem, kernel, boots, retries, faults>>

(* Faulty: gemini_fit_conf stays a variable of the shell. *)
PxeBoot_NoExport ==
  /\ pc = "pxeboot"
  /\ \/ PxeOff("pxe") /\ pc' = "mmcargs" /\ UNCHANGED faults
     \/ FoundEnabled("pxe") /\ pc' = "static"
  /\ UNCHANGED <<at, ids, saved, env, shell, dual, mem, kernel, boots, retries>>

PxeBoot ==
  /\ pc = "pxeboot"
  /\ \/ PxeOff("pxe") /\ pc' = "mmcargs" /\ UNCHANGED <<env, faults>>
     \/ FoundEnabled("pxe") /\ pc' = "static" /\ env' = [env EXCEPT !.conf = shell.conf]
  /\ UNCHANGED <<at, ids, saved, shell, dual, mem, kernel, boots, retries>>

PxeNext(method) ==
  CASE method = "static" -> "mixed" [] method = "mixed" -> "dhcp"
    [] method = "dhcp" -> "mmcargs" [] method = "nocheck" -> "prompt"

(* The kernel of a PXE label, whose configuration is resolved in the         *)
(* environment; a label without arguments leaves bootargs as they are.       *)
PxeKernel(own) ==
  [source |-> "pxe", method |-> pc, conf |-> env.conf,
   args |-> IF own THEN NoBootargs ELSE env.bootargs]

PxeLoads ==
  [a \in Addresses |->
     IF a \in {Addr(at.board, n) : n \in {"kernel_addr_r", "ramdisk_addr_r", "fdt_addr_r"}}
     THEN <<"net", 0, <<>>>> ELSE mem[a]]

(* pxe get and pxe boot, once: no lease or no server, a label that does not  *)
(* boot, or a kernel.  After the last attempt of pxeboot gemini_fit_conf is  *)
(* taken out of the environment.                                             *)
PxeAttempt ==
  /\ pc \in {"static", "mixed", "dhcp", "nocheck"}
  /\ \/ /\ pc' = PxeNext(pc)
        /\ env' = IF pc = "dhcp" THEN [env EXCEPT !.conf = Unset] ELSE env
        /\ UNCHANGED <<mem, kernel, faults>>
     \/ /\ FoundEnabled(pc)
        /\ mem' = PxeLoads
        /\ \/ /\ pc' = PxeNext(pc)
              /\ env' = IF pc = "dhcp" THEN [env EXCEPT !.conf = Unset] ELSE env
              /\ UNCHANGED kernel
           \/ /\ pc' = "kernel" /\ UNCHANGED env
              /\ \E own \in BOOLEAN : kernel' = PxeKernel(own)
  /\ UNCHANGED <<at, ids, saved, shell, dual, boots, retries>>

------------------------------------------------------------------------------
(* mmcargs: the dual-boot decision, as UBootEnv has it, then the names, the  *)
(* partition and the arguments that follow from it.                          *)

U == INSTANCE UBootEnv WITH
  BootNames <- {}, DataNames <- {}, SquashNames <- {}, Versions <- {},
  TornA <- 1, TornB <- 2, NoFile <- 0, NoId <- 0, Partitions <- TRUE,
  WriteErrors <- FALSE, SkipVerification <- FALSE,
  disk <- <<>>, staged <- <<>>, ids <- ids,
  env <- [attempt |-> env.attempt, active |-> env.active, last |-> env.last,
          force |-> env.force],
  cmd <- [half |-> env.dbargs.half, force |-> env.dbargs.force],
  phase <- IF pc = "mmcargs" THEN "off" ELSE "initram"

(* The scheme the media has. *)
DualScheme ==
  IF at.layout = "partitions" THEN "partitions"
  ELSE IF at.layout = "files" /\ (Exists("fit", 1, <<"a">>) \/ Exists("Image", 1, <<"a">>))
  THEN "files" ELSE "none"

(* Faulty: a switch goes before db_force_single. *)
SelectHalf_NoForce(swap) == IF swap THEN U!Other(U!ActiveHalf) ELSE U!ActiveHalf

SelectHalf(swap) ==
  IF env.force THEN "a" ELSE IF swap THEN U!Other(U!ActiveHalf) ELSE U!ActiveHalf

(* Faulty: db_last_half is not recorded. *)
Decided_ActiveOnly(scheme, half) ==
  IF scheme = "none" THEN env ELSE [env EXCEPT !.active = half]

(* The environment that is saved, and the one after the rest of mmcargs. *)
Decided(scheme, half) ==
  IF scheme = "none" THEN env ELSE [env EXCEPT !.active = half, !.last = half]

(* Faulty: half b of a partitioned device keeps the partition of half a. *)
WithArgs_NoPart(e, scheme, half) ==
  IF scheme = "none" THEN e
  ELSE [e EXCEPT !.mmcpart = 1,
                 !.suffix = IF scheme = "files" THEN Append(@, half) ELSE @,
                 !.dbargs = [half |-> half, mode |-> scheme, force |-> e.force]]

WithArgs(e, scheme, half) ==
  IF scheme = "none" THEN e
  ELSE [e EXCEPT !.mmcpart = IF scheme = "partitions" /\ half = "b" THEN 2 ELSE 1,
                 !.suffix = IF scheme = "files" THEN Append(@, half) ELSE @,
                 !.dbargs = [half |-> half, mode |-> scheme, force |-> e.force]]

WithBootargs(e) ==
  [e EXCEPT !.bootargs = [db |-> e.dbargs, root |-> e.mmcpart, secure |-> FALSE]]

(* Faulty: saveenv at the end. *)
Mmcargs_SaveLast ==
  /\ pc = "mmcargs" /\ pc' = "loadfit"
  /\ LET half == SelectHalf(U!DbSwapRequested) IN
     /\ env' = WithBootargs(WithArgs(Decided(DualScheme, half), DualScheme, half))
     /\ saved' = env' /\ dual' = DualScheme
     /\ shell' = IF DualScheme = "files"
                 THEN [shell EXCEPT !.fdtSuffix = Append(@, half)] ELSE shell
  /\ UNCHANGED <<at, ids, mem, kernel, boots, retries, faults>>

(* A read that fails hides the scheme, or the ids; a saveenv that fails is   *)
(* not noticed.                                                              *)
Mmcargs ==
  /\ pc = "mmcargs" /\ pc' = "loadfit"
  /\ \E scheme \in {DualScheme, "none"}, swap \in {U!DbSwapRequested, env.attempt},
        save \in BOOLEAN :
       LET half == SelectHalf(swap) IN
       /\ IF scheme = DualScheme /\ swap = U!DbSwapRequested /\ save
          THEN UNCHANGED faults ELSE Fault
       /\ dual' = scheme
       /\ saved' = IF scheme # "none" /\ save THEN Decided(scheme, half) ELSE saved
       /\ env' = WithBootargs(WithArgs(Decided(scheme, half), scheme, half))
       /\ shell' = IF scheme = "files"
                   THEN [shell EXCEPT !.fdtSuffix = Append(@, half)] ELSE shell
  /\ UNCHANGED <<at, ids, mem, kernel, boots, retries>>

------------------------------------------------------------------------------
(* The local kernel *)

(* An ext4load that succeeds, and one that does not. *)
Loads(base, suffix, addr) ==
  /\ Exists(base, env.mmcpart, suffix)
  /\ mem' = [mem EXCEPT ![addr] = <<base, env.mmcpart, suffix>>]
  /\ UNCHANGED faults
Misses(base, suffix) ==
  /\ IF Exists(base, env.mmcpart, suffix) THEN Fault ELSE UNCHANGED faults
  /\ UNCHANGED mem

(* Faulty: secure-boot before it is known that there is a FIT image. *)
LoadFit_SecureFirst ==
  /\ pc = "loadfit"
  /\ env' = [env EXCEPT !.bootargs.secure = TRUE]
  /\ \/ Loads("fit", env.suffix, Addr(at.board, "fitaddr")) /\ pc' = "fitboot"
     \/ Misses("fit", env.suffix) /\ pc' = "loadimage"
  /\ UNCHANGED <<at, ids, saved, shell, dual, kernel, boots, retries>>

LoadFit ==
  /\ pc = "loadfit"
  /\ \/ /\ Loads("fit", env.suffix, Addr(at.board, "fitaddr"))
        /\ env' = [env EXCEPT !.bootargs.secure = TRUE] /\ pc' = "fitboot"
     \/ Misses("fit", env.suffix) /\ pc' = "loadimage" /\ UNCHANGED env
  /\ UNCHANGED <<at, ids, saved, shell, dual, kernel, boots, retries>>

(* loadaddr becomes fitaddr, then bootm of the configuration, which returns  *)
(* when the image has no such one or does not verify.                        *)
FitConf == IF env.conf # Unset THEN env.conf ELSE shell.conf

FitBoot ==
  /\ pc = "fitboot"
  /\ env' = [env EXCEPT !.loadaddr = Addr(at.board, "fitaddr")]
  /\ \/ /\ FitConf \in at.trees /\ pc' = "kernel" /\ UNCHANGED faults
        /\ kernel' = [source |-> "fit", image |-> mem[Addr(at.board, "fitaddr")],
                      conf |-> FitConf, args |-> env.bootargs]
     \/ /\ IF FitConf \in at.trees THEN Fault ELSE UNCHANGED faults
        /\ pc' = "prompt" /\ UNCHANGED kernel
  /\ UNCHANGED <<at, ids, saved, shell, dual, mem, boots, retries>>

LoadImage ==
  /\ pc = "loadimage"
  /\ \/ Loads("Image", env.suffix, env.loadaddr) /\ pc' = "loadfdt"
     \/ Misses("Image", env.suffix) /\ pc' = "nocheck"
  /\ UNCHANGED <<at, ids, saved, env, shell, dual, kernel, boots, retries>>

LoadFdt ==
  /\ pc = "loadfdt"
  /\ \/ /\ shell.fdt \in at.trees /\ Loads("fdt", shell.fdtSuffix, Addr(at.board, "fdt_addr_r"))
        /\ pc' = "loadinitrd"
     \/ /\ IF shell.fdt \in at.trees THEN Misses("fdt", shell.fdtSuffix)
           ELSE UNCHANGED <<faults, mem>>
        /\ pc' = "prompt"
  /\ UNCHANGED <<at, ids, saved, env, shell, dual, kernel, boots, retries>>

(* Faulty: there must be a ramdisk. *)
LoadInitrd_Required ==
  /\ pc = "loadinitrd"
  /\ \/ Loads("initrd", env.suffix, Addr(at.board, "initrd_addr")) /\ pc' = "booti"
     \/ Misses("initrd", env.suffix) /\ pc' = "prompt"
  /\ UNCHANGED <<at, ids, saved, env, shell, dual, kernel, boots, retries>>

LoadInitrd ==
  /\ pc = "loadinitrd"
  /\ \/ Loads("initrd", env.suffix, Addr(at.board, "initrd_addr")) /\ pc' = "booti"
     \/ Misses("initrd", env.suffix) /\ pc' = "booti_bare"
  /\ UNCHANGED <<at, ids, saved, env, shell, dual, kernel, boots, retries>>

(* booti returns, and the prompt comes, when what it was given is no kernel. *)
Booti ==
  /\ pc \in {"booti", "booti_bare"}
  /\ \/ /\ pc' = "kernel" /\ UNCHANGED faults
        /\ kernel' =
             [source |-> "image", image |-> mem[env.loadaddr],
              fdt |-> mem[Addr(at.board, "fdt_addr_r")],
              initrd |-> IF pc = "booti" THEN mem[Addr(at.board, "initrd_addr")] ELSE Empty,
              args |-> env.bootargs]
     \/ pc' = "prompt" /\ Fault /\ UNCHANGED kernel
  /\ UNCHANGED <<at, ids, saved, env, shell, dual, mem, boots, retries>>

------------------------------------------------------------------------------
(* The boot command again, at the prompt: the environment in memory and the  *)
(* shell's variables are the ones the first run left.                        *)
Retry ==
  /\ pc = "prompt" /\ retries < MaxRetries
  /\ pc' = "detect" /\ retries' = retries + 1
  /\ UNCHANGED <<at, ids, saved, env, shell, dual, mem, kernel, boots, faults>>

(* What the system that was booted does: it flags its boot as a success, it  *)
(* asks for the other half, it computes ids.                                 *)
SystemWrites ==
  /\ \E last \in {Unset, saved.last}, attempt \in BOOLEAN :
       saved' = [saved EXCEPT !.last = last, !.attempt = attempt]
  /\ ids' \in [Halves -> {1, 2}]

(* A reboot, or a power cut at any time. *)
Reset ==
  /\ boots < MaxBoots /\ boots' = boots + 1
  /\ \/ pc = "kernel" /\ SystemWrites
     \/ UNCHANGED <<saved, ids>>
  /\ env' = saved' /\ shell' = NoShell /\ dual' = "none"
  /\ mem' = [a \in Addresses |-> Empty] /\ kernel' = NoKernel
  /\ pc' = "detect"
  /\ UNCHANGED <<at, retries, faults>>

Program ==
  \/ GeminiHwDetect \/ PxeBoot \/ PxeAttempt \/ Mmcargs
  \/ LoadFit \/ FitBoot \/ LoadImage \/ LoadFdt \/ LoadInitrd \/ Booti

Next == Program \/ Retry \/ Reset

Spec == Init /\ [][Next]_vars
==============================================================================
