------------------------------- MODULE BootProofs -----------------------------
(***************************************************************************)
(* What holds of the boot command on every board, with every medium and    *)
(* every setting, for any number of boots, failing reads and commands      *)
(* given again at the prompt.  One inductive invariant says, stage by      *)
(* stage, what the environment holds.                                      *)
(***************************************************************************)
EXTENDS BootProps, SequenceTheorems, TLAPS

Net == {"static", "mixed", "dhcp"}
Before == {"detect", "pxeboot", "mmcargs"} \cup Net
Plain == {"loadfit", "loadimage", "loadfdt", "loadinitrd", "booti", "booti_bare", "nocheck"}

(* The configuration of the board. *)
Expected ==
  IF at.forcedId # Unset THEN at.forcedId
  ELSE IF at.boardid # Unset THEN at.boardid ELSE "conf-default"

DbArgs == [half : Halves \cup {Unset}, mode : {"files", "partitions", Unset},
           force : {FALSE, at.force}]
BootArgs == [db : DbArgs, root : {0, 1, 2}, secure : BOOLEAN]
EnvType ==
  [active : Halves \cup {Unset}, last : Halves \cup {Unset}, attempt : BOOLEAN,
   force : {at.force}, forcedId : {at.forcedId}, off : {at.pxeOff}, suffix : Seq(Halves),
   mmcpart : {1, 2}, dbargs : DbArgs, bootargs : BootArgs, conf : {Unset, Expected},
   loadaddr : {Addr(at.board, "loadaddr"), Addr(at.board, "fitaddr")}]
ShellType ==
  [fdt : {Unset, "fdtfile", at.forcedId, at.boardid}, fdtSuffix : Seq(Halves),
   conf : {Unset, Expected}]

(* Nothing in it is meant for one boot only. *)
Clean(e, b) ==
  /\ e.suffix = <<>> /\ e.mmcpart = 1 /\ e.dbargs = NoArgs /\ e.bootargs = NoBootargs
  /\ e.loadaddr = Addr(b, "loadaddr")

Types ==
  /\ env \in EnvType /\ saved \in EnvType /\ shell \in ShellType
  /\ retries \in Nat /\ faults \in Nat

(* The environment is changed for a boot after it was saved. *)
EnvInv ==
  /\ saved.conf = Unset
  /\ retries = 0 => Clean(saved, at.board)
  /\ retries = 0 /\ pc \in Before => Clean(env, at.board)

(* What is tried is not disabled, as far as its mark could be read. *)
Enabled(what) == what \notin env.off /\ (faults = 0 => what \notin at.marks)

(* gemini_fit_conf is in the environment while pxeboot tries. *)
ConfInv ==
  /\ pc \in Net => env.conf = Expected /\ Enabled("pxe")
  /\ pc \notin Net \cup {"kernel"} => env.conf = Unset
  /\ pc # "detect" => shell.conf = Expected

SecureInv ==
  /\ pc = "fitboot" => env.bootargs.secure
  /\ pc \in Plain => ~env.bootargs.secure

NoLocal == ~Exists("fit", env.mmcpart, env.suffix)
NoImage == ~Exists("Image", env.mmcpart, env.suffix)

MediaInv ==
  /\ pc \in {"loadimage", "nocheck"} /\ faults = 0 => NoLocal
  /\ pc = "nocheck" /\ faults = 0 => NoImage

KernelInv ==
  IF pc # "kernel" THEN kernel.source = "none"
  ELSE /\ kernel.source \in {"pxe", "fit", "image"}
       /\ kernel.source = "fit" => kernel.args.secure /\ kernel.conf = Expected
       /\ kernel.source = "image" => ~kernel.args.secure
       /\ kernel.source = "pxe" =>
            /\ kernel.args.secure => retries > 0
            /\ kernel.method \in Net =>
                 kernel.conf = Expected /\ Enabled("pxe") /\ Enabled(kernel.method)
            /\ kernel.method \notin Net =>
                 /\ kernel.method = "nocheck" /\ kernel.conf = Unset
                 /\ faults = 0 => NoLocal /\ NoImage

BootInv == Types /\ EnvInv /\ ConfInv /\ SecureInv /\ MediaInv /\ KernelInv

------------------------------------------------------------------------------
(* Nobody changes the board or its media. *)
LEMMA SameSituation == ASSUME [Next]_vars PROVE at' = at
<1>1. CASE Program
  BY <1>1 DEF Program, GeminiHwDetect, PxeBoot, PxeAttempt, Mmcargs, LoadFit, FitBoot,
     LoadImage, LoadFdt, LoadInitrd, Booti
<1>2. CASE Retry \/ Reset \/ UNCHANGED vars
  BY <1>2 DEF Retry, Reset, vars
<1> QED
  BY <1>1, <1>2 DEF Next

(* A test that finds PXE enabled has counted the mark it could not read. *)
LEMMA EnabledWhenFound ==
  ASSUME faults \in Nat, NEW what, FoundEnabled(what)
  PROVE  /\ faults' \in Nat /\ (faults' = 0 => faults = 0)
         /\ what \notin env.off /\ (faults' = 0 => what \notin at.marks)
BY DEF FoundEnabled, Fault

(* The half mmcargs selects is one. *)
LEMMA SelectsHalf == ASSUME NEW swap PROVE SelectHalf(swap) \in Halves
  BY DEF SelectHalf, Halves, U!Other, U!ActiveHalf

LEMMA EmptySuffix == <<>> \in Seq(Halves)
  OBVIOUS

LEMMA CleanTypes == NoArgs \in DbArgs /\ NoBootargs \in BootArgs
<1>1. NoArgs \in DbArgs
  BY DEF NoArgs, DbArgs
<1> QED
  BY <1>1 DEF NoBootargs, BootArgs

(* What mmcargs does to the environment. *)
LEMMA MmcargsEnv ==
  ASSUME Types, NEW scheme \in {"none", "files", "partitions"}, NEW half \in Halves
  PROVE  LET d == Decided(scheme, half) IN
         LET w == WithBootargs(WithArgs(d, scheme, half)) IN
         /\ d \in EnvType /\ d.conf = env.conf
         /\ Clean(env, at.board) => Clean(d, at.board)
         /\ w \in EnvType /\ w.conf = env.conf /\ ~w.bootargs.secure
<1> DEFINE d == Decided(scheme, half)
           a == WithArgs(d, scheme, half)
           w == WithBootargs(a)
<1>1. d \in EnvType /\ d.conf = env.conf /\ (Clean(env, at.board) => Clean(d, at.board))
  BY DEF Types, EnvType, Decided, Clean
<1> HIDE DEF d
<1>2. a \in EnvType /\ a.conf = d.conf
  <2>1. CASE scheme = "none"
    BY <1>1, <2>1 DEF WithArgs
  <2>2. CASE scheme # "none"
    <3> DEFINE part == IF scheme = "partitions" /\ half = "b" THEN 2 ELSE 1
               suffix == IF scheme = "files" THEN Append(d.suffix, half) ELSE d.suffix
               args == [half |-> half, mode |-> scheme, force |-> d.force]
    <3>1. a = [d EXCEPT !.mmcpart = part, !.suffix = suffix, !.dbargs = args]
      BY <2>2 DEF WithArgs
    <3>2. part \in {1, 2}
      OBVIOUS
    <3>3. d.suffix \in Seq(Halves) /\ d.force = at.force
      BY <1>1 DEF EnvType
    <3>4. suffix \in Seq(Halves)
      BY <3>3
    <3>5. args \in DbArgs
      BY <2>2, <3>3 DEF DbArgs
    <3> HIDE DEF part, suffix, args, a
    <3> QED
      BY <1>1, <3>1, <3>2, <3>4, <3>5 DEF EnvType
  <2> QED
    BY <2>1, <2>2
<1> HIDE DEF a
<1>3. w \in EnvType /\ w.conf = a.conf /\ ~w.bootargs.secure
  <2> DEFINE b == [db |-> a.dbargs, root |-> a.mmcpart, secure |-> FALSE]
  <2>1. w = [a EXCEPT !.bootargs = b]
    BY DEF WithBootargs
  <2>2. b \in BootArgs /\ ~b.secure
    BY <1>2 DEF EnvType, BootArgs
  <2> HIDE DEF b, w
  <2> QED
    BY <1>2, <2>1, <2>2 DEF EnvType
<1> QED
  BY <1>1, <1>2, <1>3 DEF d, a

(* The configuration's variable, alone. *)
LEMMA ConfEnv ==
  ASSUME Types, NEW conf \in {Unset, Expected}
  PROVE  LET e == [env EXCEPT !.conf = conf] IN
         /\ e \in EnvType /\ e.conf = conf /\ (Clean(env, at.board) => Clean(e, at.board))
         /\ e.mmcpart = env.mmcpart /\ e.suffix = env.suffix
  BY DEF Types, EnvType, Clean

(* The address of the next load, alone. *)
LEMMA AddrEnv ==
  ASSUME Types
  PROVE  LET e == [env EXCEPT !.loadaddr = Addr(at.board, "fitaddr")] IN
         e \in EnvType /\ e.conf = env.conf /\ e.bootargs = env.bootargs
  BY DEF Types, EnvType

LEMMA SecureEnv ==
  ASSUME Types
  PROVE  LET e == [env EXCEPT !.bootargs.secure = TRUE] IN
         e \in EnvType /\ e.conf = env.conf /\ e.bootargs.secure
<1> DEFINE b == [env.bootargs EXCEPT !.secure = TRUE]
           e == [env EXCEPT !.bootargs = b]
<1>1. [env EXCEPT !.bootargs.secure = TRUE] = e
  BY DEF Types, EnvType
<1>2. b \in BootArgs /\ b.secure
  BY DEF Types, EnvType, BootArgs
<1> HIDE DEF b
<1>3. e \in EnvType /\ e.conf = env.conf /\ e.bootargs = b
  BY <1>2 DEF Types, EnvType
<1> HIDE DEF e
<1> QED
  BY <1>1, <1>2, <1>3

(* A load or a miss: nothing but the memory and the faults. *)
LEMMA LoadsMisses ==
  ASSUME Types, NEW base, NEW suffix,
         Misses(base, suffix) \/ \E addr : Loads(base, suffix, addr)
  PROVE  /\ faults' \in Nat /\ (faults' = 0 => faults = 0)
         /\ faults' = 0 /\ Misses(base, suffix) => ~Exists(base, env.mmcpart, suffix)
  BY DEF Types, Misses, Loads, Fault

LEMMA BootStep == ASSUME BootInv, [Next]_vars PROVE BootInv'
<1>0. /\ at' = at /\ Expected' = Expected /\ EnvType' = EnvType /\ ShellType' = ShellType
      /\ Types
  BY SameSituation DEF Expected, EnvType, ShellType, DbArgs, BootArgs, BootInv
<1>1. CASE GeminiHwDetect
  <2>1. shell'.conf = Expected /\ shell' \in ShellType
    <3> DEFINE name == IF env.forcedId # Unset THEN env.forcedId ELSE at.boardid
    <3>1. shell' = [fdt |-> IF name = Unset THEN "fdtfile" ELSE name, fdtSuffix |-> <<>>,
                    conf |-> IF name = Unset THEN "conf-default" ELSE name]
      BY <1>1 DEF GeminiHwDetect
    <3>2. name \in {at.forcedId, at.boardid}
          /\ (IF name = Unset THEN "conf-default" ELSE name) = Expected
      BY <1>0 DEF Types, EnvType, Expected
    <3> HIDE DEF name
    <3> QED
      BY <3>1, <3>2, EmptySuffix DEF ShellType
  <2>2. pc = "detect" /\ pc' \in {"pxeboot", "evk"} /\ UNCHANGED <<saved, env, kernel, retries, faults>>
    BY <1>1 DEF GeminiHwDetect
  <2> QED
    BY <1>0, <2>1, <2>2 DEF BootInv, Types, EnvInv, ConfInv, SecureInv, MediaInv, KernelInv,
       Net, Before, Plain, Clean
<1>2. CASE PxeBoot
  <2>1. /\ pc = "pxeboot" /\ UNCHANGED <<saved, shell, kernel, retries>>
        /\ \/ pc' = "mmcargs" /\ UNCHANGED <<env, faults>>
           \/ FoundEnabled("pxe") /\ pc' = "static" /\ env' = [env EXCEPT !.conf = Expected]
    BY <1>2 DEF PxeBoot, BootInv, ConfInv
  <2>2. CASE UNCHANGED <<env, faults>> /\ pc' = "mmcargs"
    BY <1>0, <2>1, <2>2 DEF BootInv, Types, EnvInv, ConfInv, SecureInv, MediaInv, KernelInv,
       Net, Before, Plain, Clean
  <2>3. CASE FoundEnabled("pxe") /\ pc' = "static" /\ env' = [env EXCEPT !.conf = Expected]
    <3>1. env' \in EnvType /\ env'.conf = Expected /\ (Clean(env, at.board) => Clean(env', at.board))
      BY <1>0, <2>3, ConfEnv
    <3>2. Enabled("pxe")' /\ faults' \in Nat
      BY <1>0, <2>3, <3>1, EnabledWhenFound DEF Enabled, Types, EnvType
    <3> QED
      BY <1>0, <2>1, <2>3, <3>1, <3>2 DEF BootInv, Types, EnvInv, ConfInv, SecureInv, MediaInv,
         KernelInv, Net, Before, Plain
  <2> QED
    BY <2>1, <2>2, <2>3
<1>3. CASE PxeAttempt
  <2>0. \/ pc' = PxeNext(pc) /\ UNCHANGED faults
        \/ FoundEnabled(pc)
    BY <1>3 DEF PxeAttempt
  <2>1. /\ pc \in Net \cup {"nocheck"} /\ UNCHANGED <<saved, shell, retries>>
        /\ faults' \in Nat /\ (faults' = 0 => faults = 0)
    BY <1>0, <1>3, <2>0, EnabledWhenFound DEF PxeAttempt, Net, Types
  <2>2. CASE /\ pc' = PxeNext(pc) /\ UNCHANGED kernel
             /\ env' = IF pc = "dhcp" THEN [env EXCEPT !.conf = Unset] ELSE env
    <3>1. CASE pc = "dhcp"
      <4>1. env' \in EnvType /\ env'.conf = Unset /\ (Clean(env, at.board) => Clean(env', at.board))
        BY <1>0, <2>2, <3>1, ConfEnv
      <4>2. pc' = "mmcargs"
        BY <2>2, <3>1 DEF PxeNext
      <4> QED
        BY <1>0, <2>1, <2>2, <3>1, <4>1, <4>2 DEF BootInv, Types, EnvInv, ConfInv, SecureInv,
           MediaInv, KernelInv, Net, Before, Plain
    <3>2. CASE pc \in {"static", "mixed"}
      <4>1. env' = env /\ pc' \in Net
        BY <2>2, <3>2 DEF PxeNext, Net
      <4> QED
        BY <1>0, <2>1, <2>2, <3>2, <4>1 DEF BootInv, Types, EnvInv, ConfInv, SecureInv,
           MediaInv, KernelInv, Net, Before, Plain, Clean, Enabled
    <3>3. CASE pc = "nocheck"
      <4>1. env' = env /\ pc' = "prompt"
        BY <2>2, <3>3 DEF PxeNext
      <4> QED
        BY <1>0, <2>1, <2>2, <3>3, <4>1 DEF BootInv, Types, EnvInv, ConfInv, SecureInv,
           MediaInv, KernelInv, Net, Before, Plain, Clean
    <3> QED
      BY <2>1, <3>1, <3>2, <3>3 DEF Net
  <2>3. CASE /\ FoundEnabled(pc) /\ pc' = "kernel" /\ UNCHANGED env
             /\ \E own \in BOOLEAN : kernel' = PxeKernel(own)
    <3>1. PICK own \in BOOLEAN : kernel' = PxeKernel(own)
      BY <2>3
    <3>2. /\ kernel'.source = "pxe" /\ kernel'.method = pc /\ kernel'.conf = env.conf
          /\ kernel'.args = IF own THEN NoBootargs ELSE env.bootargs
      BY <3>1 DEF PxeKernel
    <3>3. kernel'.args.secure => retries > 0
      <4>1. CASE own
        BY <3>2, <4>1 DEF NoBootargs
      <4>2. CASE ~own /\ pc = "nocheck"
        BY <3>2, <4>2 DEF BootInv, SecureInv, Plain
      <4>3. CASE ~own /\ pc \in Net
        BY <1>0, <3>2, <4>3 DEF BootInv, EnvInv, Before, Clean, NoBootargs, Types
      <4> QED
        BY <2>1, <4>1, <4>2, <4>3
    <3>4. pc \in Net => /\ kernel'.conf = Expected /\ Enabled("pxe")'
                       /\ pc \notin env.off /\ (faults' = 0 => pc \notin at.marks)
      <4>1. pc \notin env.off /\ (faults' = 0 => pc \notin at.marks)
        BY <1>0, <2>3, EnabledWhenFound DEF Types
      <4> QED
        BY <1>0, <2>1, <2>3, <3>2, <4>1 DEF BootInv, ConfInv, Enabled
    <3>5. pc \notin Net => pc = "nocheck" /\ kernel'.conf = Unset /\ (faults = 0 => NoLocal /\ NoImage)
      BY <2>1, <3>2 DEF BootInv, ConfInv, MediaInv, Net
    <3>6. UNCHANGED <<NoLocal, NoImage, Expected>>
      BY <1>0, <2>3 DEF NoLocal, NoImage, Exists, Expected
    <3>7. KernelInv'
      BY <1>0, <2>1, <2>3, <3>2, <3>3, <3>4, <3>5, <3>6 DEF KernelInv, Enabled
    <3> QED
      BY <1>0, <2>1, <2>3, <3>7 DEF BootInv, Types, EnvInv, ConfInv, SecureInv, MediaInv,
         Net, Before, Plain, Clean
  <2> QED
    BY <1>3, <2>2, <2>3 DEF PxeAttempt
<1>4. CASE Mmcargs
  <2>1. PICK scheme \in {DualScheme, "none"}, swap \in {U!DbSwapRequested, env.attempt},
             save \in BOOLEAN :
          LET half == SelectHalf(swap) IN
          /\ IF scheme = DualScheme /\ swap = U!DbSwapRequested /\ save
             THEN UNCHANGED faults ELSE Fault
          /\ saved' = IF scheme # "none" /\ save THEN Decided(scheme, half) ELSE saved
          /\ env' = WithBootargs(WithArgs(Decided(scheme, half), scheme, half))
          /\ shell' = IF scheme = "files"
                      THEN [shell EXCEPT !.fdtSuffix = Append(@, half)] ELSE shell
    BY <1>4 DEF Mmcargs
  <2> DEFINE half == SelectHalf(swap)
  <2>2. scheme \in {"none", "files", "partitions"} /\ half \in Halves
    BY SelectsHalf DEF DualScheme
  <2> HIDE DEF half
  <2>3. faults' \in Nat
    BY <1>0, <2>1 DEF Types, Fault
  <2>4. shell' \in ShellType /\ shell'.conf = shell.conf
    <3>1. CASE scheme = "files"
      <4> DEFINE t == Append(shell.fdtSuffix, half)
      <4>1. shell' = [shell EXCEPT !.fdtSuffix = t]
        BY <2>1, <3>1 DEF half
      <4>2. t \in Seq(Halves)
        BY <1>0, <2>2 DEF Types, ShellType
      <4> HIDE DEF t
      <4> QED
        BY <1>0, <4>1, <4>2 DEF Types, ShellType
    <3>2. CASE scheme # "files"
      BY <1>0, <2>1, <3>2 DEF Types
    <3> QED
      BY <3>1, <3>2
  <2> DEFINE d == Decided(scheme, half)
             w == WithBootargs(WithArgs(d, scheme, half))
  <2>5. /\ d \in EnvType /\ d.conf = env.conf /\ (Clean(env, at.board) => Clean(d, at.board))
        /\ w \in EnvType /\ w.conf = env.conf /\ ~w.bootargs.secure
    BY <1>0, <2>2, MmcargsEnv
  <2>6. (saved' = d \/ saved' = saved) /\ env' = w
    BY <2>1 DEF half
  <2> HIDE DEF d, w
  <2>7. pc = "mmcargs" /\ pc' = "loadfit" /\ UNCHANGED <<kernel, retries>>
    BY <1>4 DEF Mmcargs
  <2>8. env.conf = Unset
    BY <2>7 DEF BootInv, ConfInv, Net
  <2>9. saved' \in EnvType /\ saved'.conf = Unset /\ (retries = 0 => Clean(saved', at.board))
    <3>1. CASE saved' = d
      BY <2>5, <2>7, <2>8, <3>1 DEF BootInv, EnvInv, Before
    <3>2. CASE saved' = saved
      BY <1>0, <3>2 DEF BootInv, EnvInv, Types
    <3> QED
      BY <2>6, <3>1, <3>2
  <2> QED
    BY <1>0, <2>3, <2>4, <2>5, <2>6, <2>7, <2>8, <2>9 DEF BootInv, Types, EnvInv, ConfInv,
       SecureInv, MediaInv, KernelInv, Net, Before, Plain, Clean
<1>5. CASE LoadFit
  <2>1. pc = "loadfit" /\ UNCHANGED <<saved, shell, kernel, retries>>
    BY <1>5 DEF LoadFit
  <2>2. ~env.bootargs.secure /\ env.conf = Unset
    BY <2>1 DEF BootInv, SecureInv, ConfInv, Plain, Net
  <2>3. CASE /\ Loads("fit", env.suffix, Addr(at.board, "fitaddr"))
             /\ env' = [env EXCEPT !.bootargs.secure = TRUE] /\ pc' = "fitboot"
    <3>1. env' \in EnvType /\ env'.conf = Unset /\ env'.bootargs.secure
      BY <1>0, <2>2, <2>3, SecureEnv
    <3>2. UNCHANGED faults
      BY <2>3 DEF Loads
    <3> QED
      BY <1>0, <2>1, <2>3, <3>1, <3>2 DEF BootInv, Types, EnvInv, ConfInv, SecureInv, MediaInv,
         KernelInv, Net, Before, Plain
  <2>4. CASE Misses("fit", env.suffix) /\ pc' = "loadimage" /\ UNCHANGED env
    <3>1. faults' \in Nat /\ (faults' = 0 => NoLocal)
      BY <1>0, <2>4, LoadsMisses DEF NoLocal
    <3>2. NoLocal' = NoLocal
      BY <1>0, <2>4 DEF NoLocal, Exists
    <3> QED
      BY <1>0, <2>1, <2>2, <2>4, <3>1, <3>2 DEF BootInv, Types, EnvInv, ConfInv, SecureInv,
         MediaInv, KernelInv, Net, Before, Plain
  <2> QED
    BY <1>5, <2>3, <2>4 DEF LoadFit
<1>6. CASE FitBoot
  <2>1. pc = "fitboot" /\ UNCHANGED <<saved, shell, retries>>
    BY <1>6 DEF FitBoot
  <2>6. env' \in EnvType /\ env'.conf = env.conf /\ env'.bootargs = env.bootargs
    BY <1>0, <1>6, AddrEnv DEF FitBoot
  <2>2. FitConf = Expected /\ env.bootargs.secure /\ env.conf = Unset
    BY <2>1 DEF FitConf, BootInv, ConfInv, SecureInv, Net
  <2>3. faults' \in Nat
    BY <1>0, <1>6 DEF FitBoot, Fault, Types
  <2>4. CASE /\ pc' = "kernel"
             /\ kernel' = [source |-> "fit", image |-> mem[Addr(at.board, "fitaddr")],
                           conf |-> FitConf, args |-> env.bootargs]
    <3>1. kernel'.source = "fit" /\ kernel'.conf = Expected /\ kernel'.args.secure
      BY <2>2, <2>4
    <3> QED
      BY <1>0, <2>1, <2>6, <2>3, <2>4, <3>1 DEF BootInv, Types, EnvInv, ConfInv, SecureInv,
         MediaInv, KernelInv, Net, Before, Plain, Clean
  <2>5. CASE pc' = "prompt" /\ UNCHANGED kernel
    BY <1>0, <2>1, <2>6, <2>2, <2>3, <2>5 DEF Clean, BootInv, Types, EnvInv, ConfInv, SecureInv, MediaInv,
       KernelInv, Net, Before, Plain
  <2> QED
    BY <1>6, <2>4, <2>5 DEF FitBoot
<1>7. CASE LoadImage \/ LoadFdt \/ LoadInitrd
  <2>1. /\ pc \in {"loadimage", "loadfdt", "loadinitrd"}
        /\ pc' \in {"loadfdt", "nocheck", "loadinitrd", "prompt", "booti", "booti_bare"}
        /\ UNCHANGED <<saved, env, shell, kernel, retries>>
    BY <1>7 DEF LoadImage, LoadFdt, LoadInitrd
  <2>2. faults' \in Nat /\ (faults' = 0 => faults = 0)
    BY <1>0, <1>7, LoadsMisses DEF LoadImage, LoadFdt, LoadInitrd, Types
  <2>3. pc' = "nocheck" => pc = "loadimage" /\ (faults' = 0 => NoImage)
    BY <1>0, <1>7, LoadsMisses DEF LoadImage, LoadFdt, LoadInitrd, NoImage
  <2>4. UNCHANGED <<NoLocal, NoImage>>
    BY <1>0, <2>1 DEF NoLocal, NoImage, Exists
  <2> QED
    BY <1>0, <2>1, <2>2, <2>3, <2>4 DEF BootInv, Types, EnvInv, ConfInv, SecureInv, MediaInv,
       KernelInv, Net, Before, Plain
<1>8. CASE Booti
  <2>1. /\ pc \in {"booti", "booti_bare"} /\ UNCHANGED <<saved, env, shell, retries>>
        /\ faults' \in Nat
    BY <1>0, <1>8 DEF Booti, Fault, Types
  <2>2. \/ pc' = "prompt" /\ UNCHANGED kernel
        \/ pc' = "kernel" /\ kernel'.source = "image" /\ kernel'.args = env.bootargs
    BY <1>8 DEF Booti
  <2>3. ~env.bootargs.secure
    BY <2>1 DEF BootInv, SecureInv, Plain
  <2> QED
    BY <1>0, <2>1, <2>2, <2>3 DEF BootInv, Types, EnvInv, ConfInv, SecureInv, MediaInv,
       KernelInv, Net, Before, Plain
<1>9. CASE Retry
  BY <1>0, <1>9 DEF Retry, BootInv, Types, EnvInv, ConfInv, SecureInv, MediaInv, KernelInv,
     Net, Before, Plain
<1>10. CASE Reset
  <2>1. saved' \in EnvType /\ saved'.conf = Unset /\ (retries = 0 => Clean(saved', at.board))
    <3>1. CASE UNCHANGED saved
      BY <1>0, <3>1 DEF BootInv, Types, EnvInv
    <3>2. CASE SystemWrites
      <4>1. PICK last \in {Unset, saved.last}, attempt \in BOOLEAN :
                   saved' = [saved EXCEPT !.last = last, !.attempt = attempt]
        BY <3>2 DEF SystemWrites
      <4>2. last \in Halves \cup {Unset}
        BY <1>0 DEF Types, EnvType
      <4>3. saved' \in EnvType /\ saved'.conf = saved.conf /\ (Clean(saved, at.board) => Clean(saved', at.board))
        BY <1>0, <4>1, <4>2 DEF Types, EnvType, Clean
      <4> QED
        BY <4>3 DEF BootInv, EnvInv
    <3> QED
      BY <1>10, <3>1, <3>2 DEF Reset
  <2>2. pc' = "detect" /\ env' = saved' /\ kernel'.source = "none" /\ UNCHANGED <<retries, faults>>
    BY <1>10 DEF Reset, NoKernel
  <2>3. shell' \in ShellType
    BY <1>10, EmptySuffix DEF Reset, NoShell, ShellType
  <2> QED
    BY <1>0, <2>1, <2>2, <2>3 DEF BootInv, Types, EnvInv, ConfInv, SecureInv, MediaInv,
       KernelInv, Net, Before, Plain
<1>11. CASE UNCHANGED vars
  <2>1. UNCHANGED <<NoLocal, NoImage, Enabled("pxe"), Enabled(kernel.method), Expected>>
    BY <1>0, <1>11 DEF vars, NoLocal, NoImage, Exists, Enabled
  <2> QED
    BY <1>0, <1>11, <2>1 DEF vars, BootInv, Types, EnvInv, ConfInv, SecureInv, MediaInv,
       KernelInv, Clean
<1> QED
  BY <1>1, <1>2, <1>3, <1>4, <1>5, <1>6, <1>7, <1>8, <1>9, <1>10, <1>11 DEF Next, Program

LEMMA BootAlways == Spec => []BootInv
<1>1. Init => BootInv
  <2> SUFFICES ASSUME Init PROVE BootInv
    OBVIOUS
  <2>1. FreshEnv \in EnvType /\ FreshEnv.conf = Unset /\ Clean(FreshEnv, at.board)
    BY CleanTypes, EmptySuffix DEF FreshEnv, EnvType, Clean, Halves
  <2>2. NoShell \in ShellType
    BY EmptySuffix DEF NoShell, ShellType
  <2> QED
    BY <2>1, <2>2 DEF Init, BootInv, Types, EnvInv, ConfInv, SecureInv, MediaInv, KernelInv,
       NoKernel, Net, Plain
<1> QED
  BY <1>1, BootStep, PTL DEF Spec

(* Nothing that is meant for one boot gets into the saved environment        *)
(* (gemini_env.h: saveenv comes before the suffixes and the arguments).      *)
THEOREM SavedStaysClean == Spec => []SavedClean
<1>1. BootInv => SavedClean
  <2> SUFFICES ASSUME BootInv, retries = 0,
                      NEW f \in DOMAIN FreshEnv \ {"active", "last", "attempt"}
               PROVE  saved[f] = FreshEnv[f]
    BY DEF SavedClean
  <2>1. saved \in EnvType /\ saved.conf = Unset /\ Clean(saved, at.board)
    BY DEF BootInv, Types, EnvInv
  <2>2. saved.force = at.force /\ saved.forcedId = at.forcedId /\ saved.off = at.pxeOff
    BY <2>1 DEF EnvType
  <2>3. f \in {"force", "forcedId", "off", "suffix", "mmcpart", "dbargs", "bootargs", "conf",
            "loadaddr"}
    BY DEF FreshEnv
  <2> QED
    BY <2>1, <2>2, <2>3 DEF FreshEnv, Clean
<1> QED
  BY <1>1, BootAlways, PTL

(* A kernel is told secure-boot exactly if it came out of a FIT image.       *)
THEOREM SecureIsFit == Spec => []SecureFromFit
<1>1. BootInv => SecureFromFit
  BY DEF BootInv, KernelInv, SecureFromFit, Local
<1> QED
  BY <1>1, BootAlways, PTL

(* The network and each of its methods are not used where the environment,   *)
(* or a mark that can be read, disables them, unless the MMC has nothing.    *)
THEOREM PxeStaysDisabled == Spec => []PxeDisabledHonoured
<1>1. BootInv => PxeDisabledHonoured
  BY DEF BootInv, KernelInv, PxeDisabledHonoured, Enabled, NoLocal, NoImage, Net
<1> QED
  BY <1>1, BootAlways, PTL

(* The configuration asked of a FIT image is the board's (loadfit, pxeboot). *)
THEOREM ConfIsBoards == Spec => []ConfOfBoard
<1>1. BootInv => ConfOfBoard
  BY DEF BootInv, KernelInv, ConfOfBoard, Expected, Net
<1> QED
  BY <1>1, BootAlways, PTL

------------------------------------------------------------------------------
(* The decision *)

AfterArgs == {"loadfit", "fitboot", "loadimage", "loadfdt", "loadinitrd", "booti", "booti_bare"}

(* The half and the scheme of these arguments are the ones that are saved.   *)
Told(args) ==
  args.db.mode = at.layout /\ saved.active = args.db.half /\ saved.last = args.db.half

(* mmcargs takes a dual device for what it is unless it has nothing to boot. *)
DecisionInv ==
  /\ at.layout \in {"single", "files", "partitions"}
  /\ faults = 0 /\ at.layout # "single" =>
       /\ pc \in AfterArgs =>
            \/ Told(env.bootargs)
            \/ /\ at.layout = "files" /\ "fit" \in at.missing /\ "Image" \in at.missing
               /\ pc \in {"loadfit", "loadimage"}
       /\ pc = "kernel" /\ kernel.source # "pxe" => Told(kernel.args)

(* A file with the suffix of half a is there unless it is missing. *)
LEMMA SchemeFound ==
  ASSUME at.layout \in {"files", "partitions"}
  PROVE  DualScheme = at.layout \/ (at.layout = "files" /\ "fit" \in at.missing /\ "Image" \in at.missing)
<1>1. CASE at.layout = "partitions"
  BY <1>1 DEF DualScheme
<1>2. CASE at.layout = "files"
  <2>1. <<"a">> \in {<<h>> : h \in Halves}
    BY DEF Halves
  <2>2. \A base : base \notin at.missing => Exists(base, 1, <<"a">>)
    BY <1>2, <2>1 DEF Exists
  <2> QED
    BY <1>2, <2>2 DEF DualScheme
<1> QED
  BY <1>1, <1>2

(* What a dual device is told is what is saved. *)
LEMMA ToldSaved ==
  ASSUME Types, NEW scheme \in {"files", "partitions"}, NEW half \in Halves
  PROVE  LET d == Decided(scheme, half) IN
         LET w == WithBootargs(WithArgs(d, scheme, half)) IN
         /\ w.bootargs.db.mode = scheme /\ w.bootargs.db.half = half
         /\ d.active = half /\ d.last = half
<1> DEFINE d == Decided(scheme, half)
           a == WithArgs(d, scheme, half)
           w == WithBootargs(a)
<1>1. d \in EnvType /\ d.active = half /\ d.last = half
  BY DEF Types, EnvType, Decided
<1> HIDE DEF d
<1>2. a.dbargs = [half |-> half, mode |-> scheme, force |-> d.force] /\ DOMAIN a = DOMAIN d
  BY <1>1 DEF WithArgs, EnvType
<1>3. "bootargs" \in DOMAIN a
  BY <1>1, <1>2 DEF EnvType
<1> HIDE DEF a
<1>4. w.bootargs = [db |-> a.dbargs, root |-> a.mmcpart, secure |-> FALSE]
  BY <1>3 DEF WithBootargs
<1> HIDE DEF w
<1> QED
  BY <1>1, <1>2, <1>4 DEF d, a, w

LEMMA DecisionStep ==
  ASSUME BootInv, DecisionInv, [Next]_vars
  PROVE  DecisionInv'
<1>0. at' = at /\ Types /\ at.layout \in {"single", "files", "partitions"}
  BY SameSituation DEF BootInv, DecisionInv
<1>1. ASSUME pc' \notin AfterArgs, pc' = "kernel" => kernel'.source = "pxe"
      PROVE  DecisionInv'
  BY <1>0, <1>1 DEF DecisionInv
<1>2. CASE GeminiHwDetect \/ PxeBoot
  BY <1>1, <1>2 DEF GeminiHwDetect, PxeBoot, AfterArgs
<1>3. CASE PxeAttempt
  <2>1. pc \in Net \cup {"nocheck"}
    BY <1>3 DEF PxeAttempt, Net
  <2>2. CASE pc' = PxeNext(pc)
    BY <1>1, <2>1, <2>2 DEF PxeNext, Net, AfterArgs
  <2>3. CASE pc' = "kernel" /\ \E own \in BOOLEAN : kernel' = PxeKernel(own)
    BY <1>1, <2>3 DEF PxeKernel, AfterArgs
  <2> QED
    BY <1>3, <2>2, <2>3 DEF PxeAttempt
<1>4. CASE Mmcargs
  <2>1. SUFFICES ASSUME faults' = 0, at.layout \in {"files", "partitions"},
                        ~ (at.layout = "files" /\ "fit" \in at.missing /\ "Image" \in at.missing)
                 PROVE  Told(env.bootargs)'
    <3>1. pc' = "loadfit"
      BY <1>4 DEF Mmcargs
    <3> QED
      BY <1>0, <3>1 DEF DecisionInv
  <2>2. DualScheme = at.layout
    BY <2>1, SchemeFound
  <2>3. PICK swap \in {U!DbSwapRequested, env.attempt} :
          /\ saved' = Decided(at.layout, SelectHalf(swap))
          /\ env' = WithBootargs(WithArgs(Decided(at.layout, SelectHalf(swap)), at.layout, SelectHalf(swap)))
    <3>1. PICK scheme \in {DualScheme, "none"}, swap \in {U!DbSwapRequested, env.attempt},
               save \in BOOLEAN :
            /\ IF scheme = DualScheme /\ swap = U!DbSwapRequested /\ save
               THEN UNCHANGED faults ELSE Fault
            /\ saved' = IF scheme # "none" /\ save THEN Decided(scheme, SelectHalf(swap)) ELSE saved
            /\ env' = WithBootargs(WithArgs(Decided(scheme, SelectHalf(swap)), scheme, SelectHalf(swap)))
      BY <1>4 DEF Mmcargs
    <3>2. ~Fault
      BY <1>0, <2>1 DEF Fault, Types
    <3>3. scheme = at.layout /\ save
      BY <2>2, <3>1, <3>2
    <3> QED
      BY <2>1, <3>1, <3>3
  <2> DEFINE half == SelectHalf(swap)
  <2>4. half \in Halves
    BY SelectsHalf
  <2> HIDE DEF half
  <2>5. /\ env'.bootargs.db.mode = at.layout /\ env'.bootargs.db.half = half
        /\ saved'.active = half /\ saved'.last = half
    BY <1>0, <2>1, <2>3, <2>4, ToldSaved DEF half
  <2> QED
    BY <1>0, <2>5 DEF Told
<1>5. CASE LoadFit \/ LoadImage \/ LoadFdt \/ LoadInitrd
  <2>1. UNCHANGED saved /\ (env'.bootargs.db = env.bootargs.db) /\ pc \in AfterArgs /\ pc' # "kernel"
    <3>1. CASE UNCHANGED env
      BY <1>5, <3>1 DEF LoadFit, LoadImage, LoadFdt, LoadInitrd, AfterArgs
    <3>2. CASE LoadFit /\ env' = [env EXCEPT !.bootargs.secure = TRUE]
      BY <1>0, <3>2 DEF LoadFit, AfterArgs, Types, EnvType, BootArgs
    <3> QED
      BY <1>5, <3>1, <3>2 DEF LoadFit, LoadImage, LoadFdt, LoadInitrd
  <2>2. Told(env.bootargs)' <=> Told(env.bootargs)
    BY <1>0, <2>1 DEF Told
  <2>3. faults' = 0 => faults = 0
    BY <1>0, <1>5 DEF LoadFit, LoadImage, LoadFdt, LoadInitrd, Loads, Misses, Fault, Types
  <2>4. ASSUME "fit" \in at.missing, "Image" \in at.missing, pc \in {"loadfit", "loadimage"}
        PROVE  pc' \in {"loadimage", "nocheck"}
    BY <1>5, <2>4 DEF LoadFit, LoadImage, LoadFdt, LoadInitrd, Loads, Exists
  <2> QED
    BY <1>0, <2>1, <2>2, <2>3, <2>4 DEF DecisionInv, AfterArgs
<1>6. CASE FitBoot \/ Booti
  <2>1. /\ UNCHANGED saved /\ pc \in AfterArgs \ {"loadfit", "loadimage"}
        /\ pc' \in {"kernel", "prompt"} /\ (pc' = "kernel" => kernel'.args = env.bootargs)
    BY <1>6 DEF FitBoot, Booti, AfterArgs
  <2>2. faults' = 0 => faults = 0
    BY <1>0, <1>6 DEF FitBoot, Booti, Fault, Types
  <2>3. pc' = "kernel" => (Told(kernel.args)' <=> Told(env.bootargs))
    BY <1>0, <2>1 DEF Told
  <2> QED
    BY <1>0, <2>1, <2>2, <2>3 DEF DecisionInv, AfterArgs
<1>7. CASE Retry \/ Reset
  BY <1>1, <1>7 DEF Retry, Reset, AfterArgs
<1>8. CASE UNCHANGED vars
  BY <1>8 DEF vars, DecisionInv, Told
<1> QED
  BY <1>2, <1>3, <1>4, <1>5, <1>6, <1>7, <1>8 DEF Next, Program

(* The half a kernel of a dual device is told it is on is the half that is   *)
(* saved as active and as last (mmcargs, saveenv), on every device whose     *)
(* reads succeed, so that the next boot can tell whether this one was a      *)
(* success.                                                                  *)
THEOREM DecisionIsSaved == Spec => []DecisionSaved
<1>1. Init => DecisionInv
  BY SituationsAssumption DEF Init, DecisionInv, AfterArgs
<1>2. BootInv /\ DecisionInv => DecisionSaved
  <2> SUFFICES ASSUME BootInv, DecisionInv, Local, at.layout # "single", faults = 0
               PROVE  Told(kernel.args)
    BY DEF DecisionSaved, Told
  <2>1. pc = "kernel" /\ kernel.source # "pxe"
    BY DEF BootInv, KernelInv, Local
  <2> QED
    BY <2>1 DEF DecisionInv
<1> QED
  BY <1>1, <1>2, BootAlways, DecisionStep, PTL DEF Spec

------------------------------------------------------------------------------
(* The default environment: the value a variable has is the one its last     *)
(* definition gives it.                                                      *)

LEMMA LastAt ==
  ASSUME NEW list, NEW name, NEW i \in DOMAIN list, DOMAIN list \subseteq Int,
         list[i][1] = name, \A j \in DOMAIN list : j > i => list[j][1] # name
  PROVE  LastValue(list, name) = list[i][2]
<1> DEFINE of == {j \in DOMAIN list : list[j][1] = name}
           m == CHOOSE k \in of : \A j \in of : j <= k
<1>1. i \in of /\ \A j \in of : j <= i
  OBVIOUS
<1>2. m \in of /\ \A j \in of : j <= m
  BY <1>1
<1>3. m = i
  BY <1>1, <1>2
<1> QED
  BY <1>3 DEF LastValue

LEMMA ConcatSeq ==
  ASSUME NEW S, NEW s1 \in Seq(S), NEW s2 \in Seq(S)
  PROVE  /\ Len(s1) \in Nat /\ Len(s2) \in Nat /\ DOMAIN s1 = 1 .. Len(s1) /\ DOMAIN s2 = 1 .. Len(s2)
         /\ DOMAIN (s1 \o s2) = 1 .. Len(s1) + Len(s2)
         /\ \A i \in 1 .. Len(s1) : (s1 \o s2)[i] = s1[i]
         /\ \A i \in 1 .. Len(s2) : (s1 \o s2)[Len(s1) + i] = s2[i]
         /\ \A i \in DOMAIN (s1 \o s2) : i > Len(s1) => (s1 \o s2)[i] = s2[i - Len(s1)]
  BY ConcatProperties, LenProperties

LEMMA LastWins ==
  ASSUME NEW S, NEW l1 \in Seq(S), NEW l2 \in Seq(S), NEW name, NEW i \in 1 .. Len(l2),
         l2[i][1] = name, \A j \in 1 .. Len(l2) : j > i => l2[j][1] # name
  PROVE  LastValue(l1 \o l2, name) = l2[i][2]
<1> DEFINE l == l1 \o l2  k == Len(l1) + i
<1>0. /\ Len(l1) \in Nat /\ Len(l2) \in Nat /\ DOMAIN l = 1 .. Len(l1) + Len(l2)
      /\ l[k] = l2[i] /\ \A j \in DOMAIN l : j > Len(l1) => l[j] = l2[j - Len(l1)]
  BY ConcatSeq
<1> HIDE DEF l
<1>1. k \in DOMAIN l /\ DOMAIN l \subseteq Int
  BY <1>0
<1>2. ASSUME NEW j \in DOMAIN l, j > k PROVE l[j][1] # name
  <2>1. j > Len(l1) /\ j - Len(l1) \in 1 .. Len(l2) /\ j - Len(l1) > i
    BY <1>0, <1>2
  <2> QED BY <1>0, <2>1
<1> HIDE DEF k
<1>3. LastValue(l, name) = l[k][2]
  BY <1>0, <1>1, <1>2, LastAt
<1> QED
  BY <1>0, <1>3 DEF l

LEMMA FirstStays ==
  ASSUME NEW S, NEW l1 \in Seq(S), NEW l2 \in Seq(S), NEW name, NEW i \in 1 .. Len(l1),
         l1[i][1] = name, \A j \in 1 .. Len(l1) : j > i => l1[j][1] # name,
         \A j \in 1 .. Len(l2) : l2[j][1] # name
  PROVE  LastValue(l1 \o l2, name) = l1[i][2]
<1> DEFINE l == l1 \o l2
<1>0. /\ Len(l1) \in Nat /\ Len(l2) \in Nat /\ DOMAIN l = 1 .. Len(l1) + Len(l2)
      /\ \A j \in 1 .. Len(l1) : l[j] = l1[j]
      /\ \A j \in DOMAIN l : j > Len(l1) => l[j] = l2[j - Len(l1)]
  BY ConcatSeq
<1> HIDE DEF l
<1>1. i \in DOMAIN l /\ DOMAIN l \subseteq Int
  BY <1>0
<1>2. ASSUME NEW j \in DOMAIN l, j > i PROVE l[j][1] # name
  <2>1. CASE j <= Len(l1)
    BY <1>0, <1>2, <2>1
  <2>2. CASE j > Len(l1)
    <3>1. j - Len(l1) \in 1 .. Len(l2)
      BY <1>0, <2>2
    <3> QED BY <1>0, <2>2, <3>1
  <2> QED BY <1>0, <2>1, <2>2
<1>3. LastValue(l, name) = l[i][2]
  BY <1>0, <1>1, <1>2, LastAt
<1> QED
  BY <1>0, <1>3 DEF l

LEMMA OneSeq == ASSUME NEW S, NEW x \in S PROVE <<x>> \in Seq(S) /\ Len(<<x>>) = 1
  BY SMT

LEMMA FiveSeq ==
  ASSUME NEW S, NEW x1 \in S, NEW x2 \in S, NEW x3 \in S, NEW x4 \in S, NEW x5 \in S
  PROVE  <<x1, x2, x3, x4, x5>> \in Seq(S) /\ Len(<<x1, x2, x3, x4, x5>>) = 5
  BY SMT

LEMMA SixSeq ==
  ASSUME NEW S, NEW x1 \in S, NEW x2 \in S, NEW x3 \in S, NEW x4 \in S, NEW x5 \in S, NEW x6 \in S
  PROVE  <<x1, x2, x3, x4, x5, x6>> \in Seq(S) /\ Len(<<x1, x2, x3, x4, x5, x6>>) = 6
  BY SMT

LEMMA SameAddresses ==
  ASSUME NEW b \in Boards
  PROVE  DefaultEnv[b] = Joined(EvkEnv(MfgEnv_2522), GeminiEnv)
  BY DEF Boards, DefaultEnv, ExtraEnv_2522, ExtraEnv_2319a, ExtraEnv_2409, ExtraEnv_2414,
     ExtraEnv_2414_2g, ExtraEnv_2602, MfgEnv_2319a, MfgEnv_2409, MfgEnv_2414, MfgEnv_2414_2g,
     MfgEnv_2602

LEMMA JoinedAddresses ==
  ASSUME NEW e, NEW f PROVE Joined(e, f).addresses = e.addresses \o f.addresses
  BY DEF Joined

(* Where the local kernel is loaded to. *)
LEMMA LoadAddresses ==
  ASSUME NEW b \in Boards
  PROVE  /\ Addr(b, "loadaddr") # Addr(b, "fdt_addr_r")
         /\ Addr(b, "loadaddr") # Addr(b, "initrd_addr")
         /\ Addr(b, "fdt_addr_r") # Addr(b, "initrd_addr")
<1> DEFINE m1 == <<"initrd_addr", \h43800000>>
           e1 == <<"loadaddr", SysLoadAddr>>
           e2 == <<"scriptaddr", \h43500000>>
           e3 == <<"kernel_addr_r", SysLoadAddr>>
           e4 == <<"pxefile_addr_r", SysLoadAddr>>
           e5 == <<"fdt_addr_r", \h43000000>>
           g1 == <<"initrd_addr", \h43800000>>
           g2 == <<"ramdisk_addr_r", \h43800000>>
           g3 == <<"db_id_a_addr", \h47000000>>
           g4 == <<"db_id_b_addr", \h47010000>>
           g5 == <<"fitaddr", \h48000000>>
           g6 == <<"kernel_addr_r", \h48000000>>
           M == <<m1>>
           E == <<e1, e2, e3, e4, e5>>
           G == <<g1, g2, g3, g4, g5, g6>>
           S == {m1, e1, e2, e3, e4, e5, g1, g2, g3, g4, g5, g6}
<1>1. MfgEnv_2522 = M
  BY SMT DEF MfgEnv_2522
<1>2. EvkEnv(MfgEnv_2522).addresses = MfgEnv_2522 \o E
  BY SMT DEF EvkEnv
<1>3. GeminiEnv.addresses = G
  BY SMT DEF GeminiEnv
<1>4. /\ e1[1] = "loadaddr" /\ \A x \in {e2, e3, e4, e5, g1, g2, g3, g4, g5, g6} : x[1] # "loadaddr"
  BY SMT
<1>5. /\ e5[1] = "fdt_addr_r" /\ \A x \in {g1, g2, g3, g4, g5, g6} : x[1] # "fdt_addr_r"
  BY SMT
<1>6. /\ g1[1] = "initrd_addr" /\ \A x \in {g2, g3, g4, g5, g6} : x[1] # "initrd_addr"
  BY SMT
<1>7. e1[2] # e5[2] /\ e1[2] # g1[2] /\ e5[2] # g1[2]
  BY SMT DEF SysLoadAddr
<1>9. m1 \in S /\ e1 \in S /\ e2 \in S /\ e3 \in S /\ e4 \in S /\ e5 \in S /\ g1 \in S /\ g2 \in S /\ g3 \in S /\ g4 \in S /\ g5 \in S /\ g6 \in S
  BY SMT
<1> HIDE DEF m1, e1, e2, e3, e4, e5, g1, g2, g3, g4, g5, g6, S
<1>10. M \in Seq(S) /\ Len(M) = 1
  BY <1>9, OneSeq
<1>11. E \in Seq(S) /\ Len(E) = 5
  BY <1>9, FiveSeq
<1>12. G \in Seq(S) /\ Len(G) = 6
  BY <1>9, SixSeq
<1>13. /\ \A j \in 1 .. 6 : G[j] \in {g1, g2, g3, g4, g5, g6}
       /\ \A j \in 1 .. 6 : j > 1 => G[j] \in {g2, g3, g4, g5, g6}
       /\ G[1] = g1
  BY SMT
<1>14. /\ \A j \in 1 .. 5 : j > 1 => E[j] \in {e2, e3, e4, e5}
       /\ E[1] = e1 /\ E[5] = e5
  BY SMT
<1> DEFINE K == M \o E
<1> HIDE DEF M, E, G
<1>15. /\ K \in Seq(S) /\ Len(K) = 6 /\ K[2] = e1 /\ K[6] = e5
       /\ \A j \in 1 .. 6 : j > 2 => K[j] \in {e2, e3, e4, e5}
  <2>1. K \in Seq(S) /\ Len(K) = 6 /\ \A i \in 1 .. 5 : K[1 + i] = E[i]
    <3>1. K \in Seq(S) /\ Len(K) = Len(M) + Len(E)
      BY <1>10, <1>11, ConcatProperties
    <3>2. \A i \in 1 .. Len(E) : K[Len(M) + i] = E[i]
      <4>1. M \in Seq(S) /\ E \in Seq(S)
        BY <1>10, <1>11
      <4> QED
        BY <4>1, ConcatSeq
    <3> HIDE DEF K
    <3> QED
      BY <1>10, <1>11, <3>1, <3>2
  <2>2. K[2] = e1 /\ K[6] = e5
    BY <2>1, <1>14
  <2>3. ASSUME NEW j \in 1 .. 6, j > 2 PROVE K[j] \in {e2, e3, e4, e5}
    <3>1. j - 1 \in 1 .. 5 /\ j - 1 > 1 /\ 1 + (j - 1) = j
      BY <2>3
    <3> QED
      BY <3>1, <2>1, <1>14
  <2> QED
    BY <2>1, <2>2, <2>3
<1>16. DefaultEnv[b].addresses = K \o G
  BY <1>1, <1>2, <1>3, SameAddresses, JoinedAddresses
<1> HIDE DEF K
<1>17. Addr(b, "loadaddr") = e1[2]
  <2>1. \A j \in 1 .. Len(K) : j > 2 => K[j][1] # "loadaddr"
    BY <1>4, <1>15
  <2>2. \A j \in 1 .. Len(G) : G[j][1] # "loadaddr"
    BY <1>4, <1>12, <1>13
  <2>3. 2 \in 1 .. Len(K) /\ K[2][1] = "loadaddr"
    BY <1>4, <1>15
  <2> QED
    <3>1. K \in Seq(S) /\ G \in Seq(S) /\ K[2][1] = "loadaddr"
      BY <1>12, <1>15, <2>3
    <3>2. LastValue(K \o G, "loadaddr") = K[2][2]
      BY <3>1, <2>1, <2>2, <2>3, FirstStays
    <3> QED
      BY <1>15, <1>16, <3>2 DEF Addr
<1>18. Addr(b, "fdt_addr_r") = e5[2]
  <2>1. \A j \in 1 .. Len(K) : j > 6 => K[j][1] # "fdt_addr_r"
    BY <1>15
  <2>2. \A j \in 1 .. Len(G) : G[j][1] # "fdt_addr_r"
    BY <1>5, <1>12, <1>13
  <2>3. 6 \in 1 .. Len(K) /\ K[6][1] = "fdt_addr_r"
    BY <1>5, <1>15
  <2> QED
    <3>1. K \in Seq(S) /\ G \in Seq(S) /\ K[6][1] = "fdt_addr_r"
      BY <1>12, <1>15, <2>3
    <3>2. LastValue(K \o G, "fdt_addr_r") = K[6][2]
      BY <3>1, <2>1, <2>2, <2>3, FirstStays
    <3> QED
      BY <1>15, <1>16, <3>2 DEF Addr
<1>19. Addr(b, "initrd_addr") = g1[2]
  <2>1. \A j \in 1 .. Len(G) : j > 1 => G[j][1] # "initrd_addr"
    BY <1>6, <1>12, <1>13
  <2>2. 1 \in 1 .. Len(G) /\ G[1][1] = "initrd_addr"
    BY <1>6, <1>12, <1>13
  <2> QED
    <3>1. LastValue(K \o G, "initrd_addr") = G[1][2]
      BY <1>12, <1>15, <2>1, <2>2, LastWins
    <3> QED
      BY <1>13, <1>16, <3>1 DEF Addr
<1> QED
  BY <1>7, <1>17, <1>18, <1>19

LEMMA IndexedSeq ==
  ASSUME NEW S, NEW n \in Nat, NEW f \in [1 .. n -> S] PROVE f \in Seq(S) /\ Len(f) = n
<1>1. f \in Seq(S)
  BY SeqDef
<1>2. Len(f) = n
  BY <1>1, LenProperties
<1> QED
  BY <1>1, <1>2

LEMMA JoinedScripts ==
  ASSUME NEW e, NEW f PROVE Joined(e, f).scripts = e.scripts \o f.scripts
  BY DEF Joined

LEMMA ScriptsOfGemini ==
  ASSUME NEW b \in Boards,
         NEW s \in {"bootcmd", "bsp_bootcmd", "mmcargs", "loadimage", "loadfdt", "mmcboot"}
  PROVE  Script(b, s) = "gemini"
<1> DEFINE N == <<"bootcmd", "bsp_bootcmd", "mmcargs", "loadimage", "loadfdt", "mmcboot",
                  "loadinitrd">>
           E == EvkEnv(MfgEnv_2522).scripts
           G == GeminiEnv.scripts
           S == {E[i] : i \in 1 .. 5} \cup {G[i] : i \in 1 .. 7}
<1>1. G = [i \in 1 .. 7 |-> <<N[i], "gemini">>]
  BY DEF GeminiEnv
<1>2. DOMAIN E = 1 .. 5
  BY DEF EvkEnv
<1>3. E \in Seq(S) /\ G \in Seq(S) /\ Len(G) = 7 
  <2>1. E \in [1 .. 5 -> S] /\ G \in [1 .. 7 -> S]
    <3>1. DOMAIN E = 1 .. 5 /\ E = [i \in 1 .. 5 |-> E[i]]
      BY DEF EvkEnv
    <3>2. DOMAIN G = 1 .. 7 /\ G = [i \in 1 .. 7 |-> G[i]]
      BY <1>1
    <3>3. (\A i \in 1 .. 5 : E[i] \in S) /\ (\A i \in 1 .. 7 : G[i] \in S)
      OBVIOUS
    <3> HIDE DEF E, G, S
    <3> QED
      BY <3>1, <3>2, <3>3
  <2> HIDE DEF E, G, S
  <2> QED
    BY <2>1, IndexedSeq
<1>4. DefaultEnv[b].scripts = E \o G
  BY SameAddresses, JoinedScripts
<1>5. /\ N[1] = "bootcmd" /\ N[2] = "bsp_bootcmd" /\ N[3] = "mmcargs" /\ N[4] = "loadimage"
      /\ N[5] = "loadfdt" /\ N[6] = "mmcboot" /\ N[7] = "loadinitrd"
  OBVIOUS
<1> HIDE DEF N
<1>6. PICK i \in 1 .. 7 : N[i] = s /\ \A j \in 1 .. 7 : j > i => N[j] # s
  <2>1. \E i \in 1 .. 7 : N[i] = s
    BY <1>5
  <2>2. \A j \in 1 .. 7 : j \in {1, 2, 3, 4, 5, 6, 7}
    OBVIOUS
  <2> QED
    BY <1>5, <2>1, <2>2
<1>7. /\ i \in 1 .. Len(G) /\ G[i][1] = s /\ G[i][2] = "gemini"
      /\ \A j \in 1 .. Len(G) : j > i => G[j][1] # s
  BY <1>1, <1>3, <1>6
<1> HIDE DEF E, G, S
<1>8. LastValue(E \o G, s) = G[i][2]
  <2>1. E \in Seq(S) /\ G \in Seq(S)
    BY <1>3
  <2> QED
    BY <2>1, <1>7, LastWins
<1> QED
  BY <1>4, <1>7, <1>8 DEF Script

------------------------------------------------------------------------------
(* The files *)

(* Where mmcargs has the scripts look, for the scheme it found. *)
Suffix == IF dual = "files" THEN <<env.active>> ELSE <<>>
Part == IF dual = "partitions" /\ env.active = "b" THEN 2 ELSE 1
DbTold ==
  IF dual = "none" THEN NoArgs ELSE [half |-> env.active, mode |-> dual, force |-> env.force]

At(name) == mem[Addr(at.board, name)]

RangeInv ==
  /\ at \in Situations /\ pc \in Stages
  /\ mem \in [Addresses -> Files] /\ dual \in {"none", "files", "partitions"}
  /\ boots \in 1 .. MaxBoots /\ retries \in 0 .. MaxRetries /\ faults \in 0 .. MaxFaults

(* After mmcargs, the names and the arguments are of one half. *)
ArgsInv ==
  /\ pc \in Before => shell.fdtSuffix = <<>>
  /\ pc \in AfterArgs =>
       /\ env.suffix = Suffix /\ shell.fdtSuffix = Suffix /\ env.mmcpart = Part
       /\ env.bootargs.db = DbTold /\ env.bootargs.root = Part
       /\ env.loadaddr = Addr(at.board, "loadaddr")

(* What is loaded stays where it was loaded. *)
LoadedInv ==
  /\ pc = "fitboot" => At("fitaddr") = Piece("fit")
  /\ pc \in {"loadfdt", "loadinitrd", "booti", "booti_bare"} => At("loadaddr") = Piece("Image")
  /\ pc \in {"loadinitrd", "booti", "booti_bare"} => At("fdt_addr_r") = Piece("fdt")
  /\ pc = "booti" => At("initrd_addr") = Piece("initrd")

HalfInv == retries = 0 => ArgsInv /\ LoadedInv /\ OneHalf

LEMMA AnyFile ==
  ASSUME NEW base \in {"fit", "Image", "fdt", "initrd", "nothing", "net"},
         NEW part \in {0, 1, 2}, NEW suffix \in Seq(Halves)
  PROVE  <<base, part, suffix>> \in Files
  BY DEF Files

LEMMA EmptyFile == Empty \in Files /\ <<"net", 0, <<>>>> \in Files
  BY EmptySuffix, AnyFile DEF Empty

(* A load puts a file into memory. *)
LEMMA LoadedFile ==
  ASSUME RangeInv, Types, NEW base \in {"fit", "Image", "fdt", "initrd"},
         NEW suffix \in Seq(Halves), NEW addr, Loads(base, suffix, addr) \/ Misses(base, suffix)
  PROVE  mem' \in [Addresses -> Files] /\ faults' \in 0 .. MaxFaults
<1>1. <<base, env.mmcpart, suffix>> \in Files
  BY AnyFile DEF Types, EnvType
<1>2. CASE Loads(base, suffix, addr)
  BY <1>1, <1>2 DEF Loads, RangeInv
<1>3. CASE Misses(base, suffix)
  BY <1>3, BoundsAssumption DEF Misses, Fault, RangeInv
<1> QED
  BY <1>2, <1>3

LEMMA RangeStep == ASSUME RangeInv, Types, [Next]_vars PROVE RangeInv'
<1>0. at' = at /\ Addresses' = Addresses
  BY SameSituation DEF Addresses
<1>a. env.suffix \in Seq(Halves) /\ shell.fdtSuffix \in Seq(Halves)
  BY DEF Types, EnvType, ShellType
<1>1. CASE GeminiHwDetect
  <2>1. GeminiScripts
    BY SituationsAssumption, ScriptsOfGemini DEF RangeInv, GeminiScripts
  <2> QED
    BY <1>0, <1>1, <2>1 DEF GeminiHwDetect, RangeInv, Stages
<1>2. CASE PxeBoot
  <2>1. faults' \in 0 .. MaxFaults
    BY <1>2, BoundsAssumption DEF PxeBoot, FoundEnabled, Fault, RangeInv
  <2> QED
    BY <1>0, <1>2, <2>1 DEF PxeBoot, RangeInv, Stages
<1>3. CASE PxeAttempt
  <2>1. pc' \in Stages
    BY <1>3 DEF PxeAttempt, PxeNext, Stages
  <2>2. mem' \in [Addresses -> Files]
    BY <1>3, EmptyFile DEF PxeAttempt, PxeLoads, RangeInv
  <2>3. faults' \in 0 .. MaxFaults
    BY <1>3, BoundsAssumption DEF PxeAttempt, FoundEnabled, Fault, RangeInv
  <2> QED
    BY <1>0, <1>3, <2>1, <2>2, <2>3 DEF PxeAttempt, RangeInv
<1>4. CASE Mmcargs
  <2>1. dual' \in {"none", "files", "partitions"} /\ faults' \in 0 .. MaxFaults
    BY <1>4, BoundsAssumption DEF Mmcargs, DualScheme, Fault, RangeInv
  <2> QED
    BY <1>0, <1>4, <2>1 DEF Mmcargs, RangeInv, Stages
<1>5. CASE LoadFit
  <2>1. mem' \in [Addresses -> Files] /\ faults' \in 0 .. MaxFaults
    BY <1>5, <1>a, LoadedFile DEF LoadFit
  <2> QED
    BY <1>0, <1>5, <2>1 DEF LoadFit, RangeInv, Stages
<1>6. CASE FitBoot
  <2>1. faults' \in 0 .. MaxFaults
    BY <1>6, BoundsAssumption DEF FitBoot, Fault, RangeInv
  <2> QED
    BY <1>0, <1>6, <2>1 DEF FitBoot, RangeInv, Stages
<1>7. CASE LoadImage \/ LoadFdt \/ LoadInitrd
  <2>1. CASE LoadFdt /\ shell.fdt \notin at.trees
    BY <1>0, <2>1 DEF LoadFdt, RangeInv, Stages
  <2>2. CASE ~(LoadFdt /\ shell.fdt \notin at.trees)
    <3>1. mem' \in [Addresses -> Files] /\ faults' \in 0 .. MaxFaults
      BY <1>7, <1>a, <2>2, LoadedFile DEF LoadImage, LoadFdt, LoadInitrd
    <3> QED
      BY <1>0, <1>7, <3>1 DEF LoadImage, LoadFdt, LoadInitrd, RangeInv, Stages
  <2> QED
    BY <2>1, <2>2
<1>8. CASE Booti
  <2>1. faults' \in 0 .. MaxFaults
    BY <1>8, BoundsAssumption DEF Booti, Fault, RangeInv
  <2> QED
    BY <1>0, <1>8, <2>1 DEF Booti, RangeInv, Stages
<1>9. CASE Retry
  BY <1>0, <1>9, BoundsAssumption DEF Retry, RangeInv, Stages
<1>10. CASE Reset
  <2>1. mem' \in [Addresses -> Files]
    BY <1>10, EmptyFile DEF Reset
  <2> QED
    BY <1>0, <1>10, <2>1, BoundsAssumption DEF Reset, RangeInv, Stages
<1>11. CASE UNCHANGED vars
  BY <1>0, <1>11 DEF vars, RangeInv
<1> QED
  BY <1>1, <1>2, <1>3, <1>4, <1>5, <1>6, <1>7, <1>8, <1>9, <1>10, <1>11 DEF Next, Program

(* The names, the partition and the arguments mmcargs leaves. *)
LEMMA ArgsOfHalf ==
  ASSUME Types, Clean(env, at.board), NEW scheme \in {"none", "files", "partitions"},
         NEW half \in Halves
  PROVE  LET w == WithBootargs(WithArgs(Decided(scheme, half), scheme, half)) IN
         /\ w.suffix = IF scheme = "files" THEN <<half>> ELSE <<>>
         /\ w.mmcpart = IF scheme = "partitions" /\ half = "b" THEN 2 ELSE 1
         /\ w.bootargs.db = IF scheme = "none" THEN NoArgs
                            ELSE [half |-> half, mode |-> scheme, force |-> w.force]
         /\ w.bootargs.root = w.mmcpart
         /\ w.loadaddr = Addr(at.board, "loadaddr")
         /\ scheme # "none" => w.active = half
<1> DEFINE d == Decided(scheme, half)
           a == WithArgs(d, scheme, half)
           w == WithBootargs(a)
<1>1. d \in EnvType /\ Clean(d, at.board) /\ (scheme # "none" => d.active = half)
  BY DEF Types, EnvType, Decided, Clean
<1> HIDE DEF d
<1>2. /\ a.suffix = IF scheme = "files" THEN <<half>> ELSE <<>>
      /\ a.mmcpart = IF scheme = "partitions" /\ half = "b" THEN 2 ELSE 1
      /\ a.dbargs = IF scheme = "none" THEN NoArgs
                    ELSE [half |-> half, mode |-> scheme, force |-> a.force]
      /\ a.loadaddr = Addr(at.board, "loadaddr") /\ DOMAIN a = DOMAIN d
      /\ scheme # "none" => a.active = half
  <2>1. CASE scheme = "none"
    BY <1>1, <2>1 DEF WithArgs, Clean
  <2>2. CASE scheme # "none"
    <3>1. Append(<<>>, half) = <<half>>
      OBVIOUS
    <3>2. d.suffix = <<>> /\ d.mmcpart = 1
      BY <1>1 DEF Clean
    <3> QED
      BY <1>1, <2>2, <3>1, <3>2 DEF WithArgs, Clean, EnvType
  <2> QED
    BY <2>1, <2>2
<1>3. "bootargs" \in DOMAIN a
  BY <1>1, <1>2 DEF EnvType
<1> HIDE DEF a
<1>4. /\ w.bootargs = [db |-> a.dbargs, root |-> a.mmcpart, secure |-> FALSE]
      /\ w.suffix = a.suffix /\ w.mmcpart = a.mmcpart /\ w.loadaddr = a.loadaddr
      /\ w.active = a.active /\ w.force = a.force
  BY <1>3 DEF WithBootargs
<1> HIDE DEF w
<1> QED
  BY <1>2, <1>4 DEF d, a, w

(* The piece of a half is the file of that half and partition. *)
LEMMA PieceIs ==
  ASSUME RangeInv, NEW base PROVE Piece(base) = <<base, Part, Suffix>>
  BY DEF RangeInv, Piece, Part, Suffix

LEMMA HalfStep ==
  ASSUME RangeInv, BootInv, BootInv', HalfInv, [Next]_vars PROVE HalfInv'
<1>0. SUFFICES ASSUME retries' = 0, retries = 0, ArgsInv, LoadedInv, OneHalf
               PROVE  ArgsInv' /\ LoadedInv' /\ OneHalf'
  <2>1. retries' = 0 => retries = 0
    <3>1. CASE Retry
      BY <3>1 DEF Retry, RangeInv
    <3>2. CASE ~Retry
      BY <3>2 DEF Next, Program, GeminiHwDetect, PxeBoot, PxeAttempt, Mmcargs, LoadFit, FitBoot,
         LoadImage, LoadFdt, LoadInitrd, Booti, Reset, vars
    <3> QED
      BY <3>1, <3>2
  <2> QED
    BY <2>1 DEF HalfInv
<1>1. at' = at /\ Types /\ at.board \in Boards
  BY SameSituation, SituationsAssumption DEF BootInv, RangeInv
<1>2. pc' # "kernel" \/ kernel'.source = "pxe" => OneHalf'
  BY DEF BootInv, KernelInv, OneHalf, Local
<1>3. CASE GeminiHwDetect \/ PxeBoot
  <2>1. pc' \in {"pxeboot", "evk", "mmcargs", "static"} /\ shell'.fdtSuffix = <<>>
    BY <1>0, <1>3 DEF GeminiHwDetect, PxeBoot, ArgsInv, Before
  <2> QED
    BY <1>2, <2>1 DEF ArgsInv, LoadedInv, AfterArgs
<1>4. CASE PxeAttempt
  <2>1. /\ pc \in Net \cup {"nocheck"} /\ UNCHANGED shell
        /\ pc' \in Net \cup {"mmcargs", "prompt", "kernel"}
        /\ pc = "nocheck" => pc' \in {"prompt", "kernel"}
        /\ pc' = "kernel" => kernel'.source = "pxe"
    BY <1>4 DEF PxeAttempt, PxeNext, PxeKernel, Net
  <2>2. pc' \in Before => shell'.fdtSuffix = <<>>
    BY <1>0, <2>1 DEF ArgsInv, Before, Net
  <2> QED
    BY <1>2, <2>1, <2>2 DEF ArgsInv, LoadedInv, AfterArgs, Net
<1>5. CASE Mmcargs
  <2>1. PICK scheme \in {DualScheme, "none"}, swap \in {U!DbSwapRequested, env.attempt} :
          /\ dual' = scheme
          /\ env' = WithBootargs(WithArgs(Decided(scheme, SelectHalf(swap)), scheme,
                                          SelectHalf(swap)))
          /\ shell' = IF scheme = "files"
                      THEN [shell EXCEPT !.fdtSuffix = Append(@, SelectHalf(swap))] ELSE shell
    BY <1>5 DEF Mmcargs
  <2> DEFINE half == SelectHalf(swap)
  <2>2. half \in Halves /\ scheme \in {"none", "files", "partitions"}
    BY SelectsHalf DEF DualScheme
  <2>3. Clean(env, at.board) /\ pc' = "loadfit" /\ shell.fdtSuffix = <<>>
    BY <1>0, <1>5 DEF Mmcargs, BootInv, EnvInv, ArgsInv, Before
  <2> HIDE DEF half
  <2>4. /\ env'.suffix = IF scheme = "files" THEN <<half>> ELSE <<>>
        /\ env'.mmcpart = IF scheme = "partitions" /\ half = "b" THEN 2 ELSE 1
        /\ env'.bootargs.db = IF scheme = "none" THEN NoArgs
                              ELSE [half |-> half, mode |-> scheme, force |-> env'.force]
        /\ env'.bootargs.root = env'.mmcpart
        /\ env'.loadaddr = Addr(at.board, "loadaddr")
        /\ scheme # "none" => env'.active = half
    BY <1>1, <2>1, <2>2, <2>3, ArgsOfHalf DEF half
  <2>5. shell'.fdtSuffix = IF scheme = "files" THEN <<half>> ELSE <<>>
    <3>1. Append(<<>>, half) = <<half>>
      OBVIOUS
    <3> QED
      BY <1>1, <2>1, <2>3, <3>1 DEF half, Types, ShellType
  <2>6. Suffix' = env'.suffix /\ Part' = env'.mmcpart /\ DbTold' = env'.bootargs.db
    BY <2>1, <2>2, <2>4 DEF Suffix, Part, DbTold
  <2>7. ArgsInv'
    BY <1>1, <2>1, <2>3, <2>4, <2>5, <2>6 DEF ArgsInv, Before, Net, Suffix
  <2> QED
    BY <1>2, <2>3, <2>7 DEF LoadedInv
<1>6. ASSUME LoadFit \/ FitBoot \/ LoadImage \/ LoadFdt \/ LoadInitrd \/ Booti
      PROVE  /\ pc \in AfterArgs /\ UNCHANGED <<shell, dual>>
             /\ env'.active = env.active /\ env'.force = env.force /\ env'.suffix = env.suffix
             /\ env'.mmcpart = env.mmcpart /\ env'.bootargs.db = env.bootargs.db
             /\ env'.bootargs.root = env.bootargs.root
             /\ Suffix' = Suffix /\ Part' = Part /\ DbTold' = DbTold
             /\ \A base : Piece(base)' = Piece(base)
             /\ \A base : Piece(base) = <<base, env.mmcpart, env.suffix>>
  <2>1. /\ pc \in AfterArgs /\ UNCHANGED <<shell, dual>>
    BY <1>6 DEF LoadFit, FitBoot, LoadImage, LoadFdt, LoadInitrd, Booti, AfterArgs
  <2>2. /\ env'.active = env.active /\ env'.force = env.force /\ env'.suffix = env.suffix
        /\ env'.mmcpart = env.mmcpart /\ env'.bootargs.db = env.bootargs.db
        /\ env'.bootargs.root = env.bootargs.root
    <3>1. CASE UNCHANGED env
      BY <3>1
    <3>2. CASE env' = [env EXCEPT !.bootargs.secure = TRUE]
      BY <1>1, <3>2 DEF Types, EnvType, BootArgs
    <3>3. CASE env' = [env EXCEPT !.loadaddr = Addr(at.board, "fitaddr")]
      BY <1>1, <3>3 DEF Types, EnvType
    <3> QED
      BY <1>6, <3>1, <3>2, <3>3 DEF LoadFit, FitBoot, LoadImage, LoadFdt, LoadInitrd, Booti
  <2>3. Suffix' = Suffix /\ Part' = Part /\ DbTold' = DbTold
    BY <2>1, <2>2 DEF Suffix, Part, DbTold
  <2>4. \A base : Piece(base) = <<base, env.mmcpart, env.suffix>>
    BY <1>0, <2>1, PieceIs DEF ArgsInv
  <2>5. \A base : Piece(base)' = Piece(base)
    BY <2>1, <2>2 DEF Piece
  <2> QED
    BY <2>1, <2>2, <2>3, <2>4, <2>5
<1>7. ASSUME LoadFit \/ LoadImage \/ LoadFdt \/ LoadInitrd
      PROVE  ArgsInv'
  <2>1. env'.loadaddr = env.loadaddr /\ pc' \notin Before
    <3>1. pc' \notin Before
      BY <1>7 DEF LoadFit, LoadImage, LoadFdt, LoadInitrd, Before, Net
    <3>2. CASE UNCHANGED env
      BY <3>1, <3>2
    <3>3. CASE env' = [env EXCEPT !.bootargs.secure = TRUE]
      BY <1>1, <3>1, <3>3 DEF Types, EnvType
    <3> QED
      BY <1>7, <3>2, <3>3 DEF LoadFit, LoadImage, LoadFdt, LoadInitrd
  <2> QED
    BY <1>0, <1>1, <1>6, <1>7, <2>1 DEF ArgsInv
<1>8. CASE LoadFit
  <2>1. CASE Loads("fit", env.suffix, Addr(at.board, "fitaddr")) /\ pc' = "fitboot"
    <3>1. At("fitaddr")' = <<"fit", env.mmcpart, env.suffix>>
      <4>1. Addr(at.board, "fitaddr") \in Addresses
        BY DEF Addresses
      <4> QED
        BY <1>1, <2>1, <4>1 DEF Loads, At, RangeInv
    <3> QED
      BY <1>2, <1>6, <1>7, <1>8, <2>1, <3>1 DEF LoadedInv
  <2>2. CASE pc' = "loadimage"
    BY <1>2, <1>7, <1>8, <2>2 DEF LoadedInv
  <2> QED
    BY <1>8, <2>1, <2>2 DEF LoadFit
<1>9. CASE FitBoot
  <2>1. pc = "fitboot" /\ pc' \in {"kernel", "prompt"}
    BY <1>9 DEF FitBoot
  <2>2. ArgsInv' /\ LoadedInv'
    BY <2>1 DEF ArgsInv, LoadedInv, Before, Net, AfterArgs
  <2>3. CASE pc' = "kernel"
    <3>1. /\ kernel'.source = "fit" /\ kernel'.image = At("fitaddr")
          /\ kernel'.args = env.bootargs
      BY <1>9, <2>3 DEF FitBoot, At
    <3>2. kernel'.image = Piece("fit")' /\ kernel'.image = <<"fit", Part, Suffix>>
      BY <1>0, <1>6, <1>9, <2>1, <3>1, PieceIs DEF LoadedInv
    <3>3. /\ kernel'.args.root = Part
          /\ kernel'.args.db = DbTold'
      BY <1>0, <1>6, <1>9, <3>1 DEF ArgsInv
    <3>4. kernel'.image[2] = Part
      BY <3>2
    <3> QED
      BY <2>2, <3>1, <3>2, <3>3, <3>4 DEF OneHalf, DbTold
  <2> QED
    BY <1>2, <2>1, <2>2, <2>3
<1>10. CASE LoadImage
  <2>1. CASE Loads("Image", env.suffix, env.loadaddr) /\ pc' = "loadfdt"
    <3>1. At("loadaddr")' = <<"Image", env.mmcpart, env.suffix>>
      <4>1. Addr(at.board, "loadaddr") \in Addresses
        BY DEF Addresses
      <4>2. env.loadaddr = Addr(at.board, "loadaddr")
        BY <1>0, <1>6, <1>10 DEF ArgsInv
      <4> QED
        BY <1>1, <2>1, <4>1, <4>2 DEF Loads, At, RangeInv
    <3> QED
      BY <1>2, <1>6, <1>7, <1>10, <2>1, <3>1 DEF LoadedInv
  <2>2. CASE pc' = "nocheck"
    BY <1>2, <1>7, <1>10, <2>2 DEF LoadedInv
  <2> QED
    BY <1>10, <2>1, <2>2 DEF LoadImage
<1>11. CASE LoadFdt
  <2>1. CASE Loads("fdt", shell.fdtSuffix, Addr(at.board, "fdt_addr_r")) /\ pc' = "loadinitrd"
    <3>1. shell.fdtSuffix = env.suffix /\ pc = "loadfdt"
      BY <1>0, <1>6, <1>11 DEF ArgsInv, LoadFdt
    <3>2. At("fdt_addr_r")' = <<"fdt", env.mmcpart, env.suffix>>
      <4>1. Addr(at.board, "fdt_addr_r") \in Addresses
        BY DEF Addresses
      <4> QED
        BY <1>1, <2>1, <3>1, <4>1 DEF Loads, At, RangeInv
    <3>3. At("loadaddr")' = At("loadaddr")
      <4>1. Addr(at.board, "loadaddr") # Addr(at.board, "fdt_addr_r")
        BY <1>1, LoadAddresses
      <4>2. Addr(at.board, "loadaddr") \in Addresses
        BY DEF Addresses
      <4> QED
        BY <1>1, <2>1, <4>1, <4>2 DEF Loads, At, RangeInv
    <3> QED
      BY <1>0, <1>2, <1>6, <1>7, <1>11, <2>1, <3>1, <3>2, <3>3 DEF LoadedInv
  <2>2. CASE pc' = "prompt"
    BY <1>2, <1>7, <1>11, <2>2 DEF LoadedInv
  <2> QED
    BY <1>11, <2>1, <2>2 DEF LoadFdt
<1>12. CASE LoadInitrd
  <2>0. pc = "loadinitrd" /\ pc' \in {"booti", "booti_bare"}
    BY <1>12 DEF LoadInitrd
  <2>1. CASE Loads("initrd", env.suffix, Addr(at.board, "initrd_addr")) /\ pc' = "booti"
    <3>1. At("initrd_addr")' = <<"initrd", env.mmcpart, env.suffix>>
      <4>1. Addr(at.board, "initrd_addr") \in Addresses
        BY DEF Addresses
      <4> QED
        BY <1>1, <2>1, <4>1 DEF Loads, At, RangeInv
    <3>2. At("loadaddr")' = At("loadaddr") /\ At("fdt_addr_r")' = At("fdt_addr_r")
      <4>1. /\ Addr(at.board, "loadaddr") # Addr(at.board, "initrd_addr")
            /\ Addr(at.board, "fdt_addr_r") # Addr(at.board, "initrd_addr")
        BY <1>1, LoadAddresses
      <4>2. Addr(at.board, "loadaddr") \in Addresses /\ Addr(at.board, "fdt_addr_r") \in Addresses
        BY DEF Addresses
      <4> QED
        BY <1>1, <2>1, <4>1, <4>2 DEF Loads, At, RangeInv
    <3> QED
      BY <1>0, <1>2, <1>6, <1>7, <1>12, <2>0, <2>1, <3>1, <3>2 DEF LoadedInv
  <2>2. CASE UNCHANGED mem /\ pc' = "booti_bare"
    <3>1. At("loadaddr")' = At("loadaddr") /\ At("fdt_addr_r")' = At("fdt_addr_r")
      BY <1>1, <2>2 DEF At
    <3> QED
      BY <1>0, <1>2, <1>6, <1>7, <1>12, <2>0, <2>2, <3>1 DEF LoadedInv
  <2> QED
    BY <1>12, <2>1, <2>2 DEF LoadInitrd, Misses
<1>13. CASE Booti
  <2>1. pc \in {"booti", "booti_bare"} /\ pc' \in {"kernel", "prompt"} /\ UNCHANGED env
    BY <1>13 DEF Booti
  <2>2. ArgsInv' /\ LoadedInv'
    BY <2>1 DEF ArgsInv, LoadedInv, Before, Net, AfterArgs
  <2>3. CASE pc' = "kernel"
    <3>1. /\ kernel'.source = "image" /\ kernel'.image = At("loadaddr")
          /\ kernel'.fdt = At("fdt_addr_r")
          /\ kernel'.initrd = IF pc = "booti" THEN At("initrd_addr") ELSE Empty
          /\ kernel'.args = env.bootargs
      <4>1. env.loadaddr = Addr(at.board, "loadaddr")
        BY <1>0, <2>1 DEF ArgsInv, AfterArgs
      <4> QED
        BY <1>13, <2>3, <4>1 DEF Booti, At
    <3>2. /\ kernel'.image = Piece("Image")' /\ kernel'.fdt = Piece("fdt")'
          /\ kernel'.initrd \in {Piece("initrd")', Empty}
          /\ kernel'.image = <<"Image", Part, Suffix>>
      BY <1>0, <1>6, <1>13, <2>1, <3>1, PieceIs DEF LoadedInv
    <3>3. kernel'.args.root = Part /\ kernel'.args.db = DbTold'
      BY <1>0, <1>6, <1>13, <2>1, <3>1 DEF ArgsInv, AfterArgs
    <3>4. kernel'.image[2] = Part
      BY <3>2
    <3> QED
      BY <2>2, <3>1, <3>2, <3>3, <3>4 DEF OneHalf, DbTold
  <2>4. CASE pc' = "prompt"
    BY <2>2, <2>4 DEF BootInv, KernelInv, OneHalf, Local
  <2> QED
    BY <2>1, <2>3, <2>4
<1>14. CASE Retry
  BY <1>0, <1>14 DEF Retry
<1>15. CASE Reset
  <2>1. pc' = "detect" /\ shell'.fdtSuffix = <<>>
    BY <1>15 DEF Reset, NoShell
  <2> QED
    BY <1>2, <2>1 DEF ArgsInv, LoadedInv, AfterArgs
<1>16. CASE UNCHANGED vars
  <2>1. UNCHANGED <<Suffix, Part, DbTold>> /\ (\A base : Piece(base)' = Piece(base))
        /\ (\A name : At(name)' = At(name)) /\ (OneHalf' <=> OneHalf)
    BY <1>1, <1>16 DEF vars, Suffix, Part, DbTold, Piece, At, OneHalf, Local
  <2> QED
    BY <1>0, <1>16, <2>1 DEF vars, ArgsInv, LoadedInv
<1> QED
  BY <1>3, <1>4, <1>5, <1>8, <1>9, <1>10, <1>11, <1>12, <1>13, <1>14, <1>15, <1>16 DEF Next, Program

LEMMA FilesAlways == Spec => [](BootInv /\ RangeInv /\ HalfInv)
<1>1. Init => RangeInv /\ HalfInv
  <2> SUFFICES ASSUME Init PROVE RangeInv /\ HalfInv
    OBVIOUS
  <2>1. mem \in [Addresses -> Files]
    BY EmptyFile DEF Init
  <2>2. RangeInv
    BY <2>1, BoundsAssumption DEF Init, RangeInv, Stages
  <2>3. shell.fdtSuffix = <<>>
    BY DEF Init, NoShell
  <2>4. pc = "detect" /\ kernel.source = "none"
    BY DEF Init, NoKernel
  <2> QED
    BY <2>2, <2>3, <2>4 DEF HalfInv, ArgsInv, LoadedInv, OneHalf, Local, AfterArgs
<1>2. BootInv /\ BootInv' /\ RangeInv /\ HalfInv /\ [Next]_vars => RangeInv' /\ HalfInv'
  <2> SUFFICES ASSUME BootInv, BootInv', RangeInv, HalfInv, [Next]_vars
               PROVE  RangeInv' /\ HalfInv'
    OBVIOUS
  <2>1. RangeInv'
    BY RangeStep DEF BootInv
  <2> QED
    BY <2>1, HalfStep
<1> QED
  BY <1>1, <1>2, BootAlways, PTL DEF Spec

(* Type correctness; and the scripts that run are the ones of gemini_env.h,  *)
(* which every board's default environment defines last.                     *)
THEOREM BootTypes == Spec => []TypeOK
<1>1. BootInv /\ RangeInv => TypeOK
  <2> SUFFICES ASSUME BootInv, RangeInv PROVE TypeOK
    OBVIOUS
  <2>1. env \in EnvType /\ saved \in EnvType /\ at.force \in BOOLEAN
    BY SituationsAssumption DEF BootInv, Types, RangeInv
  <2>2. env.bootargs \in Args
    BY <2>1 DEF EnvType, BootArgs, DbArgs, Args
  <2>3. env.loadaddr \in Addresses
    BY <2>1 DEF EnvType, Addresses
  <2> QED
    BY <2>1, <2>2, <2>3 DEF TypeOK, RangeInv, EnvType
<1> QED
  BY <1>1, FilesAlways, PTL

(* All of a kernel of the MMC is of one half (mmcargs, loadfit, loadimage,   *)
(* loadfdt, mmcboot): image, device tree and ramdisk are its files, none has *)
(* overwritten another in memory, and the arguments name it.                 *)
THEOREM KernelOfOneHalf == Spec => []OneHalf
<1>1. HalfInv => OneHalf
  BY DEF HalfInv, OneHalf
<1> QED
  BY <1>1, FilesAlways, PTL

(* When the reads succeed, mmcargs on a dual device takes the decision that  *)
(* the model of the two halves takes.                                        *)
THEOREM MmcargsIsTheDecision == Spec => DecisionIsMmcargs
<1>1. ASSUME BootInv, [Next]_vars, pc = "mmcargs", pc' = "loadfit", dual' # "none",
             faults' = faults
      PROVE  U!Mmcargs
  <2>1. Mmcargs
    BY <1>1 DEF Next, Program, GeminiHwDetect, PxeBoot, PxeAttempt, LoadFit, FitBoot,
       LoadImage, LoadFdt, LoadInitrd, Booti, Retry, Reset, vars
  <2>2. Types /\ faults \in Nat
    BY <1>1 DEF BootInv, Types
  <2> DEFINE half == SelectHalf(U!DbSwapRequested)
  <2>3. PICK scheme \in {"files", "partitions"} :
          env' = WithBootargs(WithArgs(Decided(scheme, half), scheme, half))
    <3>1. PICK scheme \in {DualScheme, "none"}, swap \in {U!DbSwapRequested, env.attempt},
               save \in BOOLEAN :
            /\ IF scheme = DualScheme /\ swap = U!DbSwapRequested /\ save
               THEN UNCHANGED faults ELSE Fault
            /\ dual' = scheme
            /\ env' = WithBootargs(WithArgs(Decided(scheme, SelectHalf(swap)), scheme,
                                            SelectHalf(swap)))
      BY <2>1 DEF Mmcargs
    <3>2. ~Fault
      BY <1>1, <2>2 DEF Fault
    <3>3. swap = U!DbSwapRequested /\ scheme # "none" /\ scheme = DualScheme
      BY <1>1, <3>1, <3>2
    <3>4. scheme \in {"files", "partitions"}
      BY <3>3 DEF DualScheme
    <3> QED
      BY <3>1, <3>3, <3>4
  <2>4. half = U!Selected /\ half \in Halves
    BY SelectsHalf DEF SelectHalf, U!Selected
  <2> HIDE DEF half
  <2> DEFINE d == Decided(scheme, half)
             a == WithArgs(d, scheme, half)
  <2>5. d \in EnvType /\ d.active = half /\ d.last = half /\ d.attempt = env.attempt
        /\ d.force = env.force
    BY <2>2, <2>3, <2>4 DEF Types, EnvType, Decided
  <2> HIDE DEF d
  <2>6. /\ a.active = half /\ a.last = half /\ a.attempt = env.attempt /\ a.force = env.force
        /\ a.dbargs = [half |-> half, mode |-> scheme, force |-> env.force]
        /\ DOMAIN a = DOMAIN d
    BY <2>3, <2>5 DEF WithArgs, EnvType
  <2> HIDE DEF a
  <2>7. /\ env'.active = half /\ env'.last = half /\ env'.attempt = env.attempt
        /\ env'.force = env.force /\ env'.dbargs.half = half /\ env'.dbargs.force = env.force
    <3>1. env' = WithBootargs(a)
      BY <2>3 DEF a, d
    <3> QED
      BY <2>6, <3>1 DEF WithBootargs
  <2>8. ids' = ids
    BY <2>1 DEF Mmcargs
  <2> DEFINE from == [attempt |-> env.attempt, active |-> env.active, last |-> env.last,
                      force |-> env.force]
             to == [attempt |-> env.attempt, active |-> env.active, last |-> env.last,
                    force |-> env.force]'
  <2>9. to = [from EXCEPT !.active = half, !.last = half]
    <3> DEFINE u == [from EXCEPT !.active = half, !.last = half]
    <3>1. DOMAIN u = {"attempt", "active", "last", "force"} /\ u = [f \in DOMAIN u |-> u[f]]
      OBVIOUS
    <3>2. DOMAIN to = {"attempt", "active", "last", "force"} /\ to = [f \in DOMAIN to |-> to[f]]
      OBVIOUS
    <3>3. u.attempt = env.attempt /\ u.active = half /\ u.last = half /\ u.force = env.force
      OBVIOUS
    <3>4. to.attempt = env.attempt /\ to.active = half /\ to.last = half /\ to.force = env.force
      BY <2>7
    <3> HIDE DEF u, to
    <3>5. u = to
      BY <3>1, <3>2, <3>3, <3>4
    <3> QED
      BY <3>5 DEF u
  <2>10. [half |-> env.dbargs.half, force |-> env.dbargs.force]'
           = [half |-> half, force |-> from.force]
    BY <2>7
  <2> QED
    BY <1>1, <2>4, <2>8, <2>9, <2>10 DEF U!Mmcargs
<1>2. BootInv /\ [Next]_vars =>
        [pc = "mmcargs" /\ pc' = "loadfit" /\ dual' # "none" /\ faults' = faults => U!Mmcargs]_vars
  BY <1>1
<1> QED
  BY <1>2, BootAlways, PTL DEF Spec, DecisionIsMmcargs

------------------------------------------------------------------------------
(* The prompt *)

(* The device tree of the board. *)
ExpectedTree ==
  IF at.forcedId # Unset THEN at.forcedId
  ELSE IF at.boardid # Unset THEN at.boardid ELSE "fdtfile"

(* A file with this suffix is in this partition unless it is missing. *)
InPlace ==
  \A base \in {"fit", "Image", "fdt"} : base \notin at.missing => Exists(base, env.mmcpart, env.suffix)

NoForcedTree == at.forcedId # Unset /\ at.forcedId \notin at.trees

(* As long as every read of a file that is there succeeds, a file that was   *)
(* not loaded is missing.                                                    *)
CauseInv ==
  retries = 0 /\ faults = 0 =>
    /\ pc # "detect" => shell.fdt = ExpectedTree
    /\ pc \in AfterArgs \cup {"nocheck"} => InPlace \/ {"fit", "Image"} \subseteq at.missing
    /\ pc \in AfterArgs \cup {"nocheck"} /\ pc \notin {"loadfit", "fitboot"} =>
         "fit" \in at.missing
    /\ pc = "nocheck" => "Image" \in at.missing
    /\ PromptHasCause

(* The image has the default tree and configuration, and the detected board's. *)
TreesComplete ==
  \A s \in Situations :
    {"fdtfile", "conf-default"} \subseteq s.trees /\ (s.boardid # Unset => s.boardid \in s.trees)

LEMMA MissedIsMissing ==
  ASSUME RangeInv, faults' = 0, NEW base \in {"fit", "Image", "fdt"}, InPlace \/ base \in at.missing,
         Misses(base, env.suffix)
  PROVE  base \in at.missing
  BY DEF InPlace, Misses, Fault, RangeInv

LEMMA PlacesOfScheme ==
  ASSUME RangeInv', at' = at, ArgsInv', pc' = "loadfit", env'.active \in Halves \cup {Unset},
         dual' # "none" => env'.active \in Halves,
         dual' = DualScheme
  PROVE  (InPlace \/ {"fit", "Image"} \subseteq at.missing)'
<1>1. /\ env'.mmcpart = IF dual' = "partitions" /\ env'.active = "b" THEN 2 ELSE 1
      /\ env'.suffix = IF dual' = "files" THEN <<env'.active>> ELSE <<>>
  BY DEF ArgsInv, AfterArgs, Part, Suffix
<1>2. at.layout \in {"single", "files", "partitions"}
  BY SituationsAssumption DEF RangeInv
<1>3. CASE at.layout = "single"
  <2>1. dual' = "none"
    BY <1>3 DEF DualScheme
  <2> QED
    BY <1>1, <1>3, <2>1 DEF InPlace, Exists
<1>4. CASE at.layout = "partitions"
  <2>1. dual' = "partitions"
    BY <1>4 DEF DualScheme
  <2> QED
    BY <1>1, <1>4, <2>1 DEF InPlace, Exists
<1>5. CASE at.layout = "files"
  <2>1. CASE dual' = "files"
    BY <1>1, <1>5, <2>1 DEF InPlace, Exists
  <2>2. CASE dual' # "files"
    <3>1. "fit" \in at.missing /\ "Image" \in at.missing
      BY <1>5, <2>2, SchemeFound
    <3> QED
      BY <3>1
  <2> QED
    BY <2>1, <2>2
<1> QED
  BY <1>2, <1>3, <1>4, <1>5

LEMMA CauseStep ==
  ASSUME TreesComplete, RangeInv, RangeInv', BootInv, HalfInv, HalfInv', CauseInv, [Next]_vars
  PROVE  CauseInv'
<1>1. /\ at' = at /\ ExpectedTree' = ExpectedTree /\ Types /\ retries' \in Nat /\ faults' \in Nat
      /\ retries \in Nat /\ faults \in Nat /\ at \in Situations
  BY SameSituation, BoundsAssumption DEF BootInv, RangeInv, ExpectedTree
<1>2. SUFFICES ASSUME retries' = 0, faults' = 0, retries = 0, faults = 0 PROVE CauseInv'
  <2>1. retries' = 0 /\ faults' = 0 => retries = 0 /\ faults = 0
    BY <1>1 DEF Next, Program, GeminiHwDetect, PxeBoot, PxeAttempt, Mmcargs, LoadFit, FitBoot,
       LoadImage, LoadFdt, LoadInitrd, Booti, Retry, Reset, vars, Loads, Misses, Fault,
       FoundEnabled
  <2> QED
    BY <2>1 DEF CauseInv
<1>3. ~Fault
  BY <1>1, <1>2 DEF Fault
<1>4. CASE GeminiHwDetect
  <2>1. pc' \in {"pxeboot", "evk"} /\ shell'.fdt = ExpectedTree
    <3>1. env.forcedId = at.forcedId
      BY <1>1 DEF Types, EnvType
    <3> QED
      BY <1>4, <3>1 DEF GeminiHwDetect, ExpectedTree
  <2> QED
    BY <1>1, <2>1 DEF CauseInv, PromptHasCause, AfterArgs
<1>5. CASE PxeBoot
  BY <1>1, <1>2, <1>5 DEF PxeBoot, CauseInv, PromptHasCause, AfterArgs
<1>6. CASE PxeAttempt
  <2>1. /\ pc \in Net \cup {"nocheck"} /\ UNCHANGED shell
        /\ pc' \in Net \cup {"mmcargs", "prompt", "kernel"}
        /\ pc' = "prompt" => pc = "nocheck"
    BY <1>6 DEF PxeAttempt, PxeNext, Net
  <2>2. pc' = "prompt" => "fit" \in at.missing /\ "Image" \in at.missing
    BY <1>2, <2>1 DEF CauseInv
  <2> QED
    BY <1>1, <1>2, <2>1, <2>2 DEF CauseInv, PromptHasCause, AfterArgs, Net
<1>7. CASE Mmcargs
  <2>1. /\ dual' = DualScheme /\ pc = "mmcargs" /\ pc' = "loadfit" /\ shell'.fdt = shell.fdt
        /\ env'.active \in Halves \cup {Unset} /\ (dual' # "none" => env'.active \in Halves)
    <3>1. PICK swap \in {U!DbSwapRequested, env.attempt} :
            /\ dual' = DualScheme
            /\ env' = WithBootargs(WithArgs(Decided(DualScheme, SelectHalf(swap)), DualScheme,
                                            SelectHalf(swap)))
            /\ shell' = IF DualScheme = "files"
                        THEN [shell EXCEPT !.fdtSuffix = Append(@, SelectHalf(swap))] ELSE shell
      <4>1. PICK scheme \in {DualScheme, "none"}, swap \in {U!DbSwapRequested, env.attempt},
                 save \in BOOLEAN :
              /\ IF scheme = DualScheme /\ swap = U!DbSwapRequested /\ save
                 THEN UNCHANGED faults ELSE Fault
              /\ dual' = scheme
              /\ env' = WithBootargs(WithArgs(Decided(scheme, SelectHalf(swap)), scheme,
                                              SelectHalf(swap)))
              /\ shell' = IF scheme = "files"
                          THEN [shell EXCEPT !.fdtSuffix = Append(@, SelectHalf(swap))] ELSE shell
        BY <1>7 DEF Mmcargs
      <4> QED
        BY <1>3, <4>1
    <3> DEFINE half == SelectHalf(swap)
    <3>2. half \in Halves /\ DualScheme \in {"none", "files", "partitions"}
      BY SelectsHalf DEF DualScheme
    <3> HIDE DEF half
    <3>3. Clean(env, at.board) /\ pc = "mmcargs" /\ pc' = "loadfit"
      BY <1>2, <1>7 DEF Mmcargs, BootInv, EnvInv, Before
    <3>4. env' \in EnvType /\ (DualScheme # "none" => env'.active = half)
      BY <1>1, <3>1, <3>2, <3>3, ArgsOfHalf, MmcargsEnv DEF half
    <3>5. shell'.fdt = shell.fdt
      BY <3>1
    <3> QED
      BY <3>1, <3>2, <3>3, <3>4, <3>5 DEF EnvType
  <2>2. (InPlace \/ {"fit", "Image"} \subseteq at.missing)'
    BY <1>1, <1>2, <2>1, PlacesOfScheme DEF HalfInv
  <2> QED
    BY <1>1, <1>2, <2>1, <2>2 DEF CauseInv, PromptHasCause, AfterArgs
<1>8. ASSUME LoadFit \/ FitBoot \/ LoadImage \/ LoadFdt \/ LoadInitrd \/ Booti
      PROVE  /\ UNCHANGED shell /\ pc \in AfterArgs
             /\ (InPlace \/ {"fit", "Image"} \subseteq at.missing)
             /\ (InPlace \/ {"fit", "Image"} \subseteq at.missing)'
  <2>1. UNCHANGED shell /\ pc \in AfterArgs
    BY <1>8 DEF LoadFit, FitBoot, LoadImage, LoadFdt, LoadInitrd, Booti, AfterArgs
  <2>2. env'.suffix = env.suffix /\ env'.mmcpart = env.mmcpart
    <3>1. CASE UNCHANGED env
      BY <3>1
    <3>2. CASE env' = [env EXCEPT !.bootargs.secure = TRUE]
      BY <1>1, <3>2 DEF Types, EnvType
    <3>3. CASE env' = [env EXCEPT !.loadaddr = Addr(at.board, "fitaddr")]
      BY <1>1, <3>3 DEF Types, EnvType
    <3> QED
      BY <1>8, <3>1, <3>2, <3>3 DEF LoadFit, FitBoot, LoadImage, LoadFdt, LoadInitrd, Booti
  <2>3. InPlace' <=> InPlace
    BY <1>1, <2>2 DEF InPlace, Exists
  <2> QED
    BY <1>1, <1>2, <2>1, <2>3 DEF CauseInv
<1>9. CASE LoadFit
  <2>1. pc' = "loadimage" => "fit" \in at.missing
    BY <1>2, <1>8, <1>9, MissedIsMissing DEF LoadFit
  <2> QED
    BY <1>1, <1>2, <1>8, <1>9, <2>1 DEF LoadFit, CauseInv, PromptHasCause, AfterArgs
<1>10. CASE FitBoot
  <2>1. pc = "fitboot" /\ pc' \in {"kernel", "prompt"} /\ (pc' = "prompt" => FitConf \notin at.trees)
    BY <1>3, <1>10 DEF FitBoot
  <2>2. FitConf = Expected
    BY <2>1 DEF FitConf, BootInv, ConfInv, Net
  <2>3. pc' = "prompt" => NoForcedTree
    BY <1>1, <2>1, <2>2 DEF Expected, NoForcedTree, TreesComplete
  <2> QED
    BY <1>1, <1>2, <1>8, <1>10, <2>1, <2>3 DEF CauseInv, PromptHasCause, AfterArgs, NoForcedTree
<1>11. CASE LoadImage
  <2>1. pc = "loadimage" /\ pc' \in {"loadfdt", "nocheck"} /\ "fit" \in at.missing
    BY <1>2, <1>11 DEF LoadImage, CauseInv, AfterArgs
  <2>2. pc' = "nocheck" => "Image" \in at.missing
    BY <1>2, <1>8, <1>11, MissedIsMissing DEF LoadImage
  <2> QED
    BY <1>1, <1>2, <1>8, <1>11, <2>1, <2>2 DEF CauseInv, PromptHasCause, AfterArgs
<1>12. CASE LoadFdt
  <2>1. pc = "loadfdt" /\ pc' \in {"loadinitrd", "prompt"} /\ "fit" \in at.missing
        /\ shell.fdt = ExpectedTree
    BY <1>2, <1>12 DEF LoadFdt, CauseInv, AfterArgs
  <2>2. pc' = "prompt" => NoForcedTree \/ at.missing \cap {"Image", "fdt"} # {}
    <3>1. ASSUME pc' = "prompt", shell.fdt \notin at.trees PROVE NoForcedTree
      BY <1>1, <2>1, <3>1 DEF ExpectedTree, NoForcedTree, TreesComplete
    <3>2. ASSUME pc' = "prompt", shell.fdt \in at.trees PROVE at.missing \cap {"Image", "fdt"} # {}
      <4>1. shell.fdtSuffix = env.suffix
        BY <1>2, <1>8, <1>12 DEF HalfInv, ArgsInv
      <4>2. Misses("fdt", env.suffix)
        BY <1>12, <3>2, <4>1 DEF LoadFdt
      <4>3. "Image" \in at.missing \/ "fdt" \in at.missing
        BY <1>2, <1>8, <1>12, <4>2, MissedIsMissing
      <4> QED
        BY <4>3
    <3> QED
      BY <3>1, <3>2
  <2> QED
    BY <1>1, <1>2, <1>8, <1>12, <2>1, <2>2 DEF CauseInv, PromptHasCause, AfterArgs, NoForcedTree
<1>13. CASE LoadInitrd \/ Booti
  <2>1. /\ pc \in {"loadinitrd", "booti", "booti_bare"}
        /\ pc' \in {"booti", "booti_bare", "kernel"}
    BY <1>3, <1>13 DEF LoadInitrd, Booti
  <2> QED
    BY <1>1, <1>2, <1>8, <1>13, <2>1 DEF CauseInv, PromptHasCause, AfterArgs
<1>14. CASE Retry
  BY <1>1, <1>2, <1>14 DEF Retry
<1>15. CASE Reset
  BY <1>15 DEF Reset, CauseInv, PromptHasCause, AfterArgs
<1>16. CASE UNCHANGED vars
  <2>1. InPlace' <=> InPlace
    BY <1>1, <1>16 DEF vars, InPlace, Exists
  <2> QED
    BY <1>1, <1>2, <1>16, <2>1 DEF vars, CauseInv, PromptHasCause
<1> QED
  BY <1>4, <1>5, <1>6, <1>7, <1>9, <1>10, <1>11, <1>12, <1>13, <1>14, <1>15, <1>16
     DEF Next, Program

(* The boot command ends at the prompt only when a read failed, a file is    *)
(* missing or the forced board is unknown (mmcboot, loadfdt, bootm), in an   *)
(* image that has the default device tree and the one of the board.          *)
THEOREM PromptIsExplained ==
  ASSUME TreesComplete
  PROVE  Spec => []PromptHasCause
<1>1. Init => CauseInv
  BY DEF Init, CauseInv, PromptHasCause, AfterArgs
<1>2. /\ BootInv /\ RangeInv /\ HalfInv /\ (BootInv /\ RangeInv /\ HalfInv)' /\ CauseInv
      /\ [Next]_vars
      => CauseInv'
  BY CauseStep
<1>3. CauseInv => PromptHasCause
  BY DEF CauseInv, PromptHasCause
<1> QED
  BY <1>1, <1>2, <1>3, FilesAlways, PTL DEF Spec
==============================================================================
