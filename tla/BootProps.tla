------------------------------- MODULE BootProps ------------------------------
(***************************************************************************)
(* What the boot command promises.                                         *)
(***************************************************************************)
EXTENDS BootCommand

Files == {"fit", "Image", "fdt", "initrd", "nothing", "net"} \X {0, 1, 2} \X Seq(Halves)
Args == [db : [half : Halves \cup {Unset}, mode : {"files", "partitions", Unset},
               force : BOOLEAN],
         root : {0, 1, 2}, secure : BOOLEAN]
Stages == {"detect", "pxeboot", "static", "mixed", "dhcp", "nocheck", "mmcargs", "loadfit",
           "fitboot", "loadimage", "loadfdt", "loadinitrd", "booti", "booti_bare", "kernel",
           "prompt"}

(* Every variable holds values of its kind; the scripts that run are always  *)
(* the ones of gemini_env.h, never the evaluation kit's of the same names.   *)
TypeOK ==
  /\ pc \in Stages
  /\ saved.active \in Halves \cup {Unset} /\ saved.last \in Halves \cup {Unset}
  /\ env.active \in Halves \cup {Unset} /\ env.last \in Halves \cup {Unset}
  /\ env.mmcpart \in {1, 2} /\ env.bootargs \in Args
  /\ env.loadaddr \in Addresses
  /\ mem \in [Addresses -> Files]
  /\ dual \in {"none", "files", "partitions"}
  /\ boots \in 1 .. MaxBoots /\ retries \in 0 .. MaxRetries /\ faults \in 0 .. MaxFaults

Local == kernel.source \in {"fit", "image"}

(* The file a kernel of this half is made of. *)
Piece(base) ==
  CASE dual = "none"       -> <<base, 1, <<>>>>
    [] dual = "files"      -> <<base, 1, <<env.active>>>>
    [] dual = "partitions" -> <<base, IF env.active = "b" THEN 2 ELSE 1, <<>>>>

(* All of a local kernel comes from one half: image, device tree and ramdisk *)
(* are the files of that half, no load has overwritten another, and the      *)
(* arguments name that half and its partition.                               *)
OneHalf ==
  Local /\ retries = 0 =>
    /\ kernel.image = Piece(IF kernel.source = "fit" THEN "fit" ELSE "Image")
    /\ kernel.source = "image" =>
         kernel.fdt = Piece("fdt") /\ kernel.initrd \in {Piece("initrd"), Empty}
    /\ kernel.args.root = kernel.image[2]
    /\ kernel.args.db = IF dual = "none" THEN NoArgs
                        ELSE [half |-> env.active, mode |-> dual, force |-> env.force]

(* The half a kernel of a dual device is told it is on is the half that is   *)
(* saved, as active and as last: the next boot can find out that this one    *)
(* was not a success.                                                        *)
DecisionSaved ==
  Local /\ at.layout # "single" /\ faults = 0 =>
    /\ kernel.args.db.mode = at.layout
    /\ saved.active = kernel.args.db.half /\ saved.last = kernel.args.db.half

(* Of what mmcargs and the scripts after it set for this boot nothing gets   *)
(* into the saved environment: the half suffixes, the partition, arguments,  *)
(* loadaddr and gemini_fit_conf are set after saveenv or unset before it.    *)
(* (Giving the boot command again at the prompt saves those of the first.)   *)
SavedClean ==
  retries = 0 =>
    \A f \in DOMAIN FreshEnv \ {"active", "last", "attempt"} : saved[f] = FreshEnv[f]

(* A kernel gets secure-boot exactly if it came out of a FIT image; one from *)
(* the network can only inherit it from a FIT image that did not boot before *)
(* the command was given again.                                              *)
SecureFromFit ==
  /\ Local => (kernel.args.secure <=> kernel.source = "fit")
  /\ kernel.source = "pxe" /\ kernel.args.secure => retries > 0

(* What the environment disables stays disabled, and what a mark disables as *)
(* long as marks can be read: PXE as a whole, and each of its methods. Only  *)
(* pxeboot_nocheck asks nobody, and it runs only where the MMC has neither a *)
(* FIT image nor a kernel that can be read.                                  *)
PxeDisabledHonoured ==
  kernel.source = "pxe" =>
    IF kernel.method = "nocheck"
    THEN faults = 0 => ~Exists("fit", env.mmcpart, env.suffix)
                       /\ ~Exists("Image", env.mmcpart, env.suffix)
    ELSE /\ {"pxe", kernel.method} \cap env.off = {}
         /\ faults = 0 => {"pxe", kernel.method} \cap at.marks = {}

(* The configuration asked of a FIT image, from the MMC or from a server, is *)
(* the one of the forced board, else of the detected one, else the default,  *)
(* with the one exception of pxeboot_nocheck, which asks for none.           *)
ConfOfBoard ==
  kernel.source = "fit" \/ kernel.source = "pxe" =>
    kernel.conf =
      IF kernel.source = "pxe" /\ kernel.method = "nocheck" THEN Unset
      ELSE IF at.forcedId # Unset THEN at.forcedId
      ELSE IF at.boardid # Unset THEN at.boardid ELSE "conf-default"

(* The boot command ends at the prompt only for a reason: a read that failed, *)
(* a kernel that returned, a missing file, or a forced board this image knows *)
(* nothing of.                                                               *)
PromptHasCause ==
  pc = "prompt" /\ retries = 0 /\ faults = 0 =>
    \/ at.forcedId # Unset /\ at.forcedId \notin at.trees
    \/ "fit" \in at.missing /\ at.missing \cap {"Image", "fdt"} # {}

(* On a dual device, when the reads succeed, mmcargs does the step that the  *)
(* model of the two halves has for it (UBootEnv).                            *)
DecisionIsMmcargs ==
  [][pc = "mmcargs" /\ pc' = "loadfit" /\ dual' # "none" /\ faults' = faults => U!Mmcargs]_vars
==============================================================================
