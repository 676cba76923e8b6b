------------------------------- MODULE MCDual -------------------------------
(* Small systems: a kernel and a root file system in the boot folder, an    *)
(* application in the data folder, three versions of each.                  *)
EXTENDS DualProps

CONSTANTS kernel, rootfs, app, v1, v2, v3

MCPackages ==
  {[n \in Names |-> v2], [n \in Names |-> IF n = kernel THEN v2 ELSE NoFile]}
==============================================================================
