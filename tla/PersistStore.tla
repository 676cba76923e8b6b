---------------------------- MODULE PersistStore ----------------------------
(***************************************************************************)
(* What survives in the data partition of a device: the flag files of       *)
(* /data/.sys, the partition and its file system, and persist.bin, the file *)
(* that holds the persistent layer of the root file system.  The layer is   *)
(* read through the page cache: "durable" is what has reached the disk.     *)
(***************************************************************************)
EXTENDS Naturals, FiniteSets

CONSTANTS
  ShippedSize,  \* size of the data partition in the image
  DiskSize,     \* its size once it takes the whole disk
  MaxEdits      \* bound: changes the applications make to a configuration file

ASSUME SizeAssumption ==
  ShippedSize \in Nat /\ DiskSize \in Nat /\ ShippedSize <= DiskSize /\ MaxEdits \in Nat

VARIABLES
  flags,      \* the flag files of /data/.sys
  part, fsys, \* sizes of the data partition and of its file system
  bin,        \* persist.bin
  layer,      \* the file system in persist.bin, as it is read
  durable,    \* and as it is on the disk
  pc          \* where the device is: off, in a step of /init, or up

store == <<flags, part, fsys, bin, layer, durable>>

Flags == {"firstinit.pending", "persist.autofix", "overlayroot.disabled",
          "datagrow.disabled", "earlyshell.requested", "securefs.skip"}

(* A root file system: the keys of the first initialization, and a file that *)
(* the applications change.                                                  *)
Layers == [keys : BOOLEAN, conf : 0 .. MaxEdits]
EmptyLayer == [keys |-> FALSE, conf |-> 0]

(* persist.bin: absent, without a file system that mounts, or good.          *)
Bins == {"none", "raw", "good"}

(* What may be read after a power failure: each file is the cached one or    *)
(* the one on the disk.                                                      *)
AfterPowerFailure ==
  {l \in Layers : l.keys \in {layer.keys, durable.keys} /\ l.conf \in {layer.conf, durable.conf}}

Sync == durable' = layer /\ UNCHANGED layer

StoreTypeOK ==
  /\ flags \subseteq Flags
  /\ part \in Nat /\ fsys \in Nat
  /\ bin \in Bins /\ layer \in Layers /\ durable \in Layers

(* A shipped card: no persist.bin, a small partition, any choice of flags.   *)
StoreInit ==
  /\ flags \in SUBSET (Flags \ {"firstinit.pending"})
  /\ part = ShippedSize /\ fsys = ShippedSize
  /\ bin = "none" /\ layer = EmptyLayer /\ durable = EmptyLayer
==============================================================================
