-------------------------------- MODULE BootEnv -------------------------------
(***************************************************************************)
(* The default environment of the boards: CFG_EXTRA_ENV_SETTINGS of each   *)
(* include/configs/aesys_<board>.h, which ends with GEMINI_ENV of          *)
(* gemini_env.h.  A variable that is defined more than once has its last   *)
(* value, so the order decides which scripts run and where they load to.   *)
(* Of a script the tables say whose it is: the evaluation kit's, which the *)
(* headers come from, or Gemini's.                                         *)
(***************************************************************************)
EXTENDS DdrTables

SysLoadAddr == \h40400000  \* CONFIG_SYS_LOAD_ADDR: loadaddr

GeminiEnv ==
  [addresses |->
     <<<<"initrd_addr", \h43800000>>, <<"ramdisk_addr_r", \h43800000>>,
       <<"db_id_a_addr", \h47000000>>, <<"db_id_b_addr", \h47010000>>,
       <<"fitaddr", \h48000000>>, <<"kernel_addr_r", \h48000000>>>>,
   scripts |->
     [i \in 1 .. 7 |-> <<<<"bootcmd", "bsp_bootcmd", "mmcargs", "loadimage", "loadfdt",
                           "mmcboot", "loadinitrd">>[i], "gemini">>]]

Joined(e, f) ==
  [addresses |-> e.addresses \o f.addresses, scripts |-> e.scripts \o f.scripts]

(* CFG_MFG_ENV_SETTINGS *)
MfgEnv_2522 == <<<<"initrd_addr", \h43800000>>>>
MfgEnv_2319a == MfgEnv_2522
MfgEnv_2409 == MfgEnv_2522
MfgEnv_2414 == MfgEnv_2522
MfgEnv_2414_2g == MfgEnv_2522
MfgEnv_2602 == MfgEnv_2522

(* What the headers of the evaluation kits define and all boards keep, after *)
(* U-Boot's own loadaddr.                                                    *)
EvkEnv(mfg) ==
  [addresses |->
     mfg \o <<<<"loadaddr", SysLoadAddr>>, <<"scriptaddr", \h43500000>>,
              <<"kernel_addr_r", SysLoadAddr>>, <<"pxefile_addr_r", SysLoadAddr>>,
              <<"fdt_addr_r", \h43000000>>>>,
   scripts |->
     [i \in 1 .. 5 |->
        <<<<"mmcargs", "loadimage", "loadfdt", "mmcboot", "bsp_bootcmd">>[i], "evk">>]]

(* Faulty: GEMINI_ENV is not the last one. *)
ExtraEnv_2414_First == Joined(GeminiEnv, EvkEnv(MfgEnv_2414))

(* CFG_EXTRA_ENV_SETTINGS *)
ExtraEnv_2522 == Joined(EvkEnv(MfgEnv_2522), GeminiEnv)
ExtraEnv_2319a == Joined(EvkEnv(MfgEnv_2319a), GeminiEnv)
ExtraEnv_2409 == Joined(EvkEnv(MfgEnv_2409), GeminiEnv)
ExtraEnv_2414 == Joined(EvkEnv(MfgEnv_2414), GeminiEnv)
ExtraEnv_2414_2g == Joined(EvkEnv(MfgEnv_2414_2g), GeminiEnv)
ExtraEnv_2602 == Joined(EvkEnv(MfgEnv_2602), GeminiEnv)

DefaultEnv ==
  [aesys_2319a |-> ExtraEnv_2319a, aesys_2409 |-> ExtraEnv_2409,
   aesys_2414 |-> ExtraEnv_2414, aesys_2414_2g |-> ExtraEnv_2414_2g,
   aesys_2522 |-> ExtraEnv_2522, aesys_2602 |-> ExtraEnv_2602]

(* The value a list of definitions leaves. *)
LastValue(list, name) ==
  LET of == {i \in DOMAIN list : list[i][1] = name} IN
  list[CHOOSE i \in of : \A j \in of : j <= i][2]

Addr(b, name) == LastValue(DefaultEnv[b].addresses, name)
Script(b, name) == LastValue(DefaultEnv[b].scripts, name)
==============================================================================
