--------------------------------- MODULE Spl ---------------------------------
(***************************************************************************)
(* The secondary program loader: board_init_f of spl.c from the boot ROM   *)
(* to U-Boot proper.  It raises the supply of the SoC, trains the memory   *)
(* and loads U-Boot into it.                                               *)
(***************************************************************************)
EXTENDS BoardCode

CONSTANT MaxFaults  \* bound: calls that fail and resets

ASSUME FaultsAssumption == MaxFaults \in Nat

VARIABLES
  board,   \* the board this is
  pc,      \* "rom", "spl", "pmic" (within power_init_board), "hang" or a stage of U-Boot
  step,    \* the next call of board_init_f
  write,   \* the next register write of power_init_board
  pmic,    \* registers of the PCA9450 that were written
  dram,    \* "off", "trained" or "failed"
  gic,     \* clock of the interrupt controller, in MHz
  uart,    \* the console: its pads, its mode in the device tree, its driver
  failed,  \* the calls that failed since power on
  faults

splVars == <<board, pc, step, write, pmic, dram, gic, uart, failed, faults>>

FaultyCalls ==
  {"spl_early_init", "clock_controller", "pmic_get", "pmic_reg_write", "ddr_init",
   "imx8m_usb_power", "dwc3_uboot_init"}

Fault(call) ==
  faults < MaxFaults /\ faults' = faults + 1 /\ failed' = failed \cup {call}
NoFault == UNCHANGED <<failed, faults>>

(* The output of BUCK1, VDD_SOC, in steps of 12.5 mV above 0.6 V.  DVS0 and  *)
(* DVS1 rule it only once BUCK123_DVS says so.                               *)
VddSoc == IF pmic["BUCK123_DVS"] = \h29 THEN pmic["BUCK1OUT_DVS0"] ELSE \h14
Typical == \h1C  \* 0.95 V

PmicRegisters ==
  {"BUCK123_DVS", "BUCK1OUT_DVS0", "BUCK1OUT_DVS1", "BUCK1CTRL", "BUCK2OUT_DVS0",
   "LDO2CTRL", "LDO4CTRL", "CONFIG2"}
NotWritten == 0
PmicAtReset == [r \in PmicRegisters |-> NotWritten]

ConsoleAtReset(b) ==
  [pads |-> "untouched", tree |-> IF b = "aesys_2409" THEN "dte" ELSE "dce",
   driver |-> "none"]

SplInit ==
  /\ pc = "rom" /\ step = 1 /\ write = 1
  /\ pmic = PmicAtReset
  /\ dram = "off" /\ gic = 400
  /\ uart = ConsoleAtReset(board) /\ failed = {}

(* The boot ROM loads the SPL. *)
Rom ==
  /\ pc = "rom" /\ pc' = "spl"
  /\ UNCHANGED <<board, step, write, pmic, dram, gic, uart, failed, faults>>

Running(call) == pc = "spl" /\ Code[board].boardInitF[step] = call
Return == pc' = "spl" /\ step' = step + 1 /\ write' = 1

(* The console's pads as board_early_init_f leaves them. *)
EarlyUart ==
  IF Code[board].earlyInit = "untouched" THEN uart
  ELSE [uart EXCEPT !.pads = Code[board].earlyInit]

SplEarlyInitF ==
  /\ Running("board_early_init_f")
  /\ uart' = EarlyUart
  /\ Return
  /\ UNCHANGED <<board, pmic, dram, gic, failed, faults>>

(* The device tree of the SPL and the clock controller it must name: board_- *)
(* init_f goes on or hangs.                                                  *)
SplFind ==
  /\ \E call \in {"spl_early_init", "clock_controller"} :
       /\ Running(call)
       /\ \/ Return /\ NoFault
          \/ Fault(call) /\ pc' = "hang" /\ UNCHANGED <<step, write>>
  /\ UNCHANGED <<board, pmic, dram, gic, uart>>

(* pmic_get finds the chip, or power_init_board returns; nobody looks at     *)
(* what it returned.                                                         *)
PmicGet ==
  /\ Running("power_init_board")
  /\ \/ pc' = "pmic" /\ UNCHANGED <<step, write>> /\ NoFault
     \/ Fault("pmic_get") /\ Return
  /\ UNCHANGED <<board, pmic, dram, gic, uart>>

(* A pmic_reg_write.  It may fail: nobody looks at its result.               *)
PmicWrite ==
  /\ pc = "pmic" /\ write <= Len(Code[board].power)
  /\ LET w == Code[board].power[write] IN
     \/ pmic' = [pmic EXCEPT ![w[1]] = w[2]] /\ NoFault
     \/ Fault("pmic_reg_write") /\ UNCHANGED pmic
  /\ write' = write + 1
  /\ UNCHANGED <<board, pc, step, dram, gic, uart>>

PmicDone ==
  /\ pc = "pmic" /\ write > Len(Code[board].power)
  /\ Return
  /\ UNCHANGED <<board, pmic, dram, gic, uart, failed, faults>>

(* ddr_init trains the memory.  It may fail, and at a low supply it does so  *)
(* without any other fault; spl_dram_init ignores its result.                *)
SplDramInit ==
  /\ Running("spl_dram_init")
  /\ \/ dram' = "trained" /\ NoFault
     \/ dram' = "failed" /\ IF VddSoc = Typical THEN Fault("ddr_init") ELSE NoFault
  /\ Return
  /\ UNCHANGED <<board, pmic, gic, uart>>

(* board_init_r runs spl_board_init and loads U-Boot into the memory, from   *)
(* a device that has it: the one the boot ROM started from, which may be any *)
(* of them.  U-Boot runs if it is there and the memory works.                *)
BoardInitR ==
  /\ Running("board_init_r")
  /\ gic' = Code[board].gic
  /\ \E started \in {"MMC", "USB"} :
       pc' = IF dram = "trained" /\ Code[board].bootDevice \in {"BOOTROM", started}
             THEN "early" ELSE "hang"
  /\ UNCHANGED <<board, step, write, pmic, dram, uart, failed, faults>>

SplNext ==
  \/ Rom \/ SplEarlyInitF \/ SplFind
  \/ PmicGet \/ PmicWrite \/ PmicDone
  \/ SplDramInit \/ BoardInitR
==============================================================================
