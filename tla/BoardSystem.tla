------------------------------ MODULE BoardSystem -----------------------------
(***************************************************************************)
(* A board from power on to the U-Boot prompt, and at the prompt, with     *)
(* failing calls and power cycles.                                         *)
(***************************************************************************)
EXTENDS UBootInit

vars == <<splVars, ubootVars>>

Init ==
  /\ board \in Boards /\ straps \in Strappings(board) /\ faults = 0
  /\ SplInit /\ UBootInitial

(* Power goes away and comes back: only the board and its straps stay.       *)
PowerCycle ==
  /\ faults < MaxFaults /\ faults' = faults + 1 /\ pc # "rom"
  /\ pc' = "rom" /\ step' = 1 /\ write' = 1
  /\ pmic' = PmicAtReset /\ dram' = "off" /\ gic' = 400
  /\ uart' = ConsoleAtReset(board) /\ failed' = {}
  /\ fixup' = 0 /\ id' = NoId /\ clk' = {} /\ usb' = UsbOff /\ eth' = EthOff
  /\ \E left \in Leftovers : gpr1' = left.gpr1 /\ usbregs' = left.usb
  /\ UNCHANGED <<board, straps>>

(* What the program does by itself, and what is done to it. *)
Program == (SplNext /\ UNCHANGED ubootVars) \/ UBootNext

Next == Program \/ UsbStart \/ UsbStop \/ EthStart \/ Negotiate \/ PowerCycle

Spec == Init /\ [][Next]_vars

------------------------------------------------------------------------------
Stages == {"rom", "spl", "pmic", "early", "fixup", "relocated", "board_init", "main",
           "usb_init", "usb_exit", "eth", "hang"}
Prompt == {"main", "usb_init", "usb_exit", "eth"}

PhyStates == [adv1000 : BOOLEAN, link : {NoLink, 100, 1000}, failed : BOOLEAN]

(* Every variable holds values of its kind. *)
TypeOK ==
  /\ board \in Boards /\ pc \in Stages
  /\ step \in Nat \ {0} /\ write \in Nat \ {0}
  /\ pmic \in [PmicRegisters -> Nat]
  /\ dram \in {"off", "trained", "failed"} /\ gic \in {400, 500}
  /\ uart \in [pads : {"untouched", "dce", "dte"}, tree : {"dce", "dte"},
               driver : {"none", "dce", "dte"}]
  /\ failed \subseteq FaultyCalls /\ faults \in 0 .. MaxFaults
  /\ fixup \in {0, 1, 3, 4}
  /\ gpr1 \subseteq 0 .. 31 /\ clk \subseteq {"eqos", "usb"}
  /\ usb \in [power : BOOLEAN, active : BOOLEAN]
  /\ usbregs \in [UsbRegisters -> SUBSET (0 .. 31)]
  /\ eth \in PhyStates

(* The memory that works is the memory U-Boot takes for granted: the address *)
(* map reaches every cell once, its size is PHYS_SDRAM_SIZE, the refresh     *)
(* suits its density, the controller programs what the PHY was trained with  *)
(* (lpddr4_timing.c against include/configs and against itself).             *)
MemoryAsConfigured ==
  dram = "trained" =>
    LET t == Code[board].timing IN
    /\ AddressMapExact(t.ddrc) /\ Capacity(t) = Code[board].ram
    /\ RefreshKeepsUp(t) /\ TrainingAgrees(t) /\ LanesKept(t)

(* Memory is trained, and the interrupt controller runs at its overdrive     *)
(* frequency, only at the typical supply of the SoC: so say the comments of  *)
(* spl.c:69-74 and 103.                                                      *)
SupplyBeforeLoad == dram = "trained" \/ gic = 500 => VddSoc = Typical

(* ... and so it is as long as the PMIC answers: the writes come before the  *)
(* loads they are for.                                                       *)
SupplyBeforeLoadIfPmic ==
  failed \cap {"pmic_get", "pmic_reg_write"} = {} => SupplyBeforeLoad

(* U-Boot hangs only after a call that failed, whatever the power has done   *)
(* before: no register of the USB PHY is touched without power and clock, no *)
(* training is tried at a low supply.                                        *)
HangHasCause == pc = "hang" => failed # {}

(* The revision detected is one the image has a device tree for              *)
(* (hwrevs against KERNEL_DEVICETREE of conf/machine).                       *)
DetectedShipped == id.boardid \in Code[board].trees \cup {NoBoardId}

(* The gpioid says of each pin how it is tied: the pads that are pulled are  *)
(* the pins that are read.                                                   *)
StrapsTold ==
  \A i \in DOMAIN id.gpioid :
    GpiosOf(board)[i] # NoPin =>
      id.gpioid[i] = CASE straps[GpiosOf(board)[i]] = "low"  -> "0"
                       [] straps[GpiosOf(board)[i]] = "high" -> "1"
                       [] OTHER -> IF board = "aesys_2409" THEN "0" ELSE "x"

(* At the prompt the console's driver works in the mode its pads have, which *)
(* is the one of the board found later by board_late_init (unless the device *)
(* tree has no such node, which gd->arch.custom_board_fixup_status tells).   *)
ConsoleAgrees ==
  pc \in Prompt /\ fixup # 1 =>
    /\ uart.driver = uart.pads
    /\ uart.pads = "dte" <=> board = "aesys_2409" /\ id.boardid # "aesys_2409c"

(* At the prompt both RGMII interfaces have their transmit clocks and their  *)
(* mode, the RMII of aesys_2409 takes its clock from outside, whatever the   *)
(* register held before.                                                     *)
EthernetClocks ==
  pc \in Prompt =>
    IF board = "aesys_2409" THEN 13 \notin gpr1
    ELSE gpr1 \cap {16, 17, 18, 19, 21, 22} = {16, 19, 21, 22} /\ clk = {"eqos", "usb"}

(* A link negotiated before the restart does not survive it: a board with    *)
(* two pairs never ends with a link of 1000 Mbit/s, even if drv->config      *)
(* failed, as long as its own accesses to the PHY do not (board_phy_config). *)
NoGigabit ==
  pc = "main" /\ Code[board].phyConfig # NoCode /\ ~eth.failed => eth.link # 1000

(* The PHY of an active USB device has its reference clock, its transmitter  *)
(* and no reset, however often it was started and stopped and whatever its   *)
(* registers held (dwc3_nxp_usb_phy_init).                                   *)
UsbReady ==
  usb.active /\ pc = "main" =>
    /\ usbregs["USB_PHY_CTRL0"] \cap (2 .. 10 \ {3, 4}) = {2, 6, 8, 10}
    /\ usbregs["USB_PHY_CTRL1"] \cap {0, 1, 3, 19, 20} = {}
    /\ 8 \in usbregs["USB_PHY_CTRL2"] /\ 0 \notin usbregs["USB_PHY_CTRL6"]
    /\ 1 \in usbregs["HSIO_GPR_REG_0"]
==============================================================================
