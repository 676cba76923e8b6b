------------------------------- MODULE UBootInit ------------------------------
(***************************************************************************)
(* U-Boot proper on a board, from its first instruction to the prompt and  *)
(* at the prompt: board_early_init_f, the correction of the device tree,   *)
(* board_init, board_late_init, and the calls the USB device and Ethernet  *)
(* drivers make into the board's code.  The programs are BoardCode's.      *)
(***************************************************************************)
EXTENDS Spl

CONSTANT Strappings(_)  \* the strappings of a board's revision pins to look at

Levels == {"low", "high", "float"}

ASSUME StrappingsAssumption ==
  \A b \in Boards : Strappings(b) \subseteq [RevisionPins(b) -> Levels]

VARIABLES
  straps,   \* the level each revision pin is tied to: hardware, never changes
  fixup,    \* gd->arch.custom_board_fixup_status
  id,       \* gemini_board_gpioid and gemini_board_id
  gpr1,     \* bits set in IOMUXC_GPR1
  clk,      \* clocks that were opened
  usb,      \* power domain and activity of the USB device controller
  usbregs,  \* bits set in the registers of the USB PHY
  eth       \* the Ethernet PHY: advertises 1000T, link speed, whether one
            \* of the accesses of board_phy_config failed

ubootVars == <<straps, fixup, id, gpr1, clk, usb, usbregs, eth>>

UsbRegisters ==
  {"HSIO_GPR_REG_0", "USB_PHY_CTRL0", "USB_PHY_CTRL1", "USB_PHY_CTRL2", "USB_PHY_CTRL6"}
NoId == [gpioid |-> <<>>, boardid |-> NoBoardId]
NoLink == 0

(* What the registers hold when the program starts is up to whatever ran     *)
(* before: nothing, or everything the code should clear.                     *)
Leftovers ==
  {[gpr1 |-> {}, usb |-> [r \in UsbRegisters |-> {}]],
   [gpr1 |-> {13, 17, 18}, usb |-> [r \in UsbRegisters |-> {0, 1, 5, 7, 9, 19, 20}]]}
UsbOff == [power |-> FALSE, active |-> FALSE]
EthOff == [adv1000 |-> TRUE, link |-> NoLink, failed |-> FALSE]

UBootInitial ==
  /\ fixup = 0 /\ id = NoId /\ clk = {} /\ usb = UsbOff /\ eth = EthOff
  /\ \E left \in Leftovers : gpr1 = left.gpr1 /\ usbregs = left.usb

------------------------------------------------------------------------------
(* Before the relocation *)

EarlyInitF ==
  /\ pc = "early" /\ pc' = "fixup"
  /\ uart' = EarlyUart
  /\ UNCHANGED <<board, step, write, pmic, dram, gic, failed, faults>>
  /\ UNCHANGED ubootVars

(* Faulty: the pads change and the device tree does not. *)
FixedUart_PadsOnly ==
  [uart EXCEPT !.pads = IF Detect_2409(straps).boardid = "aesys_2409c" THEN "dce" ELSE "dte"]

(* custom_board_fix_fdt, on the one board that has it: the console's pads    *)
(* and its node in the device tree, if there is such a node, follow the      *)
(* board that is detected.                                                   *)
FixedUart ==
  LET mode == IF Detect_2409(straps).boardid = "aesys_2409c" THEN "dce" ELSE "dte" IN
  [uart EXCEPT !.pads = mode, !.tree = mode]

(* Faulty: the status stops where the node is found. *)
FixFdt_NoStatus ==
  /\ pc = "fixup" /\ pc' = "relocated"
  /\ IF board = "aesys_2409"
     THEN \E found \in BOOLEAN :
            /\ fixup' = IF ~found THEN 1 ELSE 2
            /\ uart' = IF found THEN FixedUart ELSE uart
     ELSE UNCHANGED <<fixup, uart>>
  /\ UNCHANGED <<board, step, write, pmic, dram, gic, failed, faults>>
  /\ UNCHANGED <<straps, id, gpr1, clk, usb, usbregs, eth>>

FixFdt ==
  /\ pc = "fixup" /\ pc' = "relocated"
  /\ IF board = "aesys_2409"
     THEN \E found \in BOOLEAN :
            /\ fixup' = IF ~found THEN 1 ELSE IF FixedUart.pads = "dce" THEN 3 ELSE 4
            /\ uart' = IF found THEN FixedUart ELSE uart
     ELSE UNCHANGED <<fixup, uart>>
  /\ UNCHANGED <<board, step, write, pmic, dram, gic, failed, faults>>
  /\ UNCHANGED <<straps, id, gpr1, clk, usb, usbregs, eth>>

------------------------------------------------------------------------------
(* After it: the console's driver reads its mode in the device tree.         *)
ProbeUart ==
  /\ pc = "relocated" /\ pc' = "board_init" /\ step' = 1
  /\ uart' = [uart EXCEPT !.driver = uart.tree]
  /\ UNCHANGED <<board, write, pmic, dram, gic, failed, faults>>
  /\ UNCHANGED ubootVars

ApplyBits(reg, w) == (reg \ w.clear) \cup w.set

(* One write or call of board_init. *)
BoardInitCall ==
  /\ pc = "board_init" /\ step <= Len(Code[board].boardInit)
  /\ LET call == Code[board].boardInit[step] IN
     /\ gpr1' = IF call.do = "GPR1" THEN ApplyBits(gpr1, call) ELSE gpr1
     /\ clk' = CASE call.do = "set_clk_eqos" -> clk \cup {"eqos"}
                 [] call.do = "init_usb_clk" -> clk \cup {"usb"}
                 [] OTHER                    -> clk
  /\ step' = step + 1
  /\ UNCHANGED <<board, pc, write, pmic, dram, gic, uart, failed, faults>>
  /\ UNCHANGED <<straps, fixup, id, usb, usbregs, eth>>

(* board_init returns and board_late_init detects the board. *)
BoardLateInit ==
  /\ pc = "board_init" /\ step > Len(Code[board].boardInit)
  /\ pc' = "main"
  /\ id' = Detected(board, straps)
  /\ UNCHANGED <<board, step, write, pmic, dram, gic, uart, failed, faults>>
  /\ UNCHANGED <<straps, fixup, gpr1, clk, usb, usbregs, eth>>

------------------------------------------------------------------------------
(* At the prompt: the USB device controller.  board_usb_init runs for the    *)
(* gadget of fastboot or ums, board_usb_cleanup when it ends.                *)

UsbIdle == UNCHANGED <<straps, fixup, id, gpr1, clk, eth>>

UsbStart ==
  /\ pc = "main" /\ Code[board].usbInit # NoCode /\ ~usb.active
  /\ pc' = "usb_init" /\ step' = 1
  /\ UNCHANGED <<board, write, pmic, dram, gic, uart, failed, faults>>
  /\ UNCHANGED <<usb, usbregs>> /\ UsbIdle

UsbStop ==
  /\ pc = "main" /\ usb.active
  /\ pc' = "usb_exit" /\ step' = 1
  /\ UNCHANGED <<board, write, pmic, dram, gic, uart, failed, faults>>
  /\ UNCHANGED <<usb, usbregs>> /\ UsbIdle

UsbProgram == IF pc = "usb_init" THEN Code[board].usbInit ELSE Code[board].usbCleanup
UsbCalls(call) ==
  pc \in {"usb_init", "usb_exit"} /\ UsbProgram[step].do = call
UsbReturn ==
  IF step = Len(UsbProgram) THEN pc' = "main" /\ step' = 1
  ELSE pc' = pc /\ step' = step + 1

(* The power domain, switched by the firmware; its answer is ignored.        *)
UsbPower ==
  /\ UsbCalls("imx8m_usb_power")
  /\ \/ usb' = [usb EXCEPT !.power = (pc = "usb_init")] /\ NoFault
     \/ Fault("imx8m_usb_power") /\ UNCHANGED usb
  /\ UsbReturn
  /\ UNCHANGED <<board, write, pmic, dram, gic, uart>>
  /\ UNCHANGED usbregs /\ UsbIdle

(* A register of the PHY; without its power or clock the access never ends.  *)
UsbWrite ==
  /\ \E reg \in UsbRegisters : UsbCalls(reg)
  /\ IF usb.power /\ "usb" \in clk
     THEN /\ usbregs' = [usbregs EXCEPT ![UsbProgram[step].do] = ApplyBits(@, UsbProgram[step])]
          /\ UsbReturn
     ELSE pc' = "hang" /\ UNCHANGED <<usbregs, step>>
  /\ UNCHANGED <<board, write, pmic, dram, gic, uart, failed, faults>>
  /\ UNCHANGED usb /\ UsbIdle

(* dwc3_uboot_init: when it fails, board_usb_init returns what it returned   *)
(* and leaves the power on.                                                  *)
UsbDevice ==
  /\ UsbCalls("dwc3_uboot_init")
  /\ \/ usb' = [usb EXCEPT !.active = TRUE] /\ NoFault
     \/ Fault("dwc3_uboot_init") /\ UNCHANGED usb
  /\ UsbReturn
  /\ UNCHANGED <<board, write, pmic, dram, gic, uart>>
  /\ UNCHANGED usbregs /\ UsbIdle

UsbExit ==
  /\ UsbCalls("dwc3_uboot_exit")
  /\ usb' = [usb EXCEPT !.active = FALSE]
  /\ UsbReturn
  /\ UNCHANGED <<board, write, pmic, dram, gic, uart, failed, faults>>
  /\ UNCHANGED usbregs /\ UsbIdle

------------------------------------------------------------------------------
(* At the prompt: the network.  The PHY's driver calls board_phy_config,     *)
(* then waits for the link; the link partner negotiates when it likes.       *)

EthIdle ==
  /\ UNCHANGED <<board, write, pmic, dram, gic, uart, failed>>
  /\ UNCHANGED <<straps, fixup, id, gpr1, clk, usb, usbregs>>

(* An access to the PHY fails; nobody looks at what it returned.             *)
MdioFault == faults < MaxFaults /\ faults' = faults + 1

(* phydev->drv->config: everything is advertised, a negotiation starts; or   *)
(* it fails, and leaves the PHY as it was.                                   *)
EthStart ==
  /\ pc = "main" /\ pc' = "eth" /\ step' = 1
  /\ \/ eth' = EthOff /\ UNCHANGED faults
     \/ eth' = [eth EXCEPT !.failed = FALSE] /\ MdioFault
  /\ EthIdle

(* Clearing the advertisement, or setting the restart bits in what was read. *)
EthStep ==
  /\ pc = "eth" /\ step <= Len(Code[board].phyConfig)
  /\ eth' = CASE Code[board].phyConfig[step] = "without_1000T" -> [eth EXCEPT !.adv1000 = FALSE]
              [] Code[board].phyConfig[step] = "restart"  -> [eth EXCEPT !.link = NoLink]
  /\ step' = step + 1 /\ UNCHANGED <<pc, faults>>
  /\ EthIdle

(* The access fails and the PHY is as it was; or the read does, and its      *)
(* error, negative, is written with all the bits it has, the reset of the    *)
(* PHY among them.                                                           *)
EthStepFails ==
  /\ pc = "eth" /\ step <= Len(Code[board].phyConfig)
  /\ \/ eth' = [eth EXCEPT !.failed = TRUE]
     \/ /\ Code[board].phyConfig[step] = "restart"
        /\ eth' = [EthOff EXCEPT !.failed = TRUE]
  /\ MdioFault
  /\ step' = step + 1 /\ UNCHANGED pc
  /\ EthIdle

(* The best mode both sides can do. *)
Negotiate ==
  /\ pc = "eth" /\ eth.link = NoLink
  /\ \E partner \in {100, 1000} :
       eth' = [eth EXCEPT !.link = IF eth.adv1000 THEN partner ELSE 100]
  /\ UNCHANGED <<pc, step, faults>>
  /\ EthIdle

(* The link is up, or there is none and the driver gives up. *)
EthReady ==
  /\ pc = "eth" /\ step > Len(Code[board].phyConfig)
  /\ pc' = "main" /\ step' = 1
  /\ UNCHANGED <<eth, faults>>
  /\ EthIdle

------------------------------------------------------------------------------
UBootNext ==
  \/ EarlyInitF \/ FixFdt \/ ProbeUart \/ BoardInitCall \/ BoardLateInit
  \/ UsbPower \/ UsbWrite \/ UsbDevice \/ UsbExit
  \/ EthStep \/ EthStepFails \/ EthReady
==============================================================================
