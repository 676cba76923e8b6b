------------------------------ MODULE BoardCode ------------------------------
(***************************************************************************)
(* What the boards' own copies of spl.c and aesys_<board>.c do, as data:   *)
(* the calls of a function in their order, the registers a function        *)
(* writes, the tables it looks things up in.  A copy that is the same as   *)
(* another one is defined by that one.  The modules Spl and UBootInit run  *)
(* these programs.                                                         *)
(***************************************************************************)
EXTENDS DdrMap

------------------------------------------------------------------------------
(* spl.c                                                                     *)

(* Faulty: the memory before the supply. *)
BoardInitF_2522_DramFirst ==
  <<"board_early_init_f", "spl_early_init", "clock_controller",
    "spl_dram_init", "power_init_board", "board_init_r">>

(* board_init_f: the calls that can fail or that the rest depends on.        *)
BoardInitF_2522 ==
  <<"board_early_init_f", "spl_early_init", "clock_controller",
    "power_init_board", "spl_dram_init", "board_init_r">>
BoardInitF_2319a == BoardInitF_2522
BoardInitF_2409 == BoardInitF_2522
BoardInitF_2414 == BoardInitF_2522
BoardInitF_2414_2g == BoardInitF_2522
BoardInitF_2602 == BoardInitF_2522

(* power_init_board: the registers of the PCA9450 and their values.          *)
PowerInitBoard_2522 ==
  <<<<"BUCK123_DVS", \h29>>, <<"BUCK1OUT_DVS0", \h1C>>, <<"BUCK1OUT_DVS1", \h14>>,
    <<"BUCK1CTRL", \h59>>, <<"BUCK2OUT_DVS0", \h1C>>, <<"CONFIG2", \h03>>>>
PowerInitBoard_2319a == PowerInitBoard_2522
PowerInitBoard_2414 == PowerInitBoard_2522
PowerInitBoard_2414_2g == PowerInitBoard_2522
PowerInitBoard_2602 == PowerInitBoard_2522
PowerInitBoard_2409 ==
  <<<<"BUCK123_DVS", \h29>>, <<"BUCK1OUT_DVS0", \h1C>>, <<"BUCK1OUT_DVS1", \h0C>>,
    <<"BUCK1CTRL", \h59>>, <<"LDO2CTRL", \hC0>>, <<"LDO4CTRL", \h44>>,
    <<"CONFIG2", \h03>>>>

(* spl_board_init: the frequency in MHz the interrupt controller is set to,  *)
(* where 400 is what the boot ROM left.                                      *)
SplBoardInit_2522 == 500
SplBoardInit_2319a == SplBoardInit_2522
SplBoardInit_2414 == SplBoardInit_2522
SplBoardInit_2414_2g == SplBoardInit_2522
SplBoardInit_2602 == SplBoardInit_2522
SplBoardInit_2409 == 400

(* spl_board_boot_device: where U-Boot proper is loaded from.  All boards    *)
(* are built with SPL_BOOTROM_SUPPORT: the boot ROM is asked for it.         *)
SplBoardBootDevice_2522 == "BOOTROM"
SplBoardBootDevice_2319a == SplBoardBootDevice_2522
SplBoardBootDevice_2409 == SplBoardBootDevice_2522
SplBoardBootDevice_2414 == SplBoardBootDevice_2522
SplBoardBootDevice_2414_2g == SplBoardBootDevice_2522
SplBoardBootDevice_2602 == SplBoardBootDevice_2522

------------------------------------------------------------------------------
(* aesys_<board>.c: board_early_init_f, how it sets the pads of the console. *)
BoardEarlyInitF_2522 == "dce"
BoardEarlyInitF_2319a == BoardEarlyInitF_2522
BoardEarlyInitF_2414 == BoardEarlyInitF_2522
BoardEarlyInitF_2414_2g == BoardEarlyInitF_2522
BoardEarlyInitF_2602 == BoardEarlyInitF_2522
BoardEarlyInitF_2409 == "untouched"

------------------------------------------------------------------------------
(* aesys_<board>.c: the revision straps.  A pin is <<GPIO bank, number>>.    *)

NoPin == <<0, 0>>

HwrevGpios_2522 == <<<<4, 30>>, <<4, 27>>, <<4, 26>>, <<4, 19>>>>
HwrevGpios_2602 == <<<<4, 30>>, <<4, 27>>, <<5, 27>>, <<4, 18>>>>
HwrevGpios_2414 ==
  <<<<3, 9>>, <<3, 8>>, <<3, 7>>, <<3, 6>>, NoPin,
    <<5, 28>>, <<3, 14>>, <<3, 1>>, <<3, 0>>>>
HwrevGpios_2414_2g == HwrevGpios_2414
HwrevGpios_2409 == [i \in 1 .. 8 |-> <<2, 10 - i>>]

(* The pins whose pads the pull resistors are switched on. *)
HwrevPads_2522 == <<<<4, 30>>, <<4, 27>>, <<4, 26>>, <<4, 19>>>>
(* Faulty: the pads of the board it was copied from. *)
HwrevPads_2602_Copied == HwrevPads_2522

HwrevPads_2602 == <<<<4, 30>>, <<4, 27>>, <<5, 27>>, <<4, 18>>>>
HwrevPads_2414 ==
  <<<<3, 9>>, <<3, 8>>, <<3, 7>>, <<3, 6>>, NoPin,
    <<5, 28>>, <<3, 14>>, <<3, 1>>, <<3, 0>>>>
HwrevPads_2414_2g == HwrevPads_2414
HwrevPads_2409 == [i \in 1 .. 8 |-> <<2, 10 - i>>]

(* n in binary, in four digits *)
Digits(n) ==
  [i \in 1 .. 4 |-> IF (n \div 2 ^ (4 - i)) % 2 = 1 THEN "1" ELSE "0"]
Floating == <<"x", "x", "x", "x">>
Row(main, ext, boardid) == [gpioid |-> main \o <<"_">> \o ext, boardid |-> boardid]

HwRevs_2522 == <<Row(Digits(0), Floating, "aesys_2522a")>>
HwRevs_2602 == <<Row(Digits(0), Floating, "aesys_2602a")>>
HwRevs_2414 ==
  <<Row(Digits(0), Floating, "aesys_2414a"),
    Row(Digits(0), Digits(0), "aesys_2414a"),
    Row(Digits(0), Digits(1), "aesys_2414a__aesys_2501a"),
    Row(Digits(0), Digits(2), "aesys_2414a__aesys_2415a")>>
(* Faulty: an extension board no device tree is built for. *)
HwRevs_2414_2g_NoTree ==
  [i \in 1 .. 13 |->
     Row(Digits(0), IF i = 1 THEN Floating ELSE Digits(i - 2),
         IF i < 7 THEN "aesys_2414b" ELSE "aesys_2414b__aesys_2511b")]
HwRevs_2414_2g ==
  [i \in 1 .. 13 |->
     Row(Digits(0), IF i = 1 THEN Floating ELSE Digits(i - 2),
         CASE i \in {1, 2} -> "aesys_2414b"
           [] i \in {3, 5} -> "aesys_2414b__aesys_2501b"
           [] i = 4        -> "aesys_2414b__aesys_2415a"
           [] i = 7        -> "aesys_2414b__aesys_2511a"
           [] OTHER        -> "aesys_2414b__aesys_2415b")]
HwRevs_2409 ==
  <<[gpioid |-> Digits(0) \o Digits(1), boardid |-> "aesys_2409a"],
    [gpioid |-> Digits(8) \o Digits(1), boardid |-> "aesys_2409c"]>>

(* The level read from a line.  A floating line follows the pull resistor of *)
(* its own pad, and one whose pad was not touched is low, as after a reset.  *)
Level(straps, gpio, pad, pull) ==
  CASE straps[gpio] = "high"  -> TRUE
    [] straps[gpio] = "low"   -> FALSE
    [] straps[gpio] = "float" -> pad = gpio /\ pull = "up"

(* One character of the gpioid: both pulls tell a floating line from a       *)
(* driven one.                                                               *)
Digit(straps, gpio, pad) ==
  IF gpio = NoPin \/ pad = NoPin THEN "_"
  ELSE IF Level(straps, gpio, pad, "up") # Level(straps, gpio, pad, "down") THEN "x"
  ELSE IF Level(straps, gpio, pad, "up") THEN "1" ELSE "0"

Gpioid(straps, gpios, pads) ==
  [i \in DOMAIN gpios |-> Digit(straps, gpios[i], pads[i])]

(* The first row with this gpioid, or the default. *)
Lookup(table, gpioid, default) ==
  LET hits == {i \in DOMAIN table : table[i].gpioid = gpioid} IN
  IF hits = {} THEN default
  ELSE table[CHOOSE i \in hits : \A j \in hits : i <= j].boardid

Identify(straps, gpios, pads, table, default) ==
  LET id == Gpioid(straps, gpios, pads) IN
  [gpioid |-> id, boardid |-> Lookup(table, id, default)]

(* board_late_init: the hardware revision. *)
Detect_2522(straps) ==
  Identify(straps, HwrevGpios_2522, HwrevPads_2522, HwRevs_2522, "aesys_2522a")
Detect_2602(straps) ==
  Identify(straps, HwrevGpios_2602, HwrevPads_2602, HwRevs_2602, "aesys_2602a")
Detect_2414(straps) ==
  Identify(straps, HwrevGpios_2414, HwrevPads_2414, HwRevs_2414, "aesys_2414a")
Detect_2414_2g(straps) ==
  Identify(straps, HwrevGpios_2414_2g, HwrevPads_2414_2g, HwRevs_2414_2g, "aesys_2414b")

(* detect_board: with the pull-down only, a floating line reads as a 0.      *)
Detect_2409(straps) ==
  LET id == [i \in 1 .. 8 |->
               IF Level(straps, HwrevGpios_2409[i], HwrevPads_2409[i], "down") THEN "1" ELSE "0"]
  IN  [gpioid |-> id, boardid |-> Lookup(HwRevs_2409, id, HwRevs_2409[1].boardid)]

(* The device trees an image of the board has (KERNEL_DEVICETREE).           *)
Trees_2319a == {"aesys_2319a", "aesys_2319a_m7"}
Trees_2409 == {"aesys_2409a", "aesys_2409a_m7", "aesys_2409c"}
Trees_2414 ==
  {"aesys_2414a", "aesys_2414a__aesys_2415a", "aesys_2414a__aesys_2501a",
   "aesys_2414a__aesys_2511a"}
Trees_2414_2g ==
  {"aesys_2414b", "aesys_2414b__aesys_2415a", "aesys_2414b__aesys_2415b",
   "aesys_2414b__aesys_2501b", "aesys_2414b__aesys_2511a"}
Trees_2522 == {"aesys_2522a"}
Trees_2602 == {"aesys_2602a"}

------------------------------------------------------------------------------
(* aesys_<board>.c: board_init.  A write clears bits of a register and sets  *)
(* others; a call that is not one of a write has a name only.                *)

Write(reg, clear, set) == [do |-> reg, clear |-> clear, set |-> set]
Call(name) == [do |-> name, clear |-> {}, set |-> {}]
NoCode == <<>>

SetupFec_2522 == Write("GPR1", {}, {22})
SetupFec_2319a == SetupFec_2522
SetupFec_2414 == SetupFec_2522
SetupFec_2414_2g == SetupFec_2522
SetupFec_2602 == SetupFec_2522
SetupFec_2409 == Write("GPR1", {13}, {})

(* Faulty: the mode is set on top of the old one. *)
SetupEqos_2522_NoClear ==
  <<Write("GPR1", {}, {16}), Write("GPR1", {}, {19, 21}), Call("set_clk_eqos")>>

(* setup_eqos: the interface's mode, then its clocks. *)
SetupEqos_2522 ==
  <<Write("GPR1", 16 .. 18, {16}), Write("GPR1", {}, {19, 21}), Call("set_clk_eqos")>>
SetupEqos_2319a == SetupEqos_2522
SetupEqos_2414 == SetupEqos_2522
SetupEqos_2414_2g == SetupEqos_2522
SetupEqos_2602 == SetupEqos_2522

(* Faulty: the clock of the USB controllers stays closed. *)
BoardInit_2522_NoUsbClk == <<SetupFec_2522>> \o SetupEqos_2522

(* setup_fec, setup_eqos, init_usb_clk *)
BoardInit_2522 == <<SetupFec_2522>> \o SetupEqos_2522 \o <<Call("init_usb_clk")>>
BoardInit_2319a == <<SetupFec_2319a>> \o SetupEqos_2319a \o <<Call("init_usb_clk")>>
BoardInit_2414 == <<SetupFec_2414>> \o SetupEqos_2414 \o <<Call("init_usb_clk")>>
BoardInit_2414_2g == <<SetupFec_2414_2g>> \o SetupEqos_2414_2g \o <<Call("init_usb_clk")>>
BoardInit_2602 == <<SetupFec_2602>> \o SetupEqos_2602 \o <<Call("init_usb_clk")>>
BoardInit_2409 == <<SetupFec_2409>>

(* Faulty: the negotiation that is running goes on. *)
BoardPhyConfig_2522_NoRestart == <<"without_1000T">>

(* board_phy_config after the driver's own configuration: without 1000T and  *)
(* with the negotiation started again, or nothing.                           *)
BoardPhyConfig_2522 == <<"without_1000T", "restart">>
BoardPhyConfig_2602 == BoardPhyConfig_2522
BoardPhyConfig_2414 == BoardPhyConfig_2522
BoardPhyConfig_2414_2g == BoardPhyConfig_2522
BoardPhyConfig_2319a == NoCode
BoardPhyConfig_2409 == NoCode

------------------------------------------------------------------------------
(* aesys_<board>.c: the USB device controller and its PHY                    *)

(* Faulty: the reference frequency is set on top of the old one. *)
UsbPhyInit_2522_NoClear ==
  <<Write("HSIO_GPR_REG_0", {}, {1}),
    Write("USB_PHY_CTRL0", {}, {6, 8, 10}),
    Write("USB_PHY_CTRL6", {0}, {}),
    Write("USB_PHY_CTRL1", {1, 19, 20}, {0, 3}),
    Write("USB_PHY_CTRL0", {}, {2}),
    Write("USB_PHY_CTRL2", {}, {8}),
    Write("USB_PHY_CTRL1", {0, 3}, {})>>

(* dwc3_nxp_usb_phy_init: the USB clock, 100 MHz reference, reset, super     *)
(* speed and transmitter, end of the reset.                                  *)
UsbPhyInit_2522 ==
  <<Write("HSIO_GPR_REG_0", {}, {1}),
    Write("USB_PHY_CTRL0", 5 .. 10, {6, 8, 10}),
    Write("USB_PHY_CTRL6", {0}, {}),
    Write("USB_PHY_CTRL1", {1, 19, 20}, {0, 3}),
    Write("USB_PHY_CTRL0", {}, {2}),
    Write("USB_PHY_CTRL2", {}, {8}),
    Write("USB_PHY_CTRL1", {0, 3}, {})>>
UsbPhyInit_2319a == UsbPhyInit_2522
UsbPhyInit_2414 == UsbPhyInit_2522
UsbPhyInit_2414_2g == UsbPhyInit_2522
UsbPhyInit_2602 == UsbPhyInit_2522

(* board_usb_init(0, USB_INIT_DEVICE): the calls around the PHY's writes.    *)
BoardUsbInit_2522 ==
  <<Call("imx8m_usb_power")>> \o UsbPhyInit_2522 \o <<Call("dwc3_uboot_init")>>
BoardUsbInit_2319a ==
  <<Call("imx8m_usb_power")>> \o UsbPhyInit_2319a \o <<Call("dwc3_uboot_init")>>
BoardUsbInit_2414 ==
  <<Call("imx8m_usb_power")>> \o UsbPhyInit_2414 \o <<Call("dwc3_uboot_init")>>
BoardUsbInit_2414_2g ==
  <<Call("imx8m_usb_power")>> \o UsbPhyInit_2414_2g \o <<Call("dwc3_uboot_init")>>
BoardUsbInit_2602 ==
  <<Call("imx8m_usb_power")>> \o UsbPhyInit_2602 \o <<Call("dwc3_uboot_init")>>

(* board_usb_cleanup(0, USB_INIT_DEVICE) *)
BoardUsbCleanup_2522 == <<Call("dwc3_uboot_exit"), Call("imx8m_usb_power")>>
BoardUsbCleanup_2319a == BoardUsbCleanup_2522
BoardUsbCleanup_2414 == BoardUsbCleanup_2522
BoardUsbCleanup_2414_2g == BoardUsbCleanup_2522
BoardUsbCleanup_2602 == BoardUsbCleanup_2522

------------------------------------------------------------------------------
(* include/configs/aesys_<board>.h: the memory U-Boot takes for granted, MiB *)
PhysSdram_2319a == 1024
PhysSdram_2409 == 2048
PhysSdram_2414 == 3072 + 1024
PhysSdram_2414_2g == 2048
PhysSdram_2522 == 3072 + 1024
PhysSdram_2602 == 3072 + 1024
------------------------------------------------------------------------------
(* The code each board is built with. *)

Code ==
  [aesys_2319a |->
     [boardInitF |-> BoardInitF_2319a, power |-> PowerInitBoard_2319a,
      gic |-> SplBoardInit_2319a, bootDevice |-> SplBoardBootDevice_2319a,
      earlyInit |-> BoardEarlyInitF_2319a, timing |-> DramTiming_2319a,
      boardInit |-> BoardInit_2319a, phyConfig |-> BoardPhyConfig_2319a,
      usbInit |-> BoardUsbInit_2319a,
      usbCleanup |-> BoardUsbCleanup_2319a,
      ram |-> PhysSdram_2319a, trees |-> Trees_2319a],
   aesys_2409 |->
     [boardInitF |-> BoardInitF_2409, power |-> PowerInitBoard_2409,
      gic |-> SplBoardInit_2409, bootDevice |-> SplBoardBootDevice_2409,
      earlyInit |-> BoardEarlyInitF_2409, timing |-> DramTiming_2409,
      boardInit |-> BoardInit_2409, phyConfig |-> BoardPhyConfig_2409,
      usbInit |-> NoCode,
      usbCleanup |-> NoCode,
      ram |-> PhysSdram_2409, trees |-> Trees_2409],
   aesys_2414 |->
     [boardInitF |-> BoardInitF_2414, power |-> PowerInitBoard_2414,
      gic |-> SplBoardInit_2414, bootDevice |-> SplBoardBootDevice_2414,
      earlyInit |-> BoardEarlyInitF_2414, timing |-> DramTiming_2414,
      boardInit |-> BoardInit_2414, phyConfig |-> BoardPhyConfig_2414,
      usbInit |-> BoardUsbInit_2414,
      usbCleanup |-> BoardUsbCleanup_2414,
      ram |-> PhysSdram_2414, trees |-> Trees_2414],
   aesys_2414_2g |->
     [boardInitF |-> BoardInitF_2414_2g, power |-> PowerInitBoard_2414_2g,
      gic |-> SplBoardInit_2414_2g, bootDevice |-> SplBoardBootDevice_2414_2g,
      earlyInit |-> BoardEarlyInitF_2414_2g, timing |-> DramTiming_2414_2g,
      boardInit |-> BoardInit_2414_2g, phyConfig |-> BoardPhyConfig_2414_2g,
      usbInit |-> BoardUsbInit_2414_2g,
      usbCleanup |-> BoardUsbCleanup_2414_2g,
      ram |-> PhysSdram_2414_2g, trees |-> Trees_2414_2g],
   aesys_2522 |->
     [boardInitF |-> BoardInitF_2522, power |-> PowerInitBoard_2522,
      gic |-> SplBoardInit_2522, bootDevice |-> SplBoardBootDevice_2522,
      earlyInit |-> BoardEarlyInitF_2522, timing |-> DramTiming_2522,
      boardInit |-> BoardInit_2522, phyConfig |-> BoardPhyConfig_2522,
      usbInit |-> BoardUsbInit_2522,
      usbCleanup |-> BoardUsbCleanup_2522,
      ram |-> PhysSdram_2522, trees |-> Trees_2522],
   aesys_2602 |->
     [boardInitF |-> BoardInitF_2602, power |-> PowerInitBoard_2602,
      gic |-> SplBoardInit_2602, bootDevice |-> SplBoardBootDevice_2602,
      earlyInit |-> BoardEarlyInitF_2602, timing |-> DramTiming_2602,
      boardInit |-> BoardInit_2602, phyConfig |-> BoardPhyConfig_2602,
      usbInit |-> BoardUsbInit_2602,
      usbCleanup |-> BoardUsbCleanup_2602,
      ram |-> PhysSdram_2602, trees |-> Trees_2602]]

(* The pins that tell the revision of a board. *)
GpiosOf(b) ==
  CASE b = "aesys_2409"    -> HwrevGpios_2409
    [] b = "aesys_2414"    -> HwrevGpios_2414
    [] b = "aesys_2414_2g" -> HwrevGpios_2414_2g
    [] b = "aesys_2522"    -> HwrevGpios_2522
    [] b = "aesys_2602"    -> HwrevGpios_2602
    [] OTHER               -> NoCode
RevisionPins(b) == {GpiosOf(b)[i] : i \in DOMAIN GpiosOf(b)} \ {NoPin}

(* What board_late_init puts into the environment; aesys_2319a has no straps *)
(* that it looks at.                                                         *)
NoBoardId == "none"
Detected(b, straps) ==
  CASE b = "aesys_2319a"   -> [gpioid |-> <<>>, boardid |-> NoBoardId]
    [] b = "aesys_2409"    -> Detect_2409(straps)
    [] b = "aesys_2414"    -> Detect_2414(straps)
    [] b = "aesys_2414_2g" -> Detect_2414_2g(straps)
    [] b = "aesys_2522"    -> Detect_2522(straps)
    [] b = "aesys_2602"    -> Detect_2602(straps)
==============================================================================
