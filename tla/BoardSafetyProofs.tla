--------------------------- MODULE BoardSafetyProofs --------------------------
(***************************************************************************)
(* The order the calls of a board's program come in is what keeps it alive:*)
(* the supply before the memory, the clocks and the power of the USB PHY   *)
(* before its registers.  Its tables are right for the memory it has.      *)
(* Proved for every board, every strapping and any number of failing calls *)
(* and power cycles.                                                       *)
(***************************************************************************)
EXTENDS BoardProofs, FiniteSetTheorems

(* No write of the PMIC has failed. *)
Supplied == failed \cap {"pmic_get", "pmic_reg_write"} = {}
Dvs == pmic["BUCK123_DVS"] = \h29
Raised == Dvs /\ pmic["BUCK1OUT_DVS0"] = \h1C

(* The registers that matter are the first two written, in this order; the   *)
(* memory follows the last one.                                              *)
SupplyInv ==
  /\ Fixed /\ write \in Nat \ {0} /\ pmic \in [PmicRegisters -> Nat]
  /\ pc = "rom" => step = 1 /\ dram = "off" /\ gic = 400
  /\ pc \in {"rom", "spl"} => write = 1
  /\ pc \in {"spl", "pmic"} => step \in 1 .. 6 /\ gic = 400
  /\ pc \in {"spl", "pmic"} /\ step \in 1 .. 5 => dram = "off"
  /\ pc = "pmic" => step = 4
  /\ pc = "pmic" /\ write >= 2 /\ Supplied => Dvs
  /\ pc = "pmic" /\ write >= 3 /\ Supplied => Raised
  /\ pc = "spl" /\ step \in 5 .. 6 /\ Supplied => Raised
  /\ pc \notin Loading /\ (dram = "trained" \/ gic = 500) /\ Supplied => Raised
  /\ pc = "spl" /\ step = 6 /\ dram # "trained" => failed # {}

LEMMA Calls ==
  ASSUME board \in Boards
  PROVE  Code[board].boardInitF = BoardInitF_2522
  BY DEF Boards, Code, BoardInitF_2319a, BoardInitF_2409, BoardInitF_2414, BoardInitF_2414_2g,
     BoardInitF_2602

LEMMA PowerWrites ==
  ASSUME board \in Boards
  PROVE  /\ Len(Code[board].power) \in {6, 7}
         /\ Code[board].power[1] = <<"BUCK123_DVS", \h29>>
         /\ Code[board].power[2] = <<"BUCK1OUT_DVS0", \h1C>>
         /\ \A k \in 1 .. Len(Code[board].power) :
              /\ Code[board].power[k][1] \in PmicRegisters /\ Code[board].power[k][2] \in Nat
              /\ k >= 3 => Code[board].power[k][1] \notin {"BUCK123_DVS", "BUCK1OUT_DVS0"}
<1>1. CASE board = "aesys_2409"
  <2>1. Code[board].power = PowerInitBoard_2409
    BY <1>1 DEF Code
  <2> QED
    BY <2>1 DEF PowerInitBoard_2409, PmicRegisters
<1>2. CASE board # "aesys_2409"
  <2>1. Code[board].power = PowerInitBoard_2522
    BY <1>2 DEF Boards, Code, PowerInitBoard_2319a, PowerInitBoard_2414, PowerInitBoard_2414_2g,
       PowerInitBoard_2602
  <2> QED
    BY <2>1 DEF PowerInitBoard_2522, PmicRegisters
<1> QED
  BY <1>1, <1>2

LEMMA SupplyStep == ASSUME SupplyInv, [Next]_vars PROVE SupplyInv'
<1> USE DEF SupplyInv
<1>0. Fixed /\ Fixed' /\ board \in Boards /\ step \in Nat \ {0}
  BY StepFixed DEF Fixed
<1>1. ASSUME UNCHANGED <<write, pmic, dram, gic>>, failed \subseteq failed',
             pc \notin Loading, pc' \notin Loading
      PROVE  SupplyInv'
  BY <1>0, <1>1 DEF Loading, Supplied, Raised, Dvs
<1>2. CASE Rom
  BY <1>0, <1>2 DEF Rom, Supplied, Raised, Dvs, Loading
<1>3. CASE SplEarlyInitF
  <2>1. step = 1
    BY <1>0, <1>3, Calls DEF SplEarlyInitF, Running, BoardInitF_2522
  <2> QED
    BY <1>0, <1>3, <2>1 DEF SplEarlyInitF, Running, Return, Supplied, Raised, Dvs, Loading
<1>4. CASE SplFind
  <2>1. step \in 2 .. 3
    BY <1>0, <1>4, Calls DEF SplFind, Running, BoardInitF_2522
  <2>2. /\ pc = "spl" /\ UNCHANGED <<pmic, dram, gic>>
        /\ \/ pc' = "spl" /\ step' = step + 1 /\ write' = 1
           \/ pc' = "hang" /\ UNCHANGED <<step, write>>
    BY <1>4 DEF SplFind, Running, Return
  <2> QED
    BY <1>0, <2>1, <2>2 DEF Supplied, Raised, Dvs, Loading
<1>5. CASE PmicGet
  <2>1. pc = "spl" /\ step = 4 /\ UNCHANGED <<pmic, dram, gic>>
    BY <1>0, <1>5, Calls DEF PmicGet, Running, BoardInitF_2522
  <2>2. CASE pc' = "pmic" /\ UNCHANGED <<step, write>>
    BY <1>0, <2>1, <2>2 DEF Loading
  <2>3. CASE Fault("pmic_get") /\ Return
    BY <1>0, <2>1, <2>3 DEF Fault, Return, Supplied, Loading
  <2> QED
    BY <1>5, <2>2, <2>3 DEF PmicGet
<1>6. CASE PmicWrite
  <2> DEFINE w == Code[board].power[write]
  <2>1. /\ pc = "pmic" /\ pc' = "pmic" /\ write \in 1 .. Len(Code[board].power)
        /\ write' = write + 1 /\ UNCHANGED <<step, dram, gic>>
    BY <1>0, <1>6, PowerWrites DEF PmicWrite
  <2>2. CASE Fault("pmic_reg_write") /\ UNCHANGED pmic
    <3>1. ~Supplied'
      BY <2>2 DEF Fault, Supplied
    <3> QED
      BY <1>0, <2>1, <2>2, <3>1 DEF Loading
  <2>3. CASE pmic' = [pmic EXCEPT ![w[1]] = w[2]] /\ NoFault
    <3>1. w[1] \in PmicRegisters /\ w[2] \in Nat
      BY <1>0, <2>1, PowerWrites
    <3>2. pmic' \in [PmicRegisters -> Nat]
      BY <2>3, <3>1
    <3>3. Supplied' = Supplied
      BY <2>3 DEF NoFault, Supplied
    <3>4. CASE write = 1
      <4>1. w[1] = "BUCK123_DVS" /\ w[2] = \h29
        BY <1>0, <3>4, PowerWrites
      <4>2. Dvs'
        BY <2>3, <3>1, <4>1 DEF Dvs
      <4> QED
        BY <1>0, <2>1, <3>2, <3>4, <4>2 DEF Loading
    <3>5. CASE write = 2
      <4>1. w[1] = "BUCK1OUT_DVS0" /\ w[2] = \h1C
        BY <1>0, <3>5, PowerWrites
      <4>2. Supplied => Raised'
        BY <2>1, <2>3, <3>1, <3>5, <4>1 DEF Dvs, Raised
      <4> QED
        BY <1>0, <2>1, <3>2, <3>3, <3>5, <4>2 DEF Loading, Raised
    <3>6. CASE write >= 3
      <4>1. w[1] \notin {"BUCK123_DVS", "BUCK1OUT_DVS0"}
        BY <1>0, <2>1, <3>6, PowerWrites
      <4>2. Raised' = Raised /\ Dvs' = Dvs
        BY <2>3, <3>1, <4>1 DEF Raised, Dvs, PmicRegisters
      <4> QED
        BY <1>0, <2>1, <3>2, <3>3, <3>6, <4>2 DEF Loading, Raised
    <3> QED
      BY <2>1, <3>4, <3>5, <3>6
  <2> QED
    BY <1>6, <2>2, <2>3 DEF PmicWrite
<1>7. CASE PmicDone
  <2>1. write >= 3
    BY <1>0, <1>7, PowerWrites DEF PmicDone
  <2> QED
    BY <1>0, <1>7, <2>1 DEF PmicDone, Return, Supplied, Raised, Dvs, Loading
<1>8. CASE SplDramInit
  <2>1. pc = "spl" /\ step = 5 /\ pc' = "spl" /\ step' = 6 /\ write' = 1 /\ UNCHANGED <<pmic, gic>>
    BY <1>0, <1>8, Calls DEF SplDramInit, Running, Return, BoardInitF_2522
  <2>2. failed \subseteq failed'
    BY <1>8 DEF SplDramInit, Fault, NoFault
  <2>3. CASE dram' = "trained"
    BY <1>0, <2>1, <2>2, <2>3 DEF Supplied, Raised, Dvs, Loading
  <2>4. CASE dram' = "failed" /\ IF VddSoc = Typical THEN Fault("ddr_init") ELSE NoFault
    <3>1. CASE VddSoc = Typical
      BY <1>0, <2>1, <2>2, <2>4, <3>1 DEF Supplied, Raised, Dvs, Loading, Fault
    <3>2. CASE VddSoc # Typical
      <4>1. ~Raised
        BY <3>2 DEF VddSoc, Typical, Raised, Dvs
      <4>2. failed # {}
        BY <2>1, <4>1 DEF Supplied
      <4> QED
        BY <1>0, <2>1, <2>2, <2>4, <4>2 DEF Supplied, Raised, Dvs, Loading
    <3> QED
      BY <3>1, <3>2
  <2> QED
    BY <1>8, <2>3, <2>4 DEF SplDramInit
<1>9. CASE BoardInitR
  <2>1. pc = "spl" /\ step = 6 /\ pc' \in {"early", "hang"} /\ UNCHANGED <<write, pmic, dram, failed>>
    BY <1>0, <1>9, Calls DEF BoardInitR, Running, BoardInitF_2522
  <2> QED
    BY <1>0, <2>1 DEF Supplied, Raised, Dvs, Loading
<1>10. CASE EarlyInitF \/ FixFdt \/ ProbeUart \/ BoardInitCall \/ BoardLateInit
  BY <1>1, <1>10 DEF EarlyInitF, FixFdt, ProbeUart, BoardInitCall, BoardLateInit, Loading
<1>11. CASE Usb \/ UsbStart \/ UsbStop
  <2>1. write' = write
    BY <1>11 DEF Usb, UsbPower, UsbWrite, UsbDevice, UsbExit, UsbStart, UsbStop
  <2> QED
    BY <1>1, <1>11, <2>1, UsbFrame DEF Loading, Prompt
<1>12. CASE Network
  <2>1. write' = write
    BY <1>12 DEF Network, EthStart, EthStep, EthStepFails, EthReady, Negotiate, EthIdle
  <2> QED
    BY <1>1, <1>12, <2>1, EthFrame DEF Loading
<1>13. CASE PowerCycle
  <2>1. PmicAtReset \in [PmicRegisters -> Nat]
    BY DEF PmicAtReset, NotWritten
  <2> QED
    BY <1>0, <1>13, <2>1 DEF PowerCycle, Loading
<1>14. CASE UNCHANGED vars
  BY <1>0, <1>14 DEF vars, splVars, Supplied, Raised, Dvs
<1> QED
  BY <1>2, <1>3, <1>4, <1>5, <1>6, <1>7, <1>8, <1>9, <1>10, <1>11, <1>12, <1>13, <1>14
  DEF Next, Program, SplNext, UBootNext, Usb, Network

LEMMA SupplyAlways == Spec => []SupplyInv
<1>1. Init => SupplyInv
  <2>1. PmicAtReset \in [PmicRegisters -> Nat]
    BY DEF PmicAtReset, NotWritten
  <2> QED
    BY <2>1, InitFixed DEF Init, SupplyInv, SplInit, Loading
<1> QED
  BY <1>1, SupplyStep, PTL DEF Spec

(* As long as the PMIC answers, the memory is trained and the interrupt      *)
(* controller speeded up only at the typical supply (spl.c).                 *)
THEOREM SupplyFirst == Spec => []SupplyBeforeLoadIfPmic
<1>1. SupplyInv => SupplyBeforeLoadIfPmic
  BY DEF SupplyInv, SupplyBeforeLoadIfPmic, SupplyBeforeLoad, Supplied, Raised, Dvs, VddSoc,
     Typical, Loading
<1> QED
  BY <1>1, SupplyAlways, PTL

------------------------------------------------------------------------------
(* The clocks board_init opens and the power of the USB device controller.   *)

LEMMA Concatenated ==
  ASSUME NEW a, NEW b, NEW c, NEW d, NEW e, NEW s, s = <<a>> \o <<b, c, d>> \o <<e>>
  PROVE  Len(s) = 5 /\ s[1] = a /\ s[2] = b /\ s[3] = c /\ s[4] = d /\ s[5] = e
  OBVIOUS

(* Every board but aesys_2409 has the same board_init. *)
LEMMA Inits ==
  ASSUME board \in Boards, board # "aesys_2409"
  PROVE  LET p == Code[board].boardInit IN
         /\ Len(p) = 5 /\ p[1] = Write("GPR1", {}, {22})
         /\ p[2] = Write("GPR1", 16 .. 18, {16}) /\ p[3] = Write("GPR1", {}, {19, 21})
         /\ p[4] = Call("set_clk_eqos") /\ p[5] = Call("init_usb_clk")
<1>1. /\ BoardInit_2319a = BoardInit_2522 /\ BoardInit_2414 = BoardInit_2522
      /\ BoardInit_2414_2g = BoardInit_2522 /\ BoardInit_2602 = BoardInit_2522
  BY DEF BoardInit_2319a, BoardInit_2414, BoardInit_2414_2g, BoardInit_2522,
     BoardInit_2602, SetupFec_2319a, SetupFec_2414, SetupFec_2414_2g, SetupFec_2602,
     SetupEqos_2319a, SetupEqos_2414, SetupEqos_2414_2g, SetupEqos_2602
<1>2. Code[board].boardInit = BoardInit_2522
  BY <1>1 DEF Boards, Code
<1> QED
  BY <1>2, Concatenated DEF BoardInit_2522, SetupFec_2522, SetupEqos_2522

(* aesys_2409 has no USB device; the others power it before they touch it,   *)
(* and touch no register after they switched it off.                         *)
LEMMA UsbPrograms ==
  ASSUME board \in Boards
  PROVE  IF board = "aesys_2409" THEN Code[board].usbInit = NoCode
         ELSE /\ Code[board].usbInit[1] = Call("imx8m_usb_power")
              /\ Code[board].usbCleanup = <<Call("dwc3_uboot_exit"), Call("imx8m_usb_power")>>
<1>1. CASE board = "aesys_2409"
  BY <1>1 DEF Code
<1>2. CASE board # "aesys_2409"
  <2>1. /\ BoardUsbInit_2319a = BoardUsbInit_2522 /\ BoardUsbInit_2414 = BoardUsbInit_2522
        /\ BoardUsbInit_2414_2g = BoardUsbInit_2522 /\ BoardUsbInit_2602 = BoardUsbInit_2522
    BY DEF BoardUsbInit_2319a, BoardUsbInit_2414, BoardUsbInit_2414_2g, BoardUsbInit_2522,
       BoardUsbInit_2602, UsbPhyInit_2319a, UsbPhyInit_2414, UsbPhyInit_2414_2g, UsbPhyInit_2602
  <2>2. Code[board].usbInit = BoardUsbInit_2522
    BY <1>2, <2>1 DEF Boards, Code
  <2>3. Code[board].usbCleanup = BoardUsbCleanup_2522
    BY <1>2 DEF Boards, Code, BoardUsbCleanup_2319a, BoardUsbCleanup_2414,
       BoardUsbCleanup_2414_2g, BoardUsbCleanup_2602
  <2>4. BoardUsbInit_2522[1] = Call("imx8m_usb_power")
    BY DEF BoardUsbInit_2522, UsbPhyInit_2522
  <2> QED
    BY <1>2, <2>2, <2>3, <2>4 DEF BoardUsbCleanup_2522
<1> QED
  BY <1>1, <1>2

(* What board_init has done before its step n. *)
Opened(n) ==
  IF board = "aesys_2409" THEN n >= 2 => 13 \notin gpr1
  ELSE /\ n >= 2 => 22 \in gpr1
       /\ n >= 3 => 16 \in gpr1 /\ 17 \notin gpr1 /\ 18 \notin gpr1
       /\ n >= 4 => 19 \in gpr1 /\ 21 \in gpr1
       /\ n >= 5 => "eqos" \in clk
       /\ n >= 6 => "usb" \in clk

ClockInv ==
  /\ Fixed /\ clk \subseteq {"eqos", "usb"}
  /\ pc = "board_init" => Opened(step)
  /\ pc \in Prompt => Opened(6)

LEMMA ClockStep == ASSUME ClockInv, [Next]_vars PROVE ClockInv'
<1>0. Fixed /\ Fixed' /\ board \in Boards /\ step \in Nat \ {0}
  BY StepFixed DEF ClockInv, Fixed
<1>1. ASSUME UNCHANGED <<board, gpr1, clk>>, pc' # "board_init", pc' \in Prompt => pc \in Prompt
      PROVE  ClockInv'
  BY <1>0, <1>1 DEF ClockInv, Opened
<1>2. CASE SplNext /\ UNCHANGED ubootVars
  BY <1>1, <1>2, SplFrame DEF Loading, Prompt, ubootVars
<1>3. CASE EarlyInitF \/ FixFdt
  BY <1>1, <1>3 DEF EarlyInitF, FixFdt, Prompt, ubootVars
<1>4. CASE ProbeUart
  BY <1>0, <1>4 DEF ClockInv, Opened, ProbeUart, Prompt, ubootVars
<1>5. CASE BoardInitCall
  <2> DEFINE call == Code[board].boardInit[step]
  <2>1. /\ pc = "board_init" /\ pc' = "board_init" /\ board' = board /\ step' = step + 1
    BY <1>5 DEF BoardInitCall
  <2>2. step <= Len(Code[board].boardInit)
    BY <1>5 DEF BoardInitCall
  <2>3. Opened(step)
    BY <1>5 DEF BoardInitCall, ClockInv
  <2>4. gpr1' = IF call.do = "GPR1" THEN ApplyBits(gpr1, call) ELSE gpr1
    BY <1>5 DEF BoardInitCall
  <2>5. /\ clk' \in {clk, clk \cup {"eqos"}, clk \cup {"usb"}}
        /\ call.do = "set_clk_eqos" => clk' = clk \cup {"eqos"}
        /\ call.do = "init_usb_clk" => clk' = clk \cup {"usb"}
    <3>1. clk' = CASE call.do = "set_clk_eqos" -> clk \cup {"eqos"}
                   [] call.do = "init_usb_clk" -> clk \cup {"usb"}
                   [] OTHER                    -> clk
      BY <1>5 DEF BoardInitCall
    <3> HIDE DEF call
    <3> QED
      BY <3>1
  <2>6. Opened(step)'
    <3>1. CASE board = "aesys_2409"
      <4>1. call = [do |-> "GPR1", clear |-> {13}, set |-> {}]
        <5>1. Code[board].boardInit = <<SetupFec_2409>>
          BY <3>1 DEF Code, BoardInit_2409
        <5>2. step = 1
          BY <1>0, <2>2, <5>1
        <5> QED
          BY <5>1, <5>2 DEF SetupFec_2409, Write
      <4>2. 13 \notin gpr1'
        BY <2>4, <4>1 DEF ApplyBits
      <4> QED
        BY <2>1, <3>1, <4>2 DEF Opened
    <3>2. CASE board # "aesys_2409"
      <4>1. step \in 1 .. 5
        <5>1. Len(Code[board].boardInit) = 5
          BY <1>0, <3>2, Inits
        <5> QED
          BY <1>0, <2>2, <5>1
      <4>2. CASE step = 1
        <5>1. call = [do |-> "GPR1", clear |-> {}, set |-> {22}]
          BY <1>0, <3>2, <4>2, Inits DEF Write
        <5>2. 22 \in gpr1'
          BY <2>4, <5>1 DEF ApplyBits
        <5> QED
          BY <2>1, <3>2, <4>2, <2>3, <5>2 DEF Opened
      <4>3. CASE step = 2
        <5>1. call = [do |-> "GPR1", clear |-> 16 .. 18, set |-> {16}]
          BY <1>0, <3>2, <4>3, Inits DEF Write
        <5>2. 16 \in gpr1' /\ 17 \notin gpr1' /\ 18 \notin gpr1' /\ (22 \in gpr1 => 22 \in gpr1')
          BY <2>4, <5>1 DEF ApplyBits
        <5> QED
          BY <2>1, <3>2, <4>3, <2>3, <5>2 DEF Opened
      <4>4. CASE step = 3
        <5>1. call = [do |-> "GPR1", clear |-> {}, set |-> {19, 21}]
          BY <1>0, <3>2, <4>4, Inits DEF Write
        <5>2. gpr1' = gpr1 \cup {19, 21}
          BY <2>4, <5>1 DEF ApplyBits
        <5> QED
          BY <2>1, <3>2, <4>4, <2>3, <5>2 DEF Opened
      <4>5. CASE step = 4
        <5>1. call.do = "set_clk_eqos"
          BY <1>0, <3>2, <4>5, Inits DEF Call
        <5> QED
          BY <2>1, <2>4, <2>5, <3>2, <4>5, <2>3, <5>1 DEF Opened
      <4>6. CASE step = 5
        <5>1. call.do = "init_usb_clk"
          BY <1>0, <3>2, <4>6, Inits DEF Call
        <5> QED
          BY <2>1, <2>4, <2>5, <3>2, <4>6, <2>3, <5>1 DEF Opened
      <4> QED
        BY <4>1, <4>2, <4>3, <4>4, <4>5, <4>6
    <3> QED
      BY <3>1, <3>2
  <2> QED
    BY <1>0, <2>1, <2>5, <2>6 DEF ClockInv, Prompt, Opened
<1>6. CASE BoardLateInit
  <2>1. /\ pc = "board_init" /\ pc' = "main" /\ UNCHANGED <<board, gpr1, clk>>
        /\ step > Len(Code[board].boardInit)
    BY <1>6 DEF BoardLateInit
  <2>2. IF board = "aesys_2409" THEN step >= 2 ELSE step >= 6
    <3>1. CASE board = "aesys_2409"
      <4>1. Code[board].boardInit = <<SetupFec_2409>>
        BY <3>1 DEF Code, BoardInit_2409
      <4> QED
        BY <1>0, <2>1, <3>1, <4>1
    <3>2. CASE board # "aesys_2409"
      BY <1>0, <2>1, <3>2, Inits
    <3> QED
      BY <3>1, <3>2
  <2> QED
    BY <1>0, <2>1, <2>2 DEF ClockInv, Opened
<1>7. CASE Usb \/ UsbStart \/ UsbStop
  BY <1>1, <1>7, UsbFrame DEF Prompt
<1>8. CASE Network
  BY <1>1, <1>8, EthFrame DEF Prompt
<1>9. CASE PowerCycle
  BY <1>0, <1>9 DEF ClockInv, PowerCycle, Prompt
<1>10. CASE UNCHANGED vars
  BY <1>0, <1>10 DEF ClockInv, Opened, vars, splVars, ubootVars
<1> QED
  BY <1>2, <1>3, <1>4, <1>5, <1>6, <1>7, <1>8, <1>9, <1>10
  DEF Next, Program, UBootNext, Usb, Network

LEMMA ClockAlways == Spec => []ClockInv
<1>1. Init => ClockInv
  BY InitFixed DEF Init, ClockInv, SplInit, UBootInitial, Prompt
<1> QED
  BY <1>1, ClockStep, PTL DEF Spec

(* At the prompt the Ethernet interfaces have their clocks and modes,        *)
(* whatever the register held before (setup_fec, setup_eqos).                *)
THEOREM ClocksAlways == Spec => []EthernetClocks
<1>1. ASSUME ClockInv, pc \in Prompt, board = "aesys_2409" PROVE 13 \notin gpr1
  BY <1>1 DEF ClockInv, Opened
<1>2. ASSUME ClockInv, pc \in Prompt, board # "aesys_2409"
      PROVE  gpr1 \cap {16, 17, 18, 19, 21, 22} = {16, 19, 21, 22} /\ clk = {"eqos", "usb"}
  <2>1. /\ 16 \in gpr1 /\ 17 \notin gpr1 /\ 18 \notin gpr1
        /\ 19 \in gpr1 /\ 21 \in gpr1 /\ 22 \in gpr1
        /\ "eqos" \in clk /\ "usb" \in clk /\ clk \subseteq {"eqos", "usb"}
    BY <1>2 DEF ClockInv, Opened
  <2>2. gpr1 \cap {16, 17, 18, 19, 21, 22} = {16, 19, 21, 22}
    BY <2>1
  <2>3. clk = {"eqos", "usb"}
    BY <2>1
  <2> QED
    BY <2>2, <2>3
<1>3. ClockInv => EthernetClocks
  BY <1>1, <1>2 DEF EthernetClocks
<1> QED
  BY <1>3, ClockAlways, PTL

------------------------------------------------------------------------------
(* Why a board hangs *)

HangInv ==
  /\ usb \in [power : BOOLEAN, active : BOOLEAN]
  /\ board = "aesys_2409" => ~usb.active /\ pc \notin {"usb_init", "usb_exit"}
  /\ pc = "usb_init" /\ step >= 2 => usb.power \/ failed # {}
  /\ pc = "usb_exit" => step \in 1 .. 2
  /\ pc = "hang" => failed # {}

LEMMA HangStep ==
  ASSUME HangInv, SupplyInv, ClockInv, [Next]_vars
  PROVE  HangInv'
<1>0. Fixed /\ Fixed' /\ board \in Boards /\ step \in Nat \ {0}
  BY StepFixed DEF ClockInv, Fixed
<1>1. ASSUME UNCHANGED <<board, usb>>, failed \subseteq failed',
             pc' \notin {"usb_init", "usb_exit", "hang"}
      PROVE  HangInv'
  BY <1>1 DEF HangInv
<1>2. CASE SplNext /\ UNCHANGED ubootVars
  <2>1. UNCHANGED <<board, usb>> /\ failed \subseteq failed' /\ pc' \notin {"usb_init", "usb_exit"}
    BY <1>2, SplFrame DEF Loading, ubootVars
  <2>2. ASSUME pc' = "hang" PROVE failed' # {}
    <3>1. pc \in Loading
      BY <1>2, SplFrame
    <3>2. CASE SplFind
      BY <2>2, <3>2 DEF SplFind, Return, Running, Fault
    <3>3. CASE BoardInitR
      <4>1. pc = "spl" /\ step = 6 /\ UNCHANGED failed
        BY <1>0, <3>3, Calls DEF SupplyInv, BoardInitR, Running, BoardInitF_2522
      <4>2. Code[board].bootDevice = "BOOTROM"
        BY <1>0 DEF Boards, Code, SplBoardBootDevice_2319a, SplBoardBootDevice_2409,
           SplBoardBootDevice_2414, SplBoardBootDevice_2414_2g, SplBoardBootDevice_2522,
           SplBoardBootDevice_2602
      <4>3. dram # "trained"
        BY <2>2, <3>3, <4>2 DEF BoardInitR
      <4> QED
        BY <4>1, <4>3 DEF SupplyInv
    <3>4. CASE Rom \/ SplEarlyInitF \/ SplDramInit
      BY <2>2, <3>4 DEF Rom, SplEarlyInitF, SplDramInit, Return
    <3>5. CASE PmicGet \/ PmicWrite \/ PmicDone
      BY <2>2, <3>5 DEF PmicGet, PmicWrite, PmicDone, Return
    <3> QED
      BY <1>2, <3>2, <3>3, <3>4, <3>5 DEF SplNext
  <2> QED
    BY <2>1, <2>2 DEF HangInv
<1>3. CASE EarlyInitF \/ FixFdt \/ ProbeUart \/ BoardInitCall \/ BoardLateInit
  BY <1>1, <1>3 DEF EarlyInitF, FixFdt, ProbeUart, BoardInitCall, BoardLateInit, ubootVars
<1>4. CASE UsbStart
  <2>1. board # "aesys_2409"
    BY <1>0, <1>4, UsbPrograms DEF UsbStart
  <2> QED
    BY <1>4, <2>1 DEF HangInv, UsbStart, UsbIdle
<1>5. CASE UsbStop
  BY <1>5 DEF HangInv, UsbStop, UsbIdle
<1>6. CASE Usb
  <2>1. /\ pc \in {"usb_init", "usb_exit"} /\ board # "aesys_2409" /\ board' = board
        /\ failed \subseteq failed'
    BY <1>6, UsbFrame DEF HangInv, Usb, UsbPower, UsbWrite, UsbDevice, UsbExit, UsbCalls
  <2>2. pc = "usb_exit" => UsbProgram = <<Call("dwc3_uboot_exit"), Call("imx8m_usb_power")>>
    BY <1>0, <2>1, UsbPrograms DEF UsbProgram
  <2>3. pc = "usb_init" /\ step = 1 => UsbProgram[step].do = "imx8m_usb_power"
    BY <1>0, <2>1, UsbPrograms DEF UsbProgram, Call
  <2>4. ASSUME UsbReturn
        PROVE  /\ pc' \in {pc, "main"} /\ (pc' = "usb_init" => step' = step + 1)
               /\ (pc' = "usb_exit" => step' \in 1 .. 2)
    <3>1. CASE pc = "usb_init"
      BY <2>4, <3>1 DEF UsbReturn
    <3>2. CASE pc = "usb_exit"
      <4>1. Len(UsbProgram) = 2
        BY <2>2, <3>2
      <4>2. step \in 1 .. 2
        BY <3>2 DEF HangInv
      <4> QED
        BY <2>4, <3>2, <4>1, <4>2 DEF UsbReturn
    <3> QED
      BY <2>1, <3>1, <3>2
  <2>5. CASE UsbPower
    <3>1. UsbReturn
      BY <2>5 DEF UsbPower
    <3>2. CASE usb' = [usb EXCEPT !.power = (pc = "usb_init")]
      <4>1. usb' \in [power : BOOLEAN, active : BOOLEAN] /\ (pc = "usb_init" => usb'.power)
        BY <3>2 DEF HangInv
      <4> QED
        BY <2>1, <2>4, <3>1, <4>1 DEF HangInv
    <3>3. CASE Fault("imx8m_usb_power") /\ UNCHANGED usb
      BY <2>1, <2>4, <3>1, <3>3 DEF HangInv, Fault
    <3> QED
      BY <2>5, <3>2, <3>3 DEF UsbPower
  <2>6. CASE UsbWrite
    <3>1. pc = "usb_init" /\ step >= 2
      <4>1. UsbProgram[step].do \in UsbRegisters
        BY <2>6 DEF UsbWrite, UsbCalls
      <4>2. ASSUME pc = "usb_exit" PROVE FALSE
        <5>1. step \in 1 .. 2
          BY <4>2 DEF HangInv
        <5>2. UsbProgram[step].do \in {"dwc3_uboot_exit", "imx8m_usb_power"}
          BY <2>2, <4>2, <5>1 DEF Call
        <5> QED
          BY <4>1, <5>2 DEF UsbRegisters
      <4>3. step # 1
        BY <2>1, <2>3, <4>1, <4>2 DEF UsbRegisters
      <4> QED
        BY <1>0, <2>1, <4>2, <4>3
    <3>2. "usb" \in clk
      BY <2>1, <3>1 DEF ClockInv, Prompt, Opened
    <3>3. UNCHANGED <<usb, failed>>
      BY <2>6 DEF UsbWrite
    <3>4. usb.power \/ failed # {}
      BY <3>1 DEF HangInv
    <3>5. UsbReturn \/ (pc' = "hang" /\ ~usb.power)
      BY <2>6, <3>2 DEF UsbWrite
    <3> QED
      BY <1>0, <2>1, <2>4, <3>1, <3>3, <3>4, <3>5 DEF HangInv
  <2>7. CASE UsbDevice \/ UsbExit
    <3>1. UsbReturn
      BY <2>7 DEF UsbDevice, UsbExit
    <3>2. pc = "usb_init" /\ step = 1 => FALSE
      BY <2>3, <2>7 DEF UsbDevice, UsbExit, UsbCalls
    <3>3. \E a \in BOOLEAN : usb' = [usb EXCEPT !.active = a] \/ usb' = usb
      BY <2>7 DEF UsbDevice, UsbExit
    <3>4. usb' \in [power : BOOLEAN, active : BOOLEAN] /\ usb'.power = usb.power
      BY <3>3 DEF HangInv
    <3> QED
      BY <1>0, <2>1, <2>4, <3>1, <3>2, <3>4 DEF HangInv
  <2> QED
    BY <1>6, <2>5, <2>6, <2>7 DEF Usb
<1>7. CASE Network
  BY <1>1, <1>7, EthFrame
<1>8. CASE PowerCycle
  BY <1>8 DEF HangInv, PowerCycle, UsbOff
<1>9. CASE UNCHANGED vars
  BY <1>9 DEF HangInv, vars, splVars, ubootVars
<1> QED
  BY <1>2, <1>3, <1>4, <1>5, <1>6, <1>7, <1>8, <1>9 DEF Next, Program, UBootNext, Usb, Network

LEMMA HangAlways == Spec => []HangInv
<1>1. Init => HangInv
  BY DEF Init, HangInv, SplInit, UBootInitial, UsbOff
<1> QED
  BY <1>1, HangStep, SupplyAlways, ClockAlways, PTL DEF Spec

(* A board that hangs has had a failing call since its power came on: the    *)
(* code gives the memory its supply before it trains it and the USB PHY its  *)
(* clock and power before it touches it, on every board and however often    *)
(* USB is started and stopped.                                               *)
THEOREM HangsHaveCauses == Spec => []HangHasCause
<1>1. HangInv => HangHasCause
  BY DEF HangInv, HangHasCause
<1> QED
  BY <1>1, HangAlways, PTL
------------------------------------------------------------------------------
(* The registers of the PHY, once the USB device is up *)

LEMMA Nine ==
  ASSUME NEW a, NEW b, NEW c, NEW d, NEW e, NEW f, NEW g, NEW h, NEW i, NEW s,
         s = <<a>> \o <<b, c, d, e, f, g, h>> \o <<i>>
  PROVE  /\ Len(s) = 9 /\ s[1] = a /\ s[2] = b /\ s[3] = c /\ s[4] = d /\ s[5] = e
         /\ s[6] = f /\ s[7] = g /\ s[8] = h /\ s[9] = i
  OBVIOUS

(* Every board with a USB device has the same board_usb_init. *)
LEMMA PhyProgram ==
  ASSUME board \in Boards, board # "aesys_2409"
  PROVE  LET p == Code[board].usbInit IN
         /\ Len(p) = 9 /\ p[1] = Call("imx8m_usb_power")
         /\ p[2] = Write("HSIO_GPR_REG_0", {}, {1})
         /\ p[3] = Write("USB_PHY_CTRL0", 5 .. 10, {6, 8, 10})
         /\ p[4] = Write("USB_PHY_CTRL6", {0}, {})
         /\ p[5] = Write("USB_PHY_CTRL1", {1, 19, 20}, {0, 3})
         /\ p[6] = Write("USB_PHY_CTRL0", {}, {2})
         /\ p[7] = Write("USB_PHY_CTRL2", {}, {8})
         /\ p[8] = Write("USB_PHY_CTRL1", {0, 3}, {})
         /\ p[9] = Call("dwc3_uboot_init")
<1>1. /\ BoardUsbInit_2319a = BoardUsbInit_2522 /\ BoardUsbInit_2414 = BoardUsbInit_2522
      /\ BoardUsbInit_2414_2g = BoardUsbInit_2522 /\ BoardUsbInit_2602 = BoardUsbInit_2522
  BY DEF BoardUsbInit_2319a, BoardUsbInit_2414, BoardUsbInit_2414_2g, BoardUsbInit_2522,
     BoardUsbInit_2602, UsbPhyInit_2319a, UsbPhyInit_2414, UsbPhyInit_2414_2g, UsbPhyInit_2602
<1>2. Code[board].usbInit = BoardUsbInit_2522
  BY <1>1 DEF Boards, Code
<1> QED
  BY <1>2, Nine DEF BoardUsbInit_2522, UsbPhyInit_2522

(* What the writes before step n of board_usb_init have left. *)
Phy(n, regs) ==
  /\ n >= 3 => 1 \in regs["HSIO_GPR_REG_0"]
  /\ n >= 4 => /\ 6 \in regs["USB_PHY_CTRL0"] /\ 8 \in regs["USB_PHY_CTRL0"]
               /\ 10 \in regs["USB_PHY_CTRL0"] /\ 5 \notin regs["USB_PHY_CTRL0"]
               /\ 7 \notin regs["USB_PHY_CTRL0"] /\ 9 \notin regs["USB_PHY_CTRL0"]
  /\ n >= 5 => 0 \notin regs["USB_PHY_CTRL6"]
  /\ n >= 6 => /\ 1 \notin regs["USB_PHY_CTRL1"] /\ 19 \notin regs["USB_PHY_CTRL1"]
               /\ 20 \notin regs["USB_PHY_CTRL1"]
  /\ n >= 7 => 2 \in regs["USB_PHY_CTRL0"]
  /\ n >= 8 => 8 \in regs["USB_PHY_CTRL2"]
  /\ n >= 9 => 0 \notin regs["USB_PHY_CTRL1"] /\ 3 \notin regs["USB_PHY_CTRL1"]

(* The device is active only behind the last step, and nothing writes to its *)
(* PHY while it is.                                                          *)
PhyInv ==
  /\ usbregs \in [UsbRegisters -> SUBSET (0 .. 31)]
  /\ pc = "usb_init" => ~usb.active /\ step \in 1 .. 9 /\ Phy(step, usbregs)
  /\ usb.active => Phy(9, usbregs)

(* One write changes one register. *)
LEMMA OneRegister ==
  ASSUME NEW reg \in UsbRegisters, NEW bits \in SUBSET (0 .. 31),
         usbregs \in [UsbRegisters -> SUBSET (0 .. 31)],
         usbregs' = [usbregs EXCEPT ![reg] = bits]
  PROVE  /\ usbregs' \in [UsbRegisters -> SUBSET (0 .. 31)] /\ usbregs'[reg] = bits
         /\ \A r \in UsbRegisters \ {reg} : usbregs'[r] = usbregs[r]
  OBVIOUS

(* One write brings the registers one step further. *)
LEMMA PhyWrite ==
  ASSUME PhyInv, board \in Boards, board # "aesys_2409", step \in 1 .. 9,
         LET w == Code[board].usbInit[step] IN
           /\ w.do \in UsbRegisters
           /\ usbregs' = [usbregs EXCEPT ![w.do] = ApplyBits(@, w)],
         Phy(step, usbregs)
  PROVE  /\ step \in 2 .. 8 /\ Phy(step + 1, usbregs') /\ usbregs' \in [UsbRegisters -> SUBSET (0 .. 31)]
<1> DEFINE w == Code[board].usbInit[step]
           Written(reg, bits) == usbregs' = [usbregs EXCEPT ![reg] = bits]
<1>0. usbregs \in [UsbRegisters -> SUBSET (0 .. 31)] /\ Len(Code[board].usbInit) = 9
  BY PhyProgram DEF PhyInv
<1>1. step \notin {1, 9}
  BY PhyProgram DEF Call, UsbRegisters
<1>2. step \in 2 .. 8
  BY <1>1
<1>3. CASE step = 2
  <2>1. w = [do |-> "HSIO_GPR_REG_0", clear |-> {}, set |-> {1}]
    BY <1>3, PhyProgram DEF Write
  <2>2. Written("HSIO_GPR_REG_0", usbregs["HSIO_GPR_REG_0"] \cup {1})
    BY <2>1 DEF ApplyBits
  <2>3. usbregs["HSIO_GPR_REG_0"] \cup {1} \in SUBSET (0 .. 31)
    BY <1>0 DEF UsbRegisters
  <2>4. /\ usbregs' \in [UsbRegisters -> SUBSET (0 .. 31)] /\ usbregs'["HSIO_GPR_REG_0"] = usbregs["HSIO_GPR_REG_0"] \cup {1}
        /\ \A r \in UsbRegisters \ {"HSIO_GPR_REG_0"} : usbregs'[r] = usbregs[r]
    BY <1>0, <2>2, <2>3, OneRegister DEF UsbRegisters
  <2> QED
    BY <1>0, <1>2, <1>3, <2>4 DEF Phy, UsbRegisters
<1>4. CASE step = 3
  <2>1. w = [do |-> "USB_PHY_CTRL0", clear |-> 5 .. 10, set |-> {6, 8, 10}]
    BY <1>4, PhyProgram DEF Write
  <2>2. Written("USB_PHY_CTRL0", (usbregs["USB_PHY_CTRL0"] \ (5 .. 10)) \cup {6, 8, 10})
    BY <2>1 DEF ApplyBits
  <2>3. (usbregs["USB_PHY_CTRL0"] \ (5 .. 10)) \cup {6, 8, 10} \in SUBSET (0 .. 31)
    BY <1>0 DEF UsbRegisters
  <2>4. /\ usbregs' \in [UsbRegisters -> SUBSET (0 .. 31)] /\ usbregs'["USB_PHY_CTRL0"] = (usbregs["USB_PHY_CTRL0"] \ (5 .. 10)) \cup {6, 8, 10}
        /\ \A r \in UsbRegisters \ {"USB_PHY_CTRL0"} : usbregs'[r] = usbregs[r]
    BY <1>0, <2>2, <2>3, OneRegister DEF UsbRegisters
  <2> QED
    BY <1>0, <1>2, <1>4, <2>4 DEF Phy, UsbRegisters
<1>5. CASE step = 4
  <2>1. w = [do |-> "USB_PHY_CTRL6", clear |-> {0}, set |-> {}]
    BY <1>5, PhyProgram DEF Write
  <2>2. Written("USB_PHY_CTRL6", usbregs["USB_PHY_CTRL6"] \ {0})
    BY <2>1 DEF ApplyBits
  <2>3. usbregs["USB_PHY_CTRL6"] \ {0} \in SUBSET (0 .. 31)
    BY <1>0 DEF UsbRegisters
  <2>4. /\ usbregs' \in [UsbRegisters -> SUBSET (0 .. 31)] /\ usbregs'["USB_PHY_CTRL6"] = usbregs["USB_PHY_CTRL6"] \ {0}
        /\ \A r \in UsbRegisters \ {"USB_PHY_CTRL6"} : usbregs'[r] = usbregs[r]
    BY <1>0, <2>2, <2>3, OneRegister DEF UsbRegisters
  <2> QED
    BY <1>0, <1>2, <1>5, <2>4 DEF Phy, UsbRegisters
<1>6. CASE step = 5
  <2>1. w = [do |-> "USB_PHY_CTRL1", clear |-> {1, 19, 20}, set |-> {0, 3}]
    BY <1>6, PhyProgram DEF Write
  <2>2. Written("USB_PHY_CTRL1", (usbregs["USB_PHY_CTRL1"] \ {1, 19, 20}) \cup {0, 3})
    BY <2>1 DEF ApplyBits
  <2>3. (usbregs["USB_PHY_CTRL1"] \ {1, 19, 20}) \cup {0, 3} \in SUBSET (0 .. 31)
    BY <1>0 DEF UsbRegisters
  <2>4. /\ usbregs' \in [UsbRegisters -> SUBSET (0 .. 31)] /\ usbregs'["USB_PHY_CTRL1"] = (usbregs["USB_PHY_CTRL1"] \ {1, 19, 20}) \cup {0, 3}
        /\ \A r \in UsbRegisters \ {"USB_PHY_CTRL1"} : usbregs'[r] = usbregs[r]
    BY <1>0, <2>2, <2>3, OneRegister DEF UsbRegisters
  <2> QED
    BY <1>0, <1>2, <1>6, <2>4 DEF Phy, UsbRegisters
<1>7. CASE step = 6
  <2>1. w = [do |-> "USB_PHY_CTRL0", clear |-> {}, set |-> {2}]
    BY <1>7, PhyProgram DEF Write
  <2>2. Written("USB_PHY_CTRL0", usbregs["USB_PHY_CTRL0"] \cup {2})
    BY <2>1 DEF ApplyBits
  <2>3. usbregs["USB_PHY_CTRL0"] \cup {2} \in SUBSET (0 .. 31)
    BY <1>0 DEF UsbRegisters
  <2>4. /\ usbregs' \in [UsbRegisters -> SUBSET (0 .. 31)] /\ usbregs'["USB_PHY_CTRL0"] = usbregs["USB_PHY_CTRL0"] \cup {2}
        /\ \A r \in UsbRegisters \ {"USB_PHY_CTRL0"} : usbregs'[r] = usbregs[r]
    BY <1>0, <2>2, <2>3, OneRegister DEF UsbRegisters
  <2> QED
    BY <1>0, <1>2, <1>7, <2>4 DEF Phy, UsbRegisters
<1>8. CASE step = 7
  <2>1. w = [do |-> "USB_PHY_CTRL2", clear |-> {}, set |-> {8}]
    BY <1>8, PhyProgram DEF Write
  <2>2. Written("USB_PHY_CTRL2", usbregs["USB_PHY_CTRL2"] \cup {8})
    BY <2>1 DEF ApplyBits
  <2>3. usbregs["USB_PHY_CTRL2"] \cup {8} \in SUBSET (0 .. 31)
    BY <1>0 DEF UsbRegisters
  <2>4. /\ usbregs' \in [UsbRegisters -> SUBSET (0 .. 31)] /\ usbregs'["USB_PHY_CTRL2"] = usbregs["USB_PHY_CTRL2"] \cup {8}
        /\ \A r \in UsbRegisters \ {"USB_PHY_CTRL2"} : usbregs'[r] = usbregs[r]
    BY <1>0, <2>2, <2>3, OneRegister DEF UsbRegisters
  <2> QED
    BY <1>0, <1>2, <1>8, <2>4 DEF Phy, UsbRegisters
<1>9. CASE step = 8
  <2>1. w = [do |-> "USB_PHY_CTRL1", clear |-> {0, 3}, set |-> {}]
    BY <1>9, PhyProgram DEF Write
  <2>2. Written("USB_PHY_CTRL1", usbregs["USB_PHY_CTRL1"] \ {0, 3})
    BY <2>1 DEF ApplyBits
  <2>3. usbregs["USB_PHY_CTRL1"] \ {0, 3} \in SUBSET (0 .. 31)
    BY <1>0 DEF UsbRegisters
  <2>4. /\ usbregs' \in [UsbRegisters -> SUBSET (0 .. 31)] /\ usbregs'["USB_PHY_CTRL1"] = usbregs["USB_PHY_CTRL1"] \ {0, 3}
        /\ \A r \in UsbRegisters \ {"USB_PHY_CTRL1"} : usbregs'[r] = usbregs[r]
    BY <1>0, <2>2, <2>3, OneRegister DEF UsbRegisters
  <2> QED
    BY <1>0, <1>2, <1>9, <2>4 DEF Phy, UsbRegisters
<1> QED
  BY <1>2, <1>3, <1>4, <1>5, <1>6, <1>7, <1>8, <1>9

LEMMA LeftoverTypes ==
  ASSUME NEW left \in Leftovers
  PROVE  left.gpr1 \subseteq 0 .. 31 /\ left.usb \in [UsbRegisters -> SUBSET (0 .. 31)]
  BY DEF Leftovers

LEMMA PhyStep ==
  ASSUME PhyInv, HangInv, ClockInv, [Next]_vars
  PROVE  PhyInv'
<1>0. board \in Boards /\ step \in Nat \ {0}
  BY DEF ClockInv, Fixed
<1>1. ASSUME UNCHANGED <<usb, usbregs>>, pc' # "usb_init" PROVE PhyInv'
  BY <1>1 DEF PhyInv
<1>2. CASE SplNext /\ UNCHANGED ubootVars
  BY <1>1, <1>2, SplFrame DEF Loading, ubootVars
<1>3. CASE EarlyInitF \/ FixFdt \/ ProbeUart \/ BoardInitCall \/ BoardLateInit
  BY <1>1, <1>3 DEF EarlyInitF, FixFdt, ProbeUart, BoardInitCall, BoardLateInit, ubootVars
<1>4. CASE UsbStart
  BY <1>4 DEF PhyInv, Phy, UsbStart, UsbIdle
<1>5. CASE UsbStop
  BY <1>1, <1>5 DEF UsbStop
<1>6. CASE Usb
  <2>1. pc \in {"usb_init", "usb_exit"} /\ board # "aesys_2409"
    BY <1>6 DEF HangInv, Usb, UsbPower, UsbWrite, UsbDevice, UsbExit, UsbCalls
  <2>2. CASE pc = "usb_exit"
    <3>1. UsbProgram = <<Call("dwc3_uboot_exit"), Call("imx8m_usb_power")>>
      BY <1>0, <2>1, <2>2, UsbPrograms DEF UsbProgram
    <3>2. UsbProgram[step].do \in {"dwc3_uboot_exit", "imx8m_usb_power"} /\ Len(UsbProgram) = 2
      <4>1. step \in 1 .. 2
        BY <2>2 DEF HangInv
      <4> QED
        BY <3>1, <4>1 DEF Call
    <3>3. UsbPower \/ UsbExit
      BY <1>6, <3>2 DEF Usb, UsbWrite, UsbDevice, UsbCalls, UsbRegisters
    <3>4. UNCHANGED usbregs /\ pc' # "usb_init" /\ (usb'.active => usb.active)
      BY <2>2, <3>3 DEF UsbPower, UsbExit, UsbReturn, HangInv, Fault
    <3> QED
      BY <3>4 DEF PhyInv
  <2>3. CASE pc = "usb_init"
    <3>1. UsbProgram = Code[board].usbInit /\ Len(UsbProgram) = 9
      BY <1>0, <2>1, <2>3, PhyProgram DEF UsbProgram
    <3>2. step \in 1 .. 9 /\ Phy(step, usbregs) /\ ~usb.active
      BY <2>3 DEF PhyInv
    <3>3. CASE UsbPower
      <4>1. step = 1
        BY <1>0, <2>1, <3>1, <3>2, <3>3, PhyProgram DEF UsbPower, UsbCalls, Write, Call
      <4>2. UNCHANGED usbregs /\ step' = 2
        BY <3>1, <3>3, <4>1 DEF UsbPower, UsbReturn
      <4>3. ~usb'.active
        BY <3>2, <3>3 DEF UsbPower, HangInv
      <4> QED
        BY <4>2, <4>3 DEF PhyInv, Phy
    <3>4. CASE UsbWrite
      <4>1. UNCHANGED usb
        BY <3>4 DEF UsbWrite
      <4>2. CASE pc' = "hang"
        <5>1. usbregs' = usbregs \/ UsbReturn
          BY <3>4 DEF UsbWrite
        <5>2. ~UsbReturn
          BY <2>3, <4>2 DEF UsbReturn
        <5> QED
          BY <1>1, <4>1, <4>2, <5>1, <5>2
      <4>3. CASE pc' # "hang"
        <5>1. UsbReturn /\ usbregs' = [usbregs EXCEPT ![UsbProgram[step].do]
                                          = ApplyBits(@, UsbProgram[step])]
          BY <3>4, <4>3 DEF UsbWrite
        <5>2. UsbProgram[step].do \in UsbRegisters
          BY <3>4 DEF UsbWrite, UsbCalls
        <5>3. /\ step \in 2 .. 8 /\ Phy(step + 1, usbregs')
              /\ usbregs' \in [UsbRegisters -> SUBSET (0 .. 31)]
          BY <1>0, <2>1, <3>1, <3>2, <5>1, <5>2, PhyWrite
        <5>4. step' = step + 1
          BY <3>1, <5>1, <5>3 DEF UsbReturn
        <5>5. step' \in 1 .. 9
          BY <5>3, <5>4
        <5> QED
          BY <3>2, <4>1, <5>3, <5>4, <5>5 DEF PhyInv
      <4> QED
        BY <4>2, <4>3
    <3>5. CASE UsbDevice
      <4>1. step = 9
        BY <1>0, <2>1, <3>1, <3>2, <3>5, PhyProgram DEF UsbDevice, UsbCalls, Write, Call
      <4>2. pc' = "main" /\ UNCHANGED usbregs
        BY <3>1, <3>5, <4>1 DEF UsbDevice, UsbReturn
      <4> QED
        BY <3>2, <4>1, <4>2 DEF PhyInv
    <3>6. CASE UsbExit
      <4>1. FALSE
        BY <1>0, <2>1, <3>1, <3>2, <3>6, PhyProgram DEF UsbExit, UsbCalls, Write, Call
      <4> QED
        BY <4>1
    <3> QED
      BY <1>6, <3>3, <3>4, <3>5, <3>6 DEF Usb
  <2> QED
    BY <2>1, <2>2, <2>3
<1>7. CASE Network
  <2>1. UNCHANGED <<usb, usbregs>>
    BY <1>7 DEF Network, EthStart, EthStep, EthStepFails, EthReady, Negotiate, EthIdle
  <2> QED
    BY <1>1, <1>7, <2>1, EthFrame
<1>8. CASE PowerCycle
  <2>1. pc' = "rom" /\ usb' = UsbOff /\ \E left \in Leftovers : usbregs' = left.usb
    BY <1>8 DEF PowerCycle
  <2>2. usbregs' \in [UsbRegisters -> SUBSET (0 .. 31)]
    BY <2>1, LeftoverTypes
  <2> QED
    BY <2>1, <2>2 DEF PhyInv, UsbOff
<1>9. CASE UNCHANGED vars
  BY <1>9 DEF PhyInv, vars, splVars, ubootVars
<1> QED
  BY <1>2, <1>3, <1>4, <1>5, <1>6, <1>7, <1>8, <1>9 DEF Next, Program, UBootNext, Usb, Network

LEMMA PhyAlways == Spec => []PhyInv
<1>1. Init => PhyInv
  BY LeftoverTypes DEF Init, PhyInv, SplInit, UBootInitial, UsbOff
<1> QED
  BY <1>1, PhyStep, HangAlways, ClockAlways, PTL DEF Spec

(* Whatever the PHY's registers held before and however often the device was *)
(* started and stopped: when it is active its PHY has the reference clock,   *)
(* the transmitter and no reset (dwc3_nxp_usb_phy_init).                     *)
THEOREM UsbIsReady == Spec => []UsbReady
<1>1. ASSUME PhyInv, usb.active
      PROVE  /\ usbregs["USB_PHY_CTRL0"] \cap (2 .. 10 \ {3, 4}) = {2, 6, 8, 10}
             /\ usbregs["USB_PHY_CTRL1"] \cap {0, 1, 3, 19, 20} = {}
             /\ 8 \in usbregs["USB_PHY_CTRL2"] /\ 0 \notin usbregs["USB_PHY_CTRL6"]
             /\ 1 \in usbregs["HSIO_GPR_REG_0"]
  <2>1. Phy(9, usbregs)
    BY <1>1 DEF PhyInv
  <2>2. (2 .. 10) \ {3, 4} = {2, 5, 6, 7, 8, 9, 10}
    OBVIOUS
  <2>3. usbregs["USB_PHY_CTRL0"] \cap {2, 5, 6, 7, 8, 9, 10} = {2, 6, 8, 10}
    BY <2>1 DEF Phy
  <2>4. usbregs["USB_PHY_CTRL1"] \cap {0, 1, 3, 19, 20} = {}
    BY <2>1 DEF Phy
  <2>5. /\ 8 \in usbregs["USB_PHY_CTRL2"] /\ 0 \notin usbregs["USB_PHY_CTRL6"]
        /\ 1 \in usbregs["HSIO_GPR_REG_0"]
    BY <2>1 DEF Phy
  <2> QED
    BY <2>2, <2>3, <2>4, <2>5
<1>2. PhyInv => UsbReady
  BY <1>1 DEF UsbReady
<1> QED
  BY <1>2, PhyAlways, PTL
------------------------------------------------------------------------------
(* The kinds of the values *)

(* What no other invariant says of the stages and of the values. *)
KindInv ==
  /\ pc \in Stages
  /\ dram \in {"off", "trained", "failed"} /\ gic \in {400, 500}
  /\ failed \subseteq FaultyCalls /\ faults \in 0 .. MaxFaults
  /\ fixup \in {0, 1, 3, 4} /\ gpr1 \subseteq 0 .. 31

LEMMA Faults ==
  ASSUME KindInv, \/ UNCHANGED <<failed, faults>>
                  \/ \E call \in FaultyCalls : Fault(call)
  PROVE  failed' \subseteq FaultyCalls /\ faults' \in 0 .. MaxFaults
<1>1. faults \in 0 .. MaxFaults /\ failed \subseteq FaultyCalls
  BY DEF KindInv
<1> QED
  BY <1>1, FaultsAssumption DEF Fault

LEMMA BoardInits ==
  ASSUME board \in Boards, step \in 1 .. Len(Code[board].boardInit)
  PROVE  Code[board].boardInit[step].set \subseteq 0 .. 31
<1>1. CASE board = "aesys_2409"
  <2>1. Code[board].boardInit = <<SetupFec_2409>>
    BY <1>1 DEF Code, BoardInit_2409
  <2> QED
    BY <2>1 DEF SetupFec_2409, Write
<1>2. CASE board # "aesys_2409"
  <2> DEFINE p == Code[board].boardInit
  <2>1. p[1].set = {22} /\ p[2].set = {16} /\ p[3].set = {19, 21}
        /\ p[4].set = {} /\ p[5].set = {} /\ Len(p) = 5
    BY <1>2, Inits DEF Write, Call
  <2>2. step \in {1, 2, 3, 4, 5}
    BY <2>1
  <2>3. p[step].set \in {{22}, {16}, {19, 21}, {}}
    BY <2>1, <2>2
  <2> HIDE DEF p
  <2>4. \A S \in {{22}, {16}, {19, 21}, {}} : S \subseteq 0 .. 31
    OBVIOUS
  <2>5. p[step].set \subseteq 0 .. 31
    BY <2>3, <2>4, Zenon
  <2> QED
    BY <2>5 DEF p
<1> QED
  BY <1>1, <1>2

LEMMA KindStep ==
  ASSUME KindInv, Fixed, [Next]_vars
  PROVE  KindInv'
<1> USE DEF KindInv
<1>0. board \in Boards /\ step \in Nat \ {0}
  BY DEF Fixed
<1>1. ASSUME \/ UNCHANGED <<failed, faults>>
             \/ \E call \in FaultyCalls : Fault(call),
             pc' \in Stages, UNCHANGED <<dram, gic, fixup, gpr1>>
      PROVE  KindInv'
  BY <1>1, Faults
<1>2. CASE SplNext /\ UNCHANGED ubootVars
  <2>0. UNCHANGED <<fixup, gpr1>> /\ pc' \in Stages
    BY <1>2, SplFrame DEF ubootVars, Loading, Stages
  <2>1. CASE Rom \/ SplEarlyInitF
    BY <1>1, <2>0, <2>1 DEF Rom, SplEarlyInitF
  <2>2. CASE SplFind
    <3>1. \/ UNCHANGED <<failed, faults>>
          \/ \E call \in FaultyCalls : Fault(call)
      BY <2>2 DEF SplFind, NoFault, FaultyCalls
    <3> QED
      BY <1>1, <2>0, <2>2, <3>1 DEF SplFind
  <2>3. CASE PmicGet \/ PmicWrite \/ PmicDone
    <3>1. \/ UNCHANGED <<failed, faults>>
          \/ \E call \in FaultyCalls : Fault(call)
      BY <2>3 DEF PmicGet, PmicWrite, PmicDone, NoFault, FaultyCalls
    <3> QED
      BY <1>1, <2>0, <2>3, <3>1 DEF PmicGet, PmicWrite, PmicDone
  <2>4. CASE SplDramInit
    <3>1. \/ UNCHANGED <<failed, faults>>
          \/ \E call \in FaultyCalls : Fault(call)
      BY <2>4 DEF SplDramInit, NoFault, FaultyCalls
    <3>2. dram' \in {"trained", "failed"} /\ UNCHANGED gic
      BY <2>4 DEF SplDramInit
    <3> QED
      BY <2>0, <3>1, <3>2, Faults
  <2>5. CASE BoardInitR
    <3>1. Code[board].gic \in {400, 500}
      BY <1>0 DEF Boards, Code, SplBoardInit_2319a, SplBoardInit_2409, SplBoardInit_2414,
         SplBoardInit_2414_2g, SplBoardInit_2522, SplBoardInit_2602
    <3> QED
      BY <2>0, <2>5, <3>1 DEF BoardInitR
  <2> QED
    BY <1>2, <2>1, <2>2, <2>3, <2>4, <2>5 DEF SplNext
<1>3. CASE EarlyInitF \/ ProbeUart \/ BoardLateInit
  BY <1>1, <1>3 DEF EarlyInitF, ProbeUart, BoardLateInit, ubootVars, Stages
<1>4. CASE FixFdt
  BY <1>4 DEF FixFdt, Stages
<1>5. CASE BoardInitCall
  <2> DEFINE w == Code[board].boardInit[step]
  <2>1. step \in 1 .. Len(Code[board].boardInit)
    <3>1. Len(Code[board].boardInit) \in Nat
      <4>1. CASE board = "aesys_2409"
        BY <4>1 DEF Code, BoardInit_2409
      <4>2. CASE board # "aesys_2409"
        BY <1>0, <4>2, Inits
      <4> QED
        BY <4>1, <4>2
    <3> QED
      BY <1>0, <1>5, <3>1 DEF BoardInitCall
  <2>2. gpr1' = ApplyBits(gpr1, w) \/ gpr1' = gpr1
    BY <1>5 DEF BoardInitCall
  <2>3. w.set \subseteq 0 .. 31
    BY <1>0, <2>1, BoardInits
  <2>4. gpr1' \subseteq 0 .. 31
    <3> HIDE DEF w
    <3>1. gpr1 \subseteq 0 .. 31
      OBVIOUS
    <3>2. ApplyBits(gpr1, w) \subseteq 0 .. 31
      BY ONLY <2>3, <3>1, Zenon DEF ApplyBits
    <3> QED
      BY ONLY <2>2, <3>1, <3>2
  <2> QED
    BY <1>5, <2>4 DEF BoardInitCall
<1>6. CASE Usb \/ UsbStart \/ UsbStop
  <2>1. \/ UNCHANGED <<failed, faults>>
        \/ \E call \in FaultyCalls : Fault(call)
    BY <1>6 DEF Usb, UsbPower, UsbWrite, UsbDevice, UsbExit, UsbStart, UsbStop, NoFault,
       FaultyCalls
  <2>2. pc' \in Stages
    BY <1>6, UsbFrame DEF Prompt, Stages
  <2> QED
    BY <1>1, <1>6, <2>1, <2>2, UsbFrame
<1>7. CASE Network
  <2>1. faults' \in 0 .. MaxFaults
    BY <1>7, FaultsAssumption
    DEF Network, EthStart, EthStep, EthStepFails, EthReady, Negotiate, MdioFault
  <2>2. UNCHANGED gpr1
    BY <1>7 DEF Network, EthStart, EthStep, EthStepFails, EthReady, Negotiate, EthIdle
  <2> QED
    BY <1>7, <2>1, <2>2, EthFrame DEF Stages
<1>8. CASE PowerCycle
  <2>1. faults' \in 0 .. MaxFaults
    BY <1>8, FaultsAssumption DEF PowerCycle
  <2>2. gpr1' \subseteq 0 .. 31
    BY <1>8, LeftoverTypes DEF PowerCycle
  <2> QED
    BY <1>8, <2>1, <2>2 DEF PowerCycle, Stages
<1>9. CASE UNCHANGED vars
  BY <1>9 DEF vars, splVars, ubootVars
<1> QED
  BY <1>2, <1>3, <1>4, <1>5, <1>6, <1>7, <1>8, <1>9 DEF Next, Program, UBootNext, Usb, Network

(* Every variable keeps to values of its kind, on every board, for every     *)
(* strapping and every number of failing calls and power cycles.             *)
THEOREM BoardTypes == Spec => []TypeOK
<1>1. Init => KindInv
  BY LeftoverTypes, FaultsAssumption
  DEF Init, KindInv, SplInit, UBootInitial, Stages
<1>2. Spec => []KindInv
  BY <1>1, KindStep, SupplyAlways, PTL DEF Spec, SupplyInv
<1>3. KindInv /\ SupplyInv /\ ClockInv /\ HangInv /\ PhyInv /\ LinkInv /\ ConsoleInv => TypeOK
  BY DEF KindInv, SupplyInv, Fixed, ClockInv, HangInv, PhyInv, LinkInv, ConsoleInv, Consoles, TypeOK
<1> QED
  BY <1>2, <1>3, SupplyAlways, ClockAlways, HangAlways, PhyAlways, LinkAlways, ConsoleAlways, PTL
------------------------------------------------------------------------------
(* The memory behind the controller *)

(* An address map without gaps: two bytes of columns, the banks, the rows    *)
(* and, with two ranks, the chip select, from the lowest address bit up.     *)
Cell(a, rows) ==
  IF a < 10 THEN <<"col", a, a>>
  ELSE IF a < 13 THEN <<"bank", a - 10, a>>
  ELSE IF a < 13 + rows THEN <<"row", a - 13, a>>
  ELSE <<"cs", 0, a>>

LEMMA CellBit ==
  ASSUME NEW a \in Nat, NEW rows \in Nat
  PROVE  Cell(a, rows)[3] = a
  BY DEF Cell

(* A set of n cells, one for each address bit, has n elements. *)
LEMMA CellsCounted ==
  ASSUME NEW n \in Nat, NEW rows \in Nat
  PROVE  LET cells == {Cell(a, rows) : a \in 0 .. n - 1} IN
         Cardinality(cells) = n /\ {c[3] : c \in cells} = 0 .. n - 1
<1> DEFINE cells == {Cell(a, rows) : a \in 0 .. n - 1}
           f == [i \in 1 .. n |-> Cell(i - 1, rows)]
<1>1. f \in Bijection(1 .. n, cells)
  <2>1. f \in [1 .. n -> cells]
    OBVIOUS
  <2>2. ASSUME NEW i \in 1 .. n, NEW j \in 1 .. n, f[i] = f[j] PROVE i = j
    <3>1. f[i][3] = i - 1 /\ f[j][3] = j - 1
      BY CellBit
    <3> QED
      BY <2>2, <3>1
  <2>3. ASSUME NEW c \in cells PROVE \E i \in 1 .. n : f[i] = c
    <3>1. PICK a \in 0 .. n - 1 : c = Cell(a, rows)
      OBVIOUS
    <3>2. a + 1 \in 1 .. n /\ (a + 1) - 1 = a
      OBVIOUS
    <3>3. f[a + 1] = c
      BY <3>1, <3>2
    <3> QED
      BY <3>2, <3>3
  <2> QED
    BY <2>1, <2>2, <2>3 DEF Bijection, Injection, Surjection, IsInjective
<1>2. Cardinality(cells) = n
  BY <1>1, FS_CountingElements DEF ExistsBijection
<1>3. {c[3] : c \in cells} = 0 .. n - 1
  <2>1. \A a \in 0 .. n - 1 : Cell(a, rows) \in cells /\ Cell(a, rows)[3] = a
    BY CellBit
  <2>2. \A c \in cells : c[3] \in 0 .. n - 1
    BY CellBit
  <2> QED
    BY <2>1, <2>2
<1> QED
  BY <1>2, <1>3

(* What the fields of an address map say of a table with so many rows.       *)
Mapped(ddrc, rows, n) ==
  /\ Byte(ddrc.addrmap[1], 0) = IF n = 14 + rows THEN 7 + rows ELSE \h1F
  /\ n \in {13 + rows, 14 + rows}
  /\ \A k \in 0 .. 2 : Byte(ddrc.addrmap[2], k) = 8
  /\ \A k \in 0 .. 17 : RowField(ddrc, k) = IF k < rows THEN 7 ELSE \hF
  /\ \A k \in 2 .. 11 : ColField(ddrc, k) = IF k < 10 THEN 0 ELSE \h1F

LEMMA MappedBits ==
  ASSUME NEW ddrc, NEW rows \in 0 .. 18, NEW n \in Nat, Mapped(ddrc, rows, n)
  PROVE  AddressBits(ddrc) = {Cell(a, rows) : a \in 0 .. n - 1}
<1> DEFINE cells == {Cell(a, rows) : a \in 0 .. n - 1}
           cs == {<<"cs", 0, 6 + v>> : v \in {Byte(ddrc.addrmap[1], 0)} \ {\h1F}}
           bank == {<<"bank", k, 2 + k + Byte(ddrc.addrmap[2], k)>> : k \in 0 .. 2}
           row == {<<"row", k, 6 + k + RowField(ddrc, k)>> :
                     k \in {r \in 0 .. 17 : RowField(ddrc, r) # \hF}}
           low == {<<"col", k, k>> : k \in 0 .. 1}
           col == {<<"col", k, k + ColField(ddrc, k)>> :
                     k \in {c \in 2 .. 11 : ColField(ddrc, c) < \h1F}}
<1>0. n \in {13 + rows, 14 + rows}
  BY DEF Mapped
<1>1. cs \subseteq cells
  <2>1. ASSUME NEW v \in {Byte(ddrc.addrmap[1], 0)} \ {\h1F} PROVE <<"cs", 0, 6 + v>> \in cells
    <3>1. n = 14 + rows /\ v = 7 + rows
      BY DEF Mapped
    <3>2. Cell(13 + rows, rows) = <<"cs", 0, 6 + v>>
      BY <3>1 DEF Cell
    <3>3. 13 + rows \in 0 .. n - 1
      BY <3>1
    <3> QED
      BY <3>2, <3>3
  <2> QED
    BY <2>1
<1>2. bank \subseteq cells
  <2>1. ASSUME NEW k \in 0 .. 2 PROVE <<"bank", k, 2 + k + Byte(ddrc.addrmap[2], k)>> \in cells
    <3>1. Cell(10 + k, rows) = <<"bank", k, 2 + k + 8>>
      BY DEF Cell
    <3>2. 10 + k \in 0 .. n - 1
      BY <1>0
    <3>3. Byte(ddrc.addrmap[2], k) = 8
      BY DEF Mapped
    <3> QED
      BY <3>1, <3>2, <3>3
  <2> QED
    BY <2>1
<1>3. row \subseteq cells
  <2>1. ASSUME NEW k \in 0 .. 17, RowField(ddrc, k) # \hF
        PROVE  <<"row", k, 6 + k + RowField(ddrc, k)>> \in cells
    <3>1. k < rows /\ RowField(ddrc, k) = 7
      BY <2>1 DEF Mapped
    <3>2. Cell(13 + k, rows) = <<"row", k, 6 + k + 7>>
      BY <3>1 DEF Cell
    <3>3. 13 + k \in 0 .. n - 1
      BY <1>0, <3>1
    <3> QED
      BY <3>1, <3>2, <3>3
  <2> QED
    BY <2>1
<1>4. low \subseteq cells
  <2>1. ASSUME NEW k \in 0 .. 1 PROVE <<"col", k, k>> \in cells
    <3>1. Cell(k, rows) = <<"col", k, k>>
      BY DEF Cell
    <3>2. k \in 0 .. n - 1
      BY <1>0
    <3> QED
      BY <3>1, <3>2
  <2> QED
    BY <2>1
<1>5. col \subseteq cells
  <2>1. ASSUME NEW k \in 2 .. 11, ColField(ddrc, k) < \h1F
        PROVE  <<"col", k, k + ColField(ddrc, k)>> \in cells
    <3>1. k < 10 /\ ColField(ddrc, k) = 0
      BY <2>1 DEF Mapped
    <3>2. Cell(k, rows) = <<"col", k, k + 0>>
      BY <3>1 DEF Cell
    <3>3. k \in 0 .. n - 1
      BY <1>0, <3>1
    <3> QED
      BY <3>1, <3>2, <3>3
  <2> QED
    BY <2>1
<1>6. ASSUME NEW a \in 0 .. n - 1 PROVE Cell(a, rows) \in cs \cup bank \cup row \cup low \cup col
  <2>1. CASE a < 2
    BY <2>1 DEF Cell
  <2>2. CASE a \in 2 .. 9
    <3>1. ColField(ddrc, a) = 0
      BY <2>2 DEF Mapped
    <3>2. a \in {c \in 2 .. 11 : ColField(ddrc, c) < \h1F}
      BY <2>2, <3>1
    <3>3. Cell(a, rows) = <<"col", a, a + ColField(ddrc, a)>>
      BY <2>2, <3>1 DEF Cell
    <3>4. Cell(a, rows) \in col
      BY <3>2, <3>3
    <3> QED
      BY <3>4
  <2>3. CASE a \in 10 .. 12
    <3>1. a - 10 \in 0 .. 2
      BY <2>3
    <3>2. Byte(ddrc.addrmap[2], a - 10) = 8
      BY <3>1 DEF Mapped
    <3>3. Cell(a, rows) = <<"bank", a - 10, 2 + (a - 10) + Byte(ddrc.addrmap[2], a - 10)>>
      BY <2>3, <3>2 DEF Cell
    <3>4. Cell(a, rows) \in bank
      BY <3>1, <3>3
    <3> QED
      BY <3>4
  <2>4. CASE a \in 13 .. 12 + rows
    <3>1. a - 13 \in 0 .. 17 /\ a - 13 < rows
      BY <2>4
    <3>2. RowField(ddrc, a - 13) = 7
      BY <3>1 DEF Mapped
    <3>3. a - 13 \in {r \in 0 .. 17 : RowField(ddrc, r) # \hF}
      BY <3>1, <3>2
    <3>4. Cell(a, rows) = <<"row", a - 13, 6 + (a - 13) + RowField(ddrc, a - 13)>>
      BY <2>4, <3>2 DEF Cell
    <3>5. Cell(a, rows) \in row
      BY <3>3, <3>4
    <3> QED
      BY <3>5
  <2>5. CASE a = 13 + rows
    <3>1. n = 14 + rows
      BY <1>0, <2>5
    <3>2. Byte(ddrc.addrmap[1], 0) = 7 + rows /\ 7 + rows # \h1F
      BY <3>1 DEF Mapped
    <3>3. Cell(a, rows) = <<"cs", 0, 6 + Byte(ddrc.addrmap[1], 0)>>
      BY <2>5, <3>2 DEF Cell
    <3>4. Cell(a, rows) \in cs
      BY <3>2, <3>3
    <3> QED
      BY <3>4
  <2> QED
    BY <1>0, <2>1, <2>2, <2>3, <2>4, <2>5
<1>7. AddressBits(ddrc) = cs \cup bank \cup row \cup low \cup col
  BY DEF AddressBits
<1> HIDE DEF cells, cs, bank, row, low, col
<1>8. AddressBits(ddrc) \subseteq cells
  BY <1>1, <1>2, <1>3, <1>4, <1>5, <1>7
<1>9. cells \subseteq AddressBits(ddrc)
  BY <1>6, <1>7 DEF cells
<1>10. AddressBits(ddrc) = cells
  BY <1>8, <1>9
<1> QED
  BY <1>10 DEF cells

LEMMA MappedExactly ==
  ASSUME NEW ddrc, NEW rows \in 0 .. 18, NEW n \in Nat, Mapped(ddrc, rows, n)
  PROVE  Width(ddrc) = n /\ AddressMapExact(ddrc)
<1> DEFINE cells == {Cell(a, rows) : a \in 0 .. n - 1}
<1>1. AddressBits(ddrc) = cells
  BY MappedBits
<1>0. rows \in Nat
  OBVIOUS
<1>2. Cardinality(cells) = n /\ {c[3] : c \in cells} = 0 .. n - 1
  BY <1>0, CellsCounted, Zenon
<1> HIDE DEF cells
<1>3. Width(ddrc) = n
  BY <1>1, <1>2 DEF Width
<1>4. {bit[3] : bit \in AddressBits(ddrc)} = 0 .. n - 1
  BY <1>1, <1>2
<1>5. 0 .. Width(ddrc) - 1 = 0 .. n - 1
  BY <1>3
<1> QED
  BY <1>3, <1>4, <1>5, Zenon DEF AddressMapExact

(* The fields of the tables: a map is all that counts of it.                 *)
LEMMA FieldsOf ==
  ASSUME NEW ddrc, NEW rows \in {15, 16, 17}, NEW n \in {13 + rows, 14 + rows},
         LET map == ddrc.addrmap IN
         /\ map[1] = <<0, 0, 0, IF n = 14 + rows THEN 7 + rows ELSE \h1F>>
         /\ map[2] = <<0, 8, 8, 8>> /\ map[3] = <<0, 0, 0, 0>> /\ map[4] = <<0, 0, 0, 0>>
         /\ map[5] = <<0, 0, \h1F, \h1F>> /\ map[6] = <<7, 7, 7, 7>>
         /\ map[7] = IF rows = 15 THEN <<\hF, 7, 7, 7>> ELSE <<7, 7, 7, 7>>
         /\ map[8] = IF rows = 17 THEN <<0, 0, \hF, 7>> ELSE <<0, 0, \hF, \hF>>
  PROVE  Mapped(ddrc, rows, n)
<1>1. Byte(ddrc.addrmap[1], 0) = IF n = 14 + rows THEN 7 + rows ELSE \h1F
  BY DEF Byte
<1>2. \A k \in 0 .. 2 : Byte(ddrc.addrmap[2], k) = 8
  <2>1. Byte(ddrc.addrmap[2], 0) = 8 /\ Byte(ddrc.addrmap[2], 1) = 8 /\ Byte(ddrc.addrmap[2], 2) = 8
    BY DEF Byte
  <2> QED
    BY <2>1
<1>3. ASSUME NEW k \in 0 .. 17 PROVE RowField(ddrc, k) = IF k < rows THEN 7 ELSE \hF
  <2>1. CASE k \in 0 .. 1
    <3>1. RowField(ddrc, k) = Byte(ddrc.addrmap[6], k)
      BY <2>1 DEF RowField
    <3>2. k \in {0, 1}
      BY <2>1
    <3>3. Byte(ddrc.addrmap[6], k) = 7
      BY <3>2 DEF Byte
    <3> QED
      BY <3>1, <3>2, <3>3
  <2>2. CASE k \in 2 .. 10
    <3>1. RowField(ddrc, k) = Byte(ddrc.addrmap[6], 2)
      BY <2>2 DEF RowField
    <3>2. Byte(ddrc.addrmap[6], 2) = 7
      BY DEF Byte
    <3> QED
      BY <2>2, <3>1, <3>2
  <2>3. CASE k = 11
    <3>1. RowField(ddrc, k) = Byte(ddrc.addrmap[6], 3)
      BY <2>3 DEF RowField
    <3>2. Byte(ddrc.addrmap[6], 3) = 7
      BY DEF Byte
    <3> QED
      BY <2>3, <3>1, <3>2
  <2>4. CASE k \in 12 .. 15
    <3>1. RowField(ddrc, k) = Byte(ddrc.addrmap[7], k - 12)
      BY <2>4 DEF RowField
    <3>2. k - 12 \in {0, 1, 2, 3}
      BY <2>4
    <3>3. ASSUME rows = 15 PROVE Byte(ddrc.addrmap[7], k - 12) = IF k = 15 THEN \hF ELSE 7
      BY <3>2, <3>3 DEF Byte
    <3>4. ASSUME rows # 15 PROVE Byte(ddrc.addrmap[7], k - 12) = 7
      BY <3>2, <3>4 DEF Byte
    <3> QED
      BY <2>4, <3>1, <3>3, <3>4
  <2>5. CASE k \in 16 .. 17
    <3>1. RowField(ddrc, k) = Byte(ddrc.addrmap[8], k - 16)
      BY <2>5 DEF RowField
    <3>2. k - 16 \in {0, 1}
      BY <2>5
    <3>3. ASSUME rows = 17 PROVE Byte(ddrc.addrmap[8], k - 16) = IF k = 16 THEN 7 ELSE \hF
      BY <3>2, <3>3 DEF Byte
    <3>4. ASSUME rows # 17 PROVE Byte(ddrc.addrmap[8], k - 16) = \hF
      BY <3>2, <3>4 DEF Byte
    <3> QED
      BY <2>5, <3>1, <3>3, <3>4
  <2> QED
    BY <2>1, <2>2, <2>3, <2>4, <2>5
<1>4. ASSUME NEW k \in 2 .. 11 PROVE ColField(ddrc, k) = IF k < 10 THEN 0 ELSE \h1F
  <2>1. CASE k \in 2 .. 5
    <3>1. 2 + (k + 2) \div 4 = 3 /\ (k + 2) % 4 \in {0, 1, 2, 3}
      BY <2>1
    <3>2. ColField(ddrc, k) = Byte(ddrc.addrmap[3], (k + 2) % 4)
      BY <3>1 DEF ColField
    <3>3. Byte(ddrc.addrmap[3], (k + 2) % 4) = 0
      BY <3>1 DEF Byte
    <3> QED
      BY <2>1, <3>2, <3>3
  <2>2. CASE k \in 6 .. 9
    <3>1. 2 + (k + 2) \div 4 = 4 /\ (k + 2) % 4 \in {0, 1, 2, 3}
      BY <2>2
    <3>2. ColField(ddrc, k) = Byte(ddrc.addrmap[4], (k + 2) % 4)
      BY <3>1 DEF ColField
    <3>3. Byte(ddrc.addrmap[4], (k + 2) % 4) = 0
      BY <3>1 DEF Byte
    <3> QED
      BY <2>2, <3>2, <3>3
  <2>3. CASE k \in 10 .. 11
    <3>1. 2 + (k + 2) \div 4 = 5 /\ (k + 2) % 4 \in {0, 1}
      BY <2>3
    <3>2. ColField(ddrc, k) = Byte(ddrc.addrmap[5], (k + 2) % 4)
      BY <3>1 DEF ColField
    <3>3. Byte(ddrc.addrmap[5], (k + 2) % 4) = \h1F
      BY <3>1 DEF Byte
    <3> QED
      BY <2>3, <3>2, <3>3
  <2> QED
    BY <2>1, <2>2, <2>3
<1> QED
  BY <1>1, <1>2, <1>3, <1>4 DEF Mapped

LEMMA TwoRanks == Cardinality({0, 1}) = 2 /\ Cardinality({0}) = 1
<1>1. IsFiniteSet({0}) /\ Cardinality({0}) = 1
  BY FS_Singleton
<1>2. Cardinality({0} \cup {1}) = 2
  BY <1>1, FS_AddElement
<1>3. {0} \cup {1} = {0, 1}
  OBVIOUS
<1> QED
  BY <1>1, <1>2, <1>3

LEMMA LanesCounted == Cardinality(1 .. 4) = 4 /\ Cardinality(1 .. 2) = 2
<1>1. \A n \in Int : n >= 1 => Cardinality(1 .. n) = n - 1 + 1
  BY FS_Interval
<1>2. Cardinality(1 .. 4) = 4 - 1 + 1 /\ Cardinality(1 .. 2) = 2 - 1 + 1
  <2>1. 4 \in Int /\ 2 \in Int /\ 4 >= 1 /\ 2 >= 1
    OBVIOUS
  <2> QED
    BY <1>1, <2>1, Zenon
<1> QED
  BY <1>2

(* The address maps that are copies of another one but for one word.         *)
WordsTwoToSix(map) ==
  /\ map[2] = <<0, 8, 8, 8>> /\ map[3] = <<0, 0, 0, 0>> /\ map[4] = <<0, 0, 0, 0>>
  /\ map[5] = <<0, 0, \h1F, \h1F>> /\ map[6] = <<7, 7, 7, 7>>

LEMMA CopiedMap ==
  ASSUME NEW map, DOMAIN map = 1 .. 8, WordsTwoToSix(map), NEW k \in {1, 7, 8}, NEW word
  PROVE  LET copy == [map EXCEPT ![k] = word] IN
         /\ DOMAIN copy = 1 .. 8 /\ WordsTwoToSix(copy) /\ copy[k] = word
         /\ \A i \in {1, 7, 8} \ {k} : copy[i] = map[i]
  BY DEF WordsTwoToSix

LEMMA Map_2414 ==
  LET map == DdrcCfg_2414.addrmap IN
  /\ DOMAIN map = 1 .. 8 /\ WordsTwoToSix(map) /\ map[1] = <<0, 0, 0, \h17>>
  /\ map[7] = <<7, 7, 7, 7>> /\ map[8] = <<0, 0, \hF, \hF>>
  BY DEF DdrcCfg_2414, WordsTwoToSix

LEMMA Map_2414_2g ==
  LET map == DdrcCfg_2414_2g.addrmap IN
  /\ DOMAIN map = 1 .. 8 /\ WordsTwoToSix(map) /\ map[1] = <<0, 0, 0, \h1F>>
  /\ map[7] = <<7, 7, 7, 7>> /\ map[8] = <<0, 0, \hF, \hF>>
<1>1. DdrcCfg_2414_2g.addrmap = [DdrcCfg_2414.addrmap EXCEPT ![1] = <<0, 0, 0, \h1F>>]
  BY DEF DdrcCfg_2414_2g, DdrcCfg_2414
<1> QED
  BY <1>1, Map_2414, CopiedMap

LEMMA Map_2319a ==
  LET map == DdrcCfg_2319a.addrmap IN
  /\ DOMAIN map = 1 .. 8 /\ WordsTwoToSix(map) /\ map[1] = <<0, 0, 0, \h1F>>
  /\ map[7] = <<\hF, 7, 7, 7>> /\ map[8] = <<0, 0, \hF, \hF>>
<1>1. DdrcCfg_2319a.addrmap = [DdrcCfg_2414_2g.addrmap EXCEPT ![7] = <<\hF, 7, 7, 7>>]
  BY DEF DdrcCfg_2319a, DdrcCfg_2414_2g, DdrcCfg_2414
<1> QED
  BY <1>1, Map_2414_2g, CopiedMap

LEMMA Map_2409 ==
  LET map == DdrcCfg_2409.addrmap IN
  /\ DOMAIN map = 1 .. 8 /\ WordsTwoToSix(map) /\ map[1] = <<0, 0, 0, \h1F>>
  /\ map[7] = <<7, 7, 7, 7>> /\ map[8] = <<0, 0, \hF, 7>>
<1>1. DdrcCfg_2409.addrmap = [DdrcCfg_2414_2g.addrmap EXCEPT ![8] = <<0, 0, \hF, 7>>]
  BY DEF DdrcCfg_2409, DdrcCfg_2414_2g, DdrcCfg_2414
<1> QED
  BY <1>1, Map_2414_2g, CopiedMap

LEMMA Ranked ==
  /\ Ranks(DdrcCfg_2414) = {0, 1} /\ Ranks(DdrcCfg_2414_2g) = {0}
  /\ Ranks(DdrcCfg_2319a) = {0} /\ Ranks(DdrcCfg_2409) = {0}
  BY DEF DdrcCfg_2414, DdrcCfg_2414_2g, DdrcCfg_2319a, DdrcCfg_2409, Ranks, Byte

(* Each table's map is exact. *)
LEMMA Widths ==
  /\ Width(DdrcCfg_2414) = 30 /\ AddressMapExact(DdrcCfg_2414)
  /\ Width(DdrcCfg_2414_2g) = 29 /\ AddressMapExact(DdrcCfg_2414_2g)
  /\ Width(DdrcCfg_2319a) = 28 /\ AddressMapExact(DdrcCfg_2319a)
  /\ Width(DdrcCfg_2409) = 30 /\ AddressMapExact(DdrcCfg_2409)
<1>1. Mapped(DdrcCfg_2414, 16, 30)
  BY Map_2414, FieldsOf DEF WordsTwoToSix
<1>2. Mapped(DdrcCfg_2414_2g, 16, 29)
  BY Map_2414_2g, FieldsOf DEF WordsTwoToSix
<1>3. Mapped(DdrcCfg_2319a, 15, 28)
  BY Map_2319a, FieldsOf DEF WordsTwoToSix
<1>4. Mapped(DdrcCfg_2409, 17, 30)
  BY Map_2409, FieldsOf DEF WordsTwoToSix
<1> QED
  BY <1>1, <1>2, <1>3, <1>4, MappedExactly

(* The memory of a board is the one U-Boot takes for granted. *)
MemoryWorks(t, ram) ==
  /\ AddressMapExact(t.ddrc) /\ Capacity(t) = ram
  /\ RefreshKeepsUp(t) /\ TrainingAgrees(t) /\ LanesKept(t)

LEMMA Timings ==
  ASSUME NEW ddrc, NEW phy, NEW csr, NEW fsp, NEW rate
  PROVE  LET t == DramTiming(ddrc, phy, csr, fsp, rate) IN
         /\ t.ddrc = ddrc /\ t.phy = phy /\ t.csr = csr /\ t.fsp = fsp
         /\ t.rates[0] = rate /\ DOMAIN t.rates = {0}
  BY DEF DramTiming

(* Both trainings are given the same message, of the modes the controller    *)
(* programs and of its rate.                                                 *)
LEMMA Trained ==
  ASSUME NEW t, NEW rate \in Nat, NEW modes, NEW cs, NEW msg,
         msg = Message(rate, cs, modes, modes), t.fsp = Training(rate, msg, msg),
         t.rates[0] = rate, modes = ControllerModes(t.ddrc), cs = Ranks(t.ddrc),
         4 * t.phy.dfimhz = rate
  PROVE  TrainingAgrees(t)
<1>1. msg.rate = rate /\ msg.cs = cs /\ msg.a = modes /\ msg.b = modes
  BY DEF Message
<1>2. /\ DOMAIN t.fsp = {1, 2}
      /\ t.fsp[1].msg = msg /\ t.fsp[1].drate = rate /\ t.fsp[2].msg = msg /\ t.fsp[2].drate = rate
  BY DEF Training
<1>3. ASSUME NEW i \in DOMAIN t.fsp
      PROVE  t.fsp[i].msg = msg /\ t.fsp[i].drate = rate
  BY <1>2
<1>4. {rate, rate, 4 * t.phy.dfimhz} = {rate}
  OBVIOUS
<1> QED
  BY <1>1, <1>3, <1>4 DEF TrainingAgrees

LEMMA LanesPermuted ==
  /\ {<<0, 1, 2, 3, 4, 5, 6, 7>>[i] : i \in 1 .. 8} = 0 .. 7
  /\ {<<0, 1, 3, 4, 5, 2, 7, 6>>[i] : i \in 1 .. 8} = 0 .. 7
  /\ {<<0, 1, 3, 2, 5, 4, 7, 6>>[i] : i \in 1 .. 8} = 0 .. 7
  OBVIOUS

LEMMA Memory_2414 == MemoryWorks(DramTiming_2414, 4096)
<1> DEFINE t == DramTiming_2414
<1>1. /\ t.ddrc = DdrcCfg_2414 /\ t.phy = DdrPhyCfg_2414 /\ t.csr = TrainedCsr_2414
      /\ t.fsp = FspMsg_2414 /\ t.rates[0] = 4000 /\ DOMAIN t.rates = {0}
  BY Timings DEF DramTiming_2414
<1>2. DOMAIN DdrPhyCfg_2414.swizzle = 1 .. 4 /\ 4 * DdrPhyCfg_2414.dfimhz = 4000
  BY DEF DdrPhyCfg_2414
<1>3. DdrcCfg_2414.rfshtmg = <<0, \h7A, 1, \h18>>
  BY DEF DdrcCfg_2414
<1> HIDE DEF t
<1>4. Capacity(t) = 4096
  <2>1. Capacity(t) = 2 ^ (30 - 20) * 4
    BY <1>1, <1>2, Widths, LanesCounted DEF Capacity, Lanes
  <2>2. 30 - 20 = 10 /\ 2 ^ 10 = 1024
    OBVIOUS
  <2> QED
    BY <2>1, <2>2
<1>5. RefreshKeepsUp(t)
  <2>1. ChannelGbit(t.ddrc) = 8
    <3>1. ChannelGbit(t.ddrc) = 2 ^ (30 - (2 - 1) - 26)
      BY <1>1, Widths, Ranked, TwoRanks DEF ChannelGbit
    <3>2. 30 - (2 - 1) - 26 = 3 /\ 2 ^ 3 = 8
      OBVIOUS
    <3> QED
      BY <3>1, <3>2
  <2>2. /\ Byte(t.ddrc.rfshtmg, 0) = \h18 /\ Byte(t.ddrc.rfshtmg, 1) = 1
        /\ Byte(t.ddrc.rfshtmg, 2) = \h7A /\ Byte(t.ddrc.rfshtmg, 3) = 0
    BY <1>1, <1>3 DEF Byte
  <2>3. RefreshTime(8) = 280
    BY DEF RefreshTime
  <2> QED
    BY <1>1, <2>1, <2>2, <2>3 DEF RefreshKeepsUp
<1>6. TrainingAgrees(t)
  <2>1. /\ Fsp0Cfg_2414 = Message(4000, {0, 1}, Modes4000, Modes4000)
        /\ Fsp0Cfg2d_2414 = Fsp0Cfg_2414
    BY DEF Fsp0Cfg_2414, Fsp0Cfg2d_2414
  <2>2. t.fsp = Training(4000, Fsp0Cfg_2414, Fsp0Cfg_2414)
    BY <1>1, <2>1 DEF FspMsg_2414
  <2>3. Modes4000 = ControllerModes(t.ddrc)
    BY <1>1 DEF Modes4000, Modes, ControllerModes, DdrcCfg_2414
  <2> QED
    BY <1>1, <1>2, <2>1, <2>2, <2>3, Ranked, Trained
<1>7. LanesKept(t)
  <2>1. \A l \in 1 .. 4 :
          DdrPhyCfg_2414.swizzle[l] \in {<<0, 1, 2, 3, 4, 5, 6, 7>>, <<0, 1, 3, 4, 5, 2, 7, 6>>,
                                       <<0, 1, 3, 2, 5, 4, 7, 6>>}
    BY DEF DdrPhyCfg_2414
  <2>2. \A l \in Lanes(t.phy) : {t.phy.swizzle[l][i] : i \in 1 .. 8} = 0 .. 7
    BY <1>1, <1>2, <2>1, LanesPermuted DEF Lanes
  <2>3. Lanes(t.phy) \subseteq t.csr.lanes /\ DOMAIN t.rates \subseteq t.csr.pstates
    BY <1>1, <1>2 DEF Lanes, TrainedCsr_2414
  <2> QED
    BY <2>2, <2>3 DEF LanesKept
<1> QED
  BY <1>1, <1>4, <1>5, <1>6, <1>7, Widths DEF MemoryWorks, t

LEMMA Memory_2414_2g == MemoryWorks(DramTiming_2414_2g, 2048)
<1> DEFINE t == DramTiming_2414_2g
<1>1. /\ t.ddrc = DdrcCfg_2414_2g /\ t.phy = DdrPhyCfg_2414_2g /\ t.csr = TrainedCsr_2414_2g
      /\ t.fsp = FspMsg_2414_2g /\ t.rates[0] = 4000 /\ DOMAIN t.rates = {0}
  BY Timings DEF DramTiming_2414_2g
<1>2. DOMAIN DdrPhyCfg_2414_2g.swizzle = 1 .. 4 /\ 4 * DdrPhyCfg_2414_2g.dfimhz = 4000
  BY DEF DdrPhyCfg_2414_2g, DdrPhyCfg_2414
<1>3. DdrcCfg_2414_2g.rfshtmg = <<0, \h7A, 1, \h18>>
  BY DEF DdrcCfg_2414_2g, DdrcCfg_2414
<1> HIDE DEF t
<1>4. Capacity(t) = 2048
  <2>1. Capacity(t) = 2 ^ (29 - 20) * 4
    BY <1>1, <1>2, Widths, LanesCounted DEF Capacity, Lanes
  <2>2. 29 - 20 = 9 /\ 2 ^ 9 = 512
    OBVIOUS
  <2> QED
    BY <2>1, <2>2
<1>5. RefreshKeepsUp(t)
  <2>1. ChannelGbit(t.ddrc) = 8
    <3>1. ChannelGbit(t.ddrc) = 2 ^ (29 - (1 - 1) - 26)
      BY <1>1, Widths, Ranked, TwoRanks DEF ChannelGbit
    <3>2. 29 - (1 - 1) - 26 = 3 /\ 2 ^ 3 = 8
      OBVIOUS
    <3> QED
      BY <3>1, <3>2
  <2>2. /\ Byte(t.ddrc.rfshtmg, 0) = \h18 /\ Byte(t.ddrc.rfshtmg, 1) = 1
        /\ Byte(t.ddrc.rfshtmg, 2) = \h7A /\ Byte(t.ddrc.rfshtmg, 3) = 0
    BY <1>1, <1>3 DEF Byte
  <2>3. RefreshTime(8) = 280
    BY DEF RefreshTime
  <2> QED
    BY <1>1, <2>1, <2>2, <2>3 DEF RefreshKeepsUp
<1>6. TrainingAgrees(t)
  <2>1. /\ Fsp0Cfg_2414_2g = Message(4000, {0}, Modes4000, Modes4000)
        /\ Fsp0Cfg2d_2414_2g = Fsp0Cfg_2414_2g
    BY DEF Fsp0Cfg_2414_2g, Fsp0Cfg2d_2414_2g
  <2>2. t.fsp = Training(4000, Fsp0Cfg_2414_2g, Fsp0Cfg_2414_2g)
    BY <1>1, <2>1 DEF FspMsg_2414_2g
  <2>3. Modes4000 = ControllerModes(t.ddrc)
    BY <1>1 DEF Modes4000, Modes, ControllerModes, DdrcCfg_2414_2g, DdrcCfg_2414
  <2> QED
    BY <1>1, <1>2, <2>1, <2>2, <2>3, Ranked, Trained
<1>7. LanesKept(t)
  <2>1. \A l \in 1 .. 4 :
          DdrPhyCfg_2414_2g.swizzle[l] \in {<<0, 1, 2, 3, 4, 5, 6, 7>>, <<0, 1, 3, 4, 5, 2, 7, 6>>,
                                       <<0, 1, 3, 2, 5, 4, 7, 6>>}
    BY DEF DdrPhyCfg_2414_2g, DdrPhyCfg_2414
  <2>2. \A l \in Lanes(t.phy) : {t.phy.swizzle[l][i] : i \in 1 .. 8} = 0 .. 7
    BY <1>1, <1>2, <2>1, LanesPermuted DEF Lanes
  <2>3. Lanes(t.phy) \subseteq t.csr.lanes /\ DOMAIN t.rates \subseteq t.csr.pstates
    BY <1>1, <1>2 DEF Lanes, TrainedCsr_2414_2g
  <2> QED
    BY <2>2, <2>3 DEF LanesKept
<1> QED
  BY <1>1, <1>4, <1>5, <1>6, <1>7, Widths DEF MemoryWorks, t

LEMMA Memory_2319a == MemoryWorks(DramTiming_2319a, 1024)
<1> DEFINE t == DramTiming_2319a
<1>1. /\ t.ddrc = DdrcCfg_2319a /\ t.phy = DdrPhyCfg_2319a /\ t.csr = TrainedCsr_2319a
      /\ t.fsp = FspMsg_2319a /\ t.rates[0] = 3600 /\ DOMAIN t.rates = {0}
  BY Timings DEF DramTiming_2319a
<1>2. DOMAIN DdrPhyCfg_2319a.swizzle = 1 .. 4 /\ 4 * DdrPhyCfg_2319a.dfimhz = 3600
  BY DEF DdrPhyCfg_2319a, DdrPhyCfg_2414
<1>3. DdrcCfg_2319a.rfshtmg = <<0, \h6D, 0, \hA2>>
  BY DEF DdrcCfg_2319a, DdrcCfg_2414_2g, DdrcCfg_2414
<1> HIDE DEF t
<1>4. Capacity(t) = 1024
  <2>1. Capacity(t) = 2 ^ (28 - 20) * 4
    BY <1>1, <1>2, Widths, LanesCounted DEF Capacity, Lanes
  <2>2. 28 - 20 = 8 /\ 2 ^ 8 = 256
    OBVIOUS
  <2> QED
    BY <2>1, <2>2
<1>5. RefreshKeepsUp(t)
  <2>1. ChannelGbit(t.ddrc) = 4
    <3>1. ChannelGbit(t.ddrc) = 2 ^ (28 - (1 - 1) - 26)
      BY <1>1, Widths, Ranked, TwoRanks DEF ChannelGbit
    <3>2. 28 - (1 - 1) - 26 = 2 /\ 2 ^ 2 = 4
      OBVIOUS
    <3> QED
      BY <3>1, <3>2
  <2>2. /\ Byte(t.ddrc.rfshtmg, 0) = \hA2 /\ Byte(t.ddrc.rfshtmg, 1) = 0
        /\ Byte(t.ddrc.rfshtmg, 2) = \h6D /\ Byte(t.ddrc.rfshtmg, 3) = 0
    BY <1>1, <1>3 DEF Byte
  <2>3. RefreshTime(4) = 180
    BY DEF RefreshTime
  <2> QED
    BY <1>1, <2>1, <2>2, <2>3 DEF RefreshKeepsUp
<1>6. TrainingAgrees(t)
  <2>1. /\ Fsp0Cfg_2319a = Message(3600, {0}, Modes3600, Modes3600)
        /\ Fsp0Cfg2d_2319a = Fsp0Cfg_2319a
    BY DEF Fsp0Cfg_2319a, Fsp0Cfg2d_2319a
  <2>2. t.fsp = Training(3600, Fsp0Cfg_2319a, Fsp0Cfg_2319a)
    BY <1>1, <2>1 DEF FspMsg_2319a
  <2>3. Modes3600 = ControllerModes(t.ddrc)
    BY <1>1 DEF Modes3600, Modes, ControllerModes, DdrcCfg_2319a, DdrcCfg_2414_2g, DdrcCfg_2414
  <2> QED
    BY <1>1, <1>2, <2>1, <2>2, <2>3, Ranked, Trained
<1>7. LanesKept(t)
  <2>1. \A l \in 1 .. 4 :
          DdrPhyCfg_2319a.swizzle[l] \in {<<0, 1, 2, 3, 4, 5, 6, 7>>, <<0, 1, 3, 4, 5, 2, 7, 6>>,
                                       <<0, 1, 3, 2, 5, 4, 7, 6>>}
    BY DEF DdrPhyCfg_2319a, DdrPhyCfg_2414
  <2>2. \A l \in Lanes(t.phy) : {t.phy.swizzle[l][i] : i \in 1 .. 8} = 0 .. 7
    BY <1>1, <1>2, <2>1, LanesPermuted DEF Lanes
  <2>3. Lanes(t.phy) \subseteq t.csr.lanes /\ DOMAIN t.rates \subseteq t.csr.pstates
    BY <1>1, <1>2 DEF Lanes, TrainedCsr_2319a, TrainedCsr_2414
  <2> QED
    BY <2>2, <2>3 DEF LanesKept
<1> QED
  BY <1>1, <1>4, <1>5, <1>6, <1>7, Widths DEF MemoryWorks, t

LEMMA Memory_2409 == MemoryWorks(DramTiming_2409, 2048)
<1> DEFINE t == DramTiming_2409
<1>1. /\ t.ddrc = DdrcCfg_2409 /\ t.phy = DdrPhyCfg_2409 /\ t.csr = TrainedCsr_2409
      /\ t.fsp = FspMsg_2409 /\ t.rates[0] = 3200 /\ DOMAIN t.rates = {0}
  BY Timings DEF DramTiming_2409
<1>2. DOMAIN DdrPhyCfg_2409.swizzle = 1 .. 2 /\ 4 * DdrPhyCfg_2409.dfimhz = 3200
  BY DEF DdrPhyCfg_2409, DdrPhyCfg_2414
<1>3. DdrcCfg_2409.rfshtmg = <<0, \h61, 1, \h30>>
  BY DEF DdrcCfg_2409, DdrcCfg_2414_2g, DdrcCfg_2414
<1> HIDE DEF t
<1>4. Capacity(t) = 2048
  <2>1. Capacity(t) = 2 ^ (30 - 20) * 2
    BY <1>1, <1>2, Widths, LanesCounted DEF Capacity, Lanes
  <2>2. 30 - 20 = 10 /\ 2 ^ 10 = 1024
    OBVIOUS
  <2> QED
    BY <2>1, <2>2
<1>5. RefreshKeepsUp(t)
  <2>1. ChannelGbit(t.ddrc) = 16
    <3>1. ChannelGbit(t.ddrc) = 2 ^ (30 - (1 - 1) - 26)
      BY <1>1, Widths, Ranked, TwoRanks DEF ChannelGbit
    <3>2. 30 - (1 - 1) - 26 = 4 /\ 2 ^ 4 = 16
      OBVIOUS
    <3> QED
      BY <3>1, <3>2
  <2>2. /\ Byte(t.ddrc.rfshtmg, 0) = \h30 /\ Byte(t.ddrc.rfshtmg, 1) = 1
        /\ Byte(t.ddrc.rfshtmg, 2) = \h61 /\ Byte(t.ddrc.rfshtmg, 3) = 0
    BY <1>1, <1>3 DEF Byte
  <2>3. RefreshTime(16) = 380
    BY DEF RefreshTime
  <2> QED
    BY <1>1, <2>1, <2>2, <2>3 DEF RefreshKeepsUp
<1>6. TrainingAgrees(t)
  <2>1. /\ Fsp0Cfg_2409 = Message(3200, {0}, Modes3200, Modes3200)
        /\ Fsp0Cfg2d_2409 = Fsp0Cfg_2409
    BY DEF Fsp0Cfg_2409, Fsp0Cfg2d_2409
  <2>2. t.fsp = Training(3200, Fsp0Cfg_2409, Fsp0Cfg_2409)
    BY <1>1, <2>1 DEF FspMsg_2409
  <2>3. Modes3200 = ControllerModes(t.ddrc)
    BY <1>1 DEF Modes3200, Modes, ControllerModes, DdrcCfg_2409, DdrcCfg_2414_2g, DdrcCfg_2414
  <2> QED
    BY <1>1, <1>2, <2>1, <2>2, <2>3, Ranked, Trained
<1>7. LanesKept(t)
  <2>1. \A l \in 1 .. 2 :
          DdrPhyCfg_2409.swizzle[l] \in {<<0, 1, 2, 3, 4, 5, 6, 7>>, <<0, 1, 3, 4, 5, 2, 7, 6>>,
                                       <<0, 1, 3, 2, 5, 4, 7, 6>>}
    BY DEF DdrPhyCfg_2409, DdrPhyCfg_2414
  <2>2. \A l \in Lanes(t.phy) : {t.phy.swizzle[l][i] : i \in 1 .. 8} = 0 .. 7
    BY <1>1, <1>2, <2>1, LanesPermuted DEF Lanes
  <2>3. Lanes(t.phy) \subseteq t.csr.lanes /\ DOMAIN t.rates \subseteq t.csr.pstates
    BY <1>1, <1>2 DEF Lanes, TrainedCsr_2409
  <2> QED
    BY <2>2, <2>3 DEF LanesKept
<1> QED
  BY <1>1, <1>4, <1>5, <1>6, <1>7, Widths DEF MemoryWorks, t

LEMMA MemoryOfBoards == ASSUME NEW b \in Boards PROVE MemoryWorks(Code[b].timing, Code[b].ram)
<1>1. CASE b = "aesys_2319a"
  BY <1>1, Memory_2319a DEF Code, PhysSdram_2319a
<1>2. CASE b = "aesys_2409"
  BY <1>2, Memory_2409 DEF Code, PhysSdram_2409
<1>3. CASE b = "aesys_2414_2g"
  BY <1>3, Memory_2414_2g DEF Code, PhysSdram_2414_2g
<1>4. CASE b \in {"aesys_2414", "aesys_2522", "aesys_2602"}
  <2>1. DramTiming_2522 = DramTiming_2414 /\ DramTiming_2602 = DramTiming_2414
    BY DEF DramTiming_2414, DramTiming_2522, DramTiming_2602, DdrcCfg_2522, DdrcCfg_2602,
       DdrPhyCfg_2522, DdrPhyCfg_2602, TrainedCsr_2522, TrainedCsr_2602, FspMsg_2414,
       FspMsg_2522, FspMsg_2602, Fsp0Cfg_2414, Fsp0Cfg_2522, Fsp0Cfg_2602, Fsp0Cfg2d_2414,
       Fsp0Cfg2d_2522, Fsp0Cfg2d_2602
  <2>2. Code[b].timing = DramTiming_2414 /\ Code[b].ram = 4096
    BY <1>4, <2>1 DEF Code, PhysSdram_2414, PhysSdram_2522, PhysSdram_2602
  <2> QED
    BY <2>2, Memory_2414
<1> QED
  BY <1>1, <1>2, <1>3, <1>4 DEF Boards

(* The memory of every board is the one its U-Boot takes for granted: an     *)
(* exact address map, PHYS_SDRAM_SIZE, a refresh that suits the density, the *)
(* modes the PHY was trained with (lpddr4_timing.c, include/configs).        *)
THEOREM MemoryIsAsConfigured == Spec => []MemoryAsConfigured
<1>1. SupplyInv => MemoryAsConfigured
  BY MemoryOfBoards DEF SupplyInv, Fixed, MemoryWorks, MemoryAsConfigured
<1> QED
  BY <1>1, SupplyAlways, PTL
==============================================================================
