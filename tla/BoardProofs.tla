------------------------------ MODULE BoardProofs -----------------------------
(***************************************************************************)
(* What holds of every board, every strapping of its pins and every number *)
(* of failing calls and power cycles: the console, the link, the supply    *)
(* and the detected board.  Each result has an inductive invariant of its  *)
(* own that says, stage by stage, what the program has done so far.        *)
(***************************************************************************)
EXTENDS BoardSystem, TLAPS, WellFoundedInduction

(* The board never changes, and step counts from 1.                          *)
Fixed == board \in Boards /\ step \in Nat \ {0}

LEMMA InitFixed == Init => Fixed
  BY DEF Init, Fixed, SplInit

LEMMA StepFixed == ASSUME Fixed, [Next]_vars PROVE Fixed'
<1> USE DEF Fixed
<1>1. CASE SplNext
  <2>1. CASE Rom \/ SplEarlyInitF \/ SplDramInit \/ BoardInitR
    BY <2>1 DEF Rom, SplEarlyInitF, SplDramInit, BoardInitR, Return
  <2>2. CASE SplFind
    BY <2>2 DEF SplFind, Return
  <2>3. CASE PmicGet \/ PmicWrite \/ PmicDone
    BY <2>3 DEF PmicGet, PmicWrite, PmicDone, Return
  <2> QED
    BY <1>1, <2>1, <2>2, <2>3 DEF SplNext
<1>2. CASE EarlyInitF \/ FixFdt \/ ProbeUart \/ BoardInitCall \/ BoardLateInit
  BY <1>2 DEF EarlyInitF, FixFdt, ProbeUart, BoardInitCall, BoardLateInit
<1>3. CASE UsbPower \/ UsbWrite \/ UsbDevice \/ UsbExit
  <2>1. board' = board /\ (UsbReturn \/ UNCHANGED step)
    BY <1>3 DEF UsbPower, UsbWrite, UsbDevice, UsbExit
  <2>2. UsbReturn => step' \in {1, step + 1}
    BY DEF UsbReturn
  <2> QED
    BY <2>1, <2>2
<1>4. CASE EthStep \/ EthStepFails \/ EthReady \/ EthStart \/ Negotiate
  BY <1>4 DEF EthStep, EthStepFails, EthReady, EthStart, Negotiate, EthIdle
<1>5. CASE UsbStart \/ UsbStop
  BY <1>5 DEF UsbStart, UsbStop
<1>6. CASE PowerCycle
  BY <1>6 DEF PowerCycle
<1>7. CASE UNCHANGED vars
  BY <1>7 DEF vars, splVars
<1> QED
  BY <1>1, <1>2, <1>3, <1>4, <1>5, <1>6, <1>7 DEF Next, Program, UBootNext

------------------------------------------------------------------------------
(* What the three parts of the program leave alone.                          *)

Loading == {"rom", "spl", "pmic"}

LEMMA SplFrame ==
  ASSUME SplNext
  PROVE  /\ pc \in Loading /\ pc' \in Loading \cup {"early", "hang"}
         /\ board' = board /\ failed \subseteq failed'
         /\ uart' = uart \/ uart' = EarlyUart
<1>1. CASE Rom \/ SplEarlyInitF \/ BoardInitR
  BY <1>1 DEF Rom, SplEarlyInitF, BoardInitR, Return, Running, Loading
<1>2. CASE SplFind
  BY <1>2 DEF SplFind, Return, Running, Loading, Fault, NoFault
<1>3. CASE PmicGet
  BY <1>3 DEF PmicGet, Return, Running, Loading, Fault, NoFault
<1>4. CASE PmicWrite
  BY <1>4 DEF PmicWrite, Loading, Fault, NoFault
<1>5. CASE PmicDone
  BY <1>5 DEF PmicDone, Return, Loading
<1>6. CASE SplDramInit
  BY <1>6 DEF SplDramInit, Return, Running, Loading, Fault, NoFault
<1> QED
  BY <1>1, <1>2, <1>3, <1>4, <1>5, <1>6 DEF SplNext

Usb == UsbPower \/ UsbWrite \/ UsbDevice \/ UsbExit

LEMMA UsbFrame ==
  ASSUME Usb \/ UsbStart \/ UsbStop
  PROVE  /\ pc \in Prompt \ {"eth"} /\ pc' \in (Prompt \ {"eth"}) \cup {"hang"}
         /\ UNCHANGED <<board, straps, pmic, dram, gic, uart, fixup, id, gpr1, clk, eth>>
         /\ failed \subseteq failed'
<1>1. CASE UsbStart \/ UsbStop
  BY <1>1 DEF UsbStart, UsbStop, UsbIdle, Prompt
<1>2. CASE Usb
  <2>1. /\ pc \in {"usb_init", "usb_exit"} /\ UNCHANGED <<board, pmic, dram, gic, uart>>
        /\ UNCHANGED <<straps, fixup, id, gpr1, clk, eth>>
    BY <1>2 DEF Usb, UsbPower, UsbWrite, UsbDevice, UsbExit, UsbIdle, UsbCalls
  <2>2. pc' = "hang" \/ UsbReturn
    BY <1>2 DEF Usb, UsbPower, UsbWrite, UsbDevice, UsbExit
  <2>3. pc' \in {"hang", "main", pc}
    BY <2>2 DEF UsbReturn
  <2>4. failed \subseteq failed'
    BY <1>2 DEF Usb, UsbPower, UsbWrite, UsbDevice, UsbExit, Fault, NoFault
  <2> QED
    BY <2>1, <2>3, <2>4 DEF Prompt
<1> QED
  BY <1>1, <1>2

Network == EthStart \/ EthStep \/ EthStepFails \/ EthReady \/ Negotiate

LEMMA EthFrame ==
  ASSUME Network
  PROVE  /\ pc \in {"main", "eth"} /\ pc' \in {"main", "eth"}
         /\ UNCHANGED <<board, straps, pmic, dram, gic, uart, fixup, id, gpr1, clk, usb, failed>>
  BY DEF Network, EthStart, EthStep, EthStepFails, EthReady, Negotiate, EthIdle

------------------------------------------------------------------------------
(* The link *)

(* Every board either leaves its PHY alone or does both steps.               *)
LEMMA PhyConfigs ==
  ASSUME NEW b \in Boards
  PROVE  Code[b].phyConfig = NoCode \/ Code[b].phyConfig = <<"without_1000T", "restart">>
  BY DEF Boards, Code, BoardPhyConfig_2319a, BoardPhyConfig_2409, BoardPhyConfig_2414,
     BoardPhyConfig_2414_2g, BoardPhyConfig_2522, BoardPhyConfig_2602

LinkInv ==
  /\ Fixed
  /\ eth \in PhyStates
  /\ Code[board].phyConfig # NoCode /\ ~eth.failed =>
       /\ pc # "eth" => eth.link # 1000
       /\ pc = "eth" /\ step >= 2 => ~eth.adv1000
       /\ pc = "eth" /\ step >= 3 => eth.link # 1000

(* What is done to a PHY leaves a state of a PHY. *)
LEMMA PhyEdits ==
  ASSUME NEW p \in PhyStates
  PROVE  /\ EthOff \in PhyStates
         /\ \A b \in BOOLEAN :
              [p EXCEPT !.failed = b] \in PhyStates /\ [p EXCEPT !.failed = b].failed = b
         /\ [p EXCEPT !.adv1000 = FALSE] \in PhyStates
         /\ [p EXCEPT !.adv1000 = FALSE].adv1000 = FALSE
<1>1. EthOff \in PhyStates
  BY DEF PhyStates, EthOff
<1>2. ASSUME NEW b \in BOOLEAN PROVE [p EXCEPT !.failed = b] \in PhyStates
  BY DEF PhyStates
<1>3. ASSUME NEW b \in BOOLEAN PROVE [p EXCEPT !.failed = b].failed = b
  BY DEF PhyStates
<1>4. [p EXCEPT !.adv1000 = FALSE] \in PhyStates
  BY DEF PhyStates
<1>5. [p EXCEPT !.adv1000 = FALSE].adv1000 = FALSE
  BY DEF PhyStates
<1> QED
  BY <1>1, <1>2, <1>3, <1>4, <1>5

(* 1000T is not advertised once the second step comes, and the restart drops *)
(* a link of before.                                                         *)
LEMMA LinkStep == ASSUME LinkInv, [Next]_vars PROVE LinkInv'
<1>0. Fixed /\ Fixed'
  BY StepFixed DEF LinkInv
<1>1. ASSUME UNCHANGED <<board, eth>>, pc # "eth", pc' # "eth" PROVE LinkInv'
  BY <1>0, <1>1 DEF LinkInv
<1>2. CASE SplNext /\ UNCHANGED ubootVars
  BY <1>1, <1>2, SplFrame DEF Loading, ubootVars
<1>3. CASE EarlyInitF \/ FixFdt \/ ProbeUart \/ BoardInitCall \/ BoardLateInit
  BY <1>1, <1>3 DEF EarlyInitF, FixFdt, ProbeUart, BoardInitCall, BoardLateInit, ubootVars
<1>4. CASE Usb \/ UsbStart \/ UsbStop
  BY <1>1, <1>4, UsbFrame DEF Prompt
<1>5. CASE EthStart
  <2>1. pc' = "eth" /\ step' = 1
    BY <1>5 DEF EthStart
  <2>2. eth' \in PhyStates
    <3>1. eth' \in {EthOff, [eth EXCEPT !.failed = FALSE]}
      BY <1>5 DEF EthStart
    <3>2. eth \in PhyStates
      BY DEF LinkInv
    <3> QED
      BY <3>1, <3>2, PhyEdits
  <2> QED
    BY <1>0, <2>1, <2>2 DEF LinkInv
<1>6. CASE EthStep
  <2>1. pc = "eth" /\ pc' = "eth" /\ board' = board /\ step' = step + 1
    BY <1>6 DEF EthStep, EthIdle
  <2>2. CASE Code[board].phyConfig = NoCode
    <3>1. FALSE
      BY <1>0, <1>6, <2>2 DEF EthStep, NoCode, Fixed
    <3> QED
      BY <3>1
  <2>3. CASE Code[board].phyConfig = <<"without_1000T", "restart">>
    <3>1. step \in 1 .. 2
      BY <1>0, <1>6, <2>3 DEF EthStep, Fixed
    <3>2. CASE step = 1
      <4>1. eth' = [eth EXCEPT !.adv1000 = FALSE]
        BY <1>6, <2>3, <3>2 DEF EthStep
      <4>2. ~eth'.adv1000 /\ eth' \in PhyStates
        BY <4>1, PhyEdits DEF LinkInv
      <4>3. step' = 2
        BY <2>1, <3>2
      <4> QED
        BY <1>0, <2>1, <4>2, <4>3 DEF LinkInv
    <3>3. CASE step = 2
      <4>1. eth' = [eth EXCEPT !.link = NoLink]
        BY <1>6, <2>3, <3>3 DEF EthStep
      <4>2. Code[board].phyConfig # NoCode /\ ~eth.failed => ~eth.adv1000
        BY <1>0, <2>1, <3>3 DEF LinkInv
      <4>3. eth'.adv1000 = eth.adv1000 /\ eth'.failed = eth.failed /\ eth'.link = 0
            /\ eth' \in PhyStates
        BY <4>1 DEF LinkInv, PhyStates, NoLink
      <4> QED
        BY <1>0, <2>1, <4>2, <4>3 DEF LinkInv
    <3> QED
      BY <3>1, <3>2, <3>3
  <2> QED
    BY <1>0, <2>2, <2>3, PhyConfigs DEF Fixed
<1>7. CASE Negotiate
  <2>1. UNCHANGED <<board, pc, step>>
    BY <1>7 DEF Negotiate, EthIdle
  <2>2. PICK partner \in {100, 1000} :
          eth' = [eth EXCEPT !.link = IF eth.adv1000 THEN partner ELSE 100]
    BY <1>7 DEF Negotiate
  <2>3. eth'.adv1000 = eth.adv1000 /\ (~eth.adv1000 => eth'.link = 100)
        /\ eth'.failed = eth.failed /\ eth' \in PhyStates
    BY <2>2 DEF LinkInv, PhyStates
  <2>4. Code[board].phyConfig # NoCode /\ ~eth.failed /\ step >= 3 => ~eth.adv1000
    BY <1>0, <1>7 DEF LinkInv, Negotiate, Fixed
  <2> QED
    BY <1>0, <1>7, <2>1, <2>3, <2>4 DEF LinkInv, Negotiate
<1>8. CASE EthReady
  <2>1. UNCHANGED <<board, eth>> /\ pc = "eth" /\ pc' = "main"
    BY <1>8 DEF EthReady, EthIdle
  <2>2. Code[board].phyConfig # NoCode => step >= 3
    <3>1. SUFFICES ASSUME Code[board].phyConfig = <<"without_1000T", "restart">>
                   PROVE  step >= 3
      BY <1>0, PhyConfigs DEF Fixed
    <3> QED
      BY <1>0, <1>8, <3>1 DEF EthReady, Fixed
  <2> QED
    BY <1>0, <2>1, <2>2 DEF LinkInv
<1>9. CASE PowerCycle
  BY <1>0, <1>9 DEF LinkInv, PowerCycle, EthOff, PhyStates, NoLink
<1>10. CASE UNCHANGED vars
  BY <1>0, <1>10 DEF LinkInv, vars, splVars, ubootVars
<1>11. CASE EthStepFails
  <2>1. eth' \in PhyStates /\ eth'.failed = TRUE
    <3>1. eth' \in {[eth EXCEPT !.failed = TRUE], [EthOff EXCEPT !.failed = TRUE]}
      BY <1>11 DEF EthStepFails
    <3>2. eth \in PhyStates /\ EthOff \in PhyStates
      BY PhyEdits DEF LinkInv
    <3> QED
      BY <3>1, <3>2, PhyEdits
  <2> QED
    BY <1>0, <2>1 DEF LinkInv
<1> QED
  BY <1>2, <1>3, <1>4, <1>5, <1>6, <1>7, <1>8, <1>9, <1>10, <1>11
  DEF Next, Program, UBootNext, Usb

LEMMA LinkAlways == Spec => []LinkInv
<1>1. Init => LinkInv
  BY InitFixed DEF Init, LinkInv, SplInit, UBootInitial, EthOff, PhyStates, NoLink
<1> QED
  BY <1>1, LinkStep, PTL DEF Spec

(* No board with two pairs ends with a link of 1000 Mbit/s, whenever its     *)
(* partner negotiates, unless its own accesses to the PHY failed             *)
(* (board_phy_config).                                                       *)
THEOREM TwoPairsStaySlow == Spec => []NoGigabit
<1>1. LinkInv => NoGigabit
  BY DEF LinkInv, NoGigabit
<1> QED
  BY <1>1, LinkAlways, PTL

------------------------------------------------------------------------------
(* The detected board *)

(* Detection happens once, from straps that do not change.                   *)
DetectInv ==
  /\ board \in Boards
  /\ id \in {NoId, Detected(board, straps)}
  /\ pc \in Prompt => id = Detected(board, straps)

LEMMA DetectStep == ASSUME DetectInv, [Next]_vars PROVE DetectInv'
<1>1. ASSUME UNCHANGED <<board, straps, id>>, pc' \in Prompt => pc \in Prompt
      PROVE  DetectInv'
  BY <1>1 DEF DetectInv
<1>2. CASE SplNext /\ UNCHANGED ubootVars
  BY <1>1, <1>2, SplFrame DEF Loading, Prompt, ubootVars
<1>3. CASE EarlyInitF \/ FixFdt \/ ProbeUart \/ BoardInitCall
  BY <1>1, <1>3 DEF EarlyInitF, FixFdt, ProbeUart, BoardInitCall, Prompt, ubootVars
<1>4. CASE BoardLateInit
  BY <1>4 DEF BoardLateInit, DetectInv
<1>5. CASE Usb \/ UsbStart \/ UsbStop
  BY <1>1, <1>5, UsbFrame
<1>6. CASE Network
  BY <1>1, <1>6, EthFrame DEF Prompt
<1>7. CASE PowerCycle
  BY <1>7 DEF PowerCycle, DetectInv, Prompt
<1>8. CASE UNCHANGED vars
  BY <1>1, <1>8 DEF vars, splVars, ubootVars
<1> QED
  BY <1>2, <1>3, <1>4, <1>5, <1>6, <1>7, <1>8 DEF Next, Program, UBootNext, Usb, Network

LEMMA DetectAlways == Spec => []DetectInv
<1>1. Init => DetectInv
  BY DEF Init, DetectInv, SplInit, UBootInitial, Prompt
<1> QED
  BY <1>1, DetectStep, PTL DEF Spec

(* A nonempty set of numbers has a least one. *)
LEMMA LeastOf ==
  ASSUME NEW T, T \subseteq Nat, T # {}
  PROVE  \E x \in T : \A y \in T : x <= y
<1> DEFINE R == OpToRel(<, Nat)
<1>1. \E x \in T : \A y \in T : ~ (<<y, x>> \in R)
  BY NatLessThanWellFounded, WFMin
<1>2. R = {ss \in Nat \X Nat : ss[1] < ss[2]}
  BY DEF OpToRel
<1> HIDE DEF R
<1>3. \A x, y \in Nat : y < x => <<y, x>> \in R
  BY <1>2
<1>4. PICK x \in T : \A y \in T : ~ (<<y, x>> \in R)
  BY <1>1
<1>5. ASSUME NEW y \in T PROVE x <= y
  <2>1. x \in Nat /\ y \in Nat
    OBVIOUS
  <2>2. ~ (<<y, x>> \in R)
    BY <1>4
  <2>3. ~ (y < x)
    BY <1>3, <2>1, <2>2, Zenon
  <2> QED
    BY <2>1, <2>3
<1> QED
  BY <1>5

(* A lookup gives the default or a board of the table. *)
LEMMA LookupGives ==
  ASSUME NEW table, NEW gpioid, NEW default, DOMAIN table \subseteq Nat
  PROVE  \/ Lookup(table, gpioid, default) = default
         \/ \E i \in DOMAIN table : Lookup(table, gpioid, default) = table[i].boardid
<1> DEFINE hits == {i \in DOMAIN table : table[i].gpioid = gpioid}
<1>1. CASE hits = {}
  BY <1>1 DEF Lookup
<1>2. CASE hits # {}
  <2> DEFINE first == CHOOSE i \in hits : \A j \in hits : i <= j
  <2>1. \E i \in hits : \A j \in hits : i <= j
    BY <1>2, LeastOf
  <2>2. first \in hits
    BY <2>1
  <2>3. Lookup(table, gpioid, default) = table[first].boardid
    BY <1>2 DEF Lookup
  <2> QED
    BY <2>2, <2>3
<1> QED
  BY <1>1, <1>2

LEMMA RowBoard == ASSUME NEW main, NEW ext, NEW b PROVE Row(main, ext, b).boardid = b
  BY DEF Row

(* What each board can detect is shipped with it. *)
LEMMA Shipped ==
  ASSUME NEW b \in Boards, NEW s
  PROVE  Detected(b, s).boardid \in Code[b].trees \cup {NoBoardId}
<1>1. CASE b = "aesys_2319a"
  BY <1>1 DEF Detected
<1>2. CASE b = "aesys_2409"
  <2>1. DOMAIN HwRevs_2409 = 1 .. 2 /\ \A i \in 1 .. 2 : HwRevs_2409[i].boardid \in Trees_2409
    BY DEF HwRevs_2409, Trees_2409
  <2>2. Detect_2409(s).boardid \in Trees_2409
    BY <2>1, LookupGives DEF Detect_2409
  <2>3. Code[b].trees = Trees_2409
    BY <1>2 DEF Code
  <2> QED
    BY <1>2, <2>2, <2>3 DEF Detected
<1>3. CASE b = "aesys_2414"
  <2>1. DOMAIN HwRevs_2414 = 1 .. 4 /\ \A i \in 1 .. 4 : HwRevs_2414[i].boardid \in Trees_2414
    BY RowBoard DEF HwRevs_2414, Trees_2414
  <2>2. Detect_2414(s).boardid \in Trees_2414
    BY <2>1, LookupGives DEF Detect_2414, Identify, Trees_2414
  <2>3. Code[b].trees = Trees_2414
    BY <1>3 DEF Code
  <2> QED
    BY <1>3, <2>2, <2>3 DEF Detected
<1>4. CASE b = "aesys_2414_2g"
  <2>1. /\ DOMAIN HwRevs_2414_2g = 1 .. 13
        /\ \A i \in 1 .. 13 : HwRevs_2414_2g[i].boardid \in Trees_2414_2g
    BY RowBoard DEF HwRevs_2414_2g, Trees_2414_2g
  <2>2. Detect_2414_2g(s).boardid \in Trees_2414_2g
    BY <2>1, LookupGives DEF Detect_2414_2g, Identify, Trees_2414_2g
  <2>3. Code[b].trees = Trees_2414_2g
    BY <1>4 DEF Code
  <2> QED
    BY <1>4, <2>2, <2>3 DEF Detected
<1>5. CASE b = "aesys_2522"
  <2>1. DOMAIN HwRevs_2522 = 1 .. 1 /\ HwRevs_2522[1].boardid = "aesys_2522a"
    BY RowBoard DEF HwRevs_2522
  <2>2. Detect_2522(s).boardid \in Trees_2522
    BY <2>1, LookupGives DEF Detect_2522, Identify, Trees_2522
  <2>3. Code[b].trees = Trees_2522
    BY <1>5 DEF Code
  <2> QED
    BY <1>5, <2>2, <2>3 DEF Detected
<1>6. CASE b = "aesys_2602"
  <2>1. DOMAIN HwRevs_2602 = 1 .. 1 /\ HwRevs_2602[1].boardid = "aesys_2602a"
    BY RowBoard DEF HwRevs_2602
  <2>2. Detect_2602(s).boardid \in Trees_2602
    BY <2>1, LookupGives DEF Detect_2602, Identify, Trees_2602
  <2>3. Code[b].trees = Trees_2602
    BY <1>6 DEF Code
  <2> QED
    BY <1>6, <2>2, <2>3 DEF Detected
<1> QED
  BY <1>1, <1>2, <1>3, <1>4, <1>5, <1>6 DEF Boards

(* The revision found by board_late_init, however the pins are tied and      *)
(* whichever extension board is there, is one the image has a device tree    *)
(* for.                                                                      *)
THEOREM DetectionShipped == Spec => []DetectedShipped
<1>1. DetectInv => DetectedShipped
  BY Shipped DEF DetectInv, DetectedShipped, NoId
<1> QED
  BY <1>1, DetectAlways, PTL

------------------------------------------------------------------------------
(* The straps are one of the strappings looked at, and stay so. *)
StrapsInv == DetectInv /\ straps \in Strappings(board)

LEMMA Wiring == ASSUME [Next]_vars PROVE UNCHANGED <<board, straps>>
<1>1. CASE SplNext /\ UNCHANGED ubootVars
  BY <1>1, SplFrame DEF ubootVars
<1>2. CASE EarlyInitF \/ FixFdt \/ ProbeUart \/ BoardInitCall \/ BoardLateInit
  BY <1>2 DEF EarlyInitF, FixFdt, ProbeUart, BoardInitCall, BoardLateInit, ubootVars
<1>3. CASE PowerCycle \/ UNCHANGED vars
  BY <1>3 DEF PowerCycle, vars, splVars, ubootVars
<1> QED
  BY <1>1, <1>2, <1>3, UsbFrame, EthFrame DEF Next, Program, UBootNext, Usb, Network

(* A pin whose own pad is pulled both ways reads as it is tied. *)
LEMMA DigitTold ==
  ASSUME NEW s, NEW pin, pin # NoPin, s[pin] \in Levels
  PROVE  Digit(s, pin, pin) = CASE s[pin] = "low"  -> "0"
                                [] s[pin] = "high" -> "1"
                                [] OTHER           -> "x"
  BY DEF Levels, Digit, Level

LEMMA GpioidTold ==
  ASSUME NEW s, NEW gpios, NEW table, NEW default, 
         \A i \in DOMAIN gpios : gpios[i] # NoPin => s[gpios[i]] \in Levels
  PROVE  LET told == Identify(s, gpios, gpios, table, default).gpioid IN
         /\ DOMAIN told = DOMAIN gpios
         /\ \A i \in DOMAIN gpios :
              gpios[i] # NoPin =>
                told[i] = CASE s[gpios[i]] = "low"  -> "0"
                            [] s[gpios[i]] = "high" -> "1"
                            [] OTHER                -> "x"
<1>1. Identify(s, gpios, gpios, table, default).gpioid
      = [i \in DOMAIN gpios |-> Digit(s, gpios[i], gpios[i])]
  BY DEF Identify, Gpioid
<1> QED
  BY <1>1, DigitTold

LEMMA StrapsOf ==
  ASSUME NEW b \in Boards, NEW s \in Strappings(b)
  PROVE  \A i \in DOMAIN GpiosOf(b) : GpiosOf(b)[i] # NoPin => s[GpiosOf(b)[i]] \in Levels
<1>1. s \in [RevisionPins(b) -> Levels]
  BY StrappingsAssumption
<1> QED
  BY <1>1 DEF RevisionPins

LEMMA Told ==
  ASSUME NEW b \in Boards, NEW s \in Strappings(b)
  PROVE  \A i \in DOMAIN Detected(b, s).gpioid :
           GpiosOf(b)[i] # NoPin =>
             Detected(b, s).gpioid[i] =
               CASE s[GpiosOf(b)[i]] = "low"  -> "0"
                 [] s[GpiosOf(b)[i]] = "high" -> "1"
                 [] OTHER -> IF b = "aesys_2409" THEN "0" ELSE "x"
<1>1. CASE b = "aesys_2319a"
  BY <1>1 DEF Detected
<1>2. CASE b = "aesys_2409"
  <2>1. GpiosOf(b) = HwrevGpios_2409 /\ HwrevPads_2409 = HwrevGpios_2409
    BY <1>2 DEF GpiosOf, HwrevPads_2409, HwrevGpios_2409
  <2>2. Detected(b, s).gpioid
        = [i \in 1 .. 8 |->
             IF Level(s, HwrevGpios_2409[i], HwrevPads_2409[i], "down") THEN "1" ELSE "0"]
    BY <1>2 DEF Detected, Detect_2409
  <2>3. DOMAIN HwrevGpios_2409 = 1 .. 8
    BY DEF HwrevGpios_2409
  <2>4. \A i \in 1 .. 8 : HwrevGpios_2409[i] # NoPin => s[HwrevGpios_2409[i]] \in Levels
    BY <2>1, <2>3, StrapsOf
  <2>5. ASSUME NEW i \in 1 .. 8, HwrevGpios_2409[i] # NoPin
        PROVE  Detected(b, s).gpioid[i] =
                 CASE s[HwrevGpios_2409[i]] = "low"  -> "0"
                   [] s[HwrevGpios_2409[i]] = "high" -> "1"
                   [] OTHER -> "0"
    BY <2>2, <2>4, <2>5 DEF Level, Levels
  <2>6. DOMAIN Detected(b, s).gpioid = 1 .. 8
    BY <2>2
  <2> QED
    BY <1>2, <2>1, <2>5, <2>6
<1>3. CASE b \in {"aesys_2414", "aesys_2414_2g", "aesys_2522", "aesys_2602"}
  <2>1. \E table, default :
          Detected(b, s) = Identify(s, GpiosOf(b), GpiosOf(b), table, default)
    <3>1. CASE b = "aesys_2414"
      BY <3>1 DEF Detected, Detect_2414, GpiosOf, HwrevPads_2414, HwrevGpios_2414
    <3>2. CASE b = "aesys_2414_2g"
      BY <3>2 DEF Detected, Detect_2414_2g, GpiosOf, HwrevPads_2414_2g, HwrevGpios_2414_2g,
         HwrevPads_2414, HwrevGpios_2414
    <3>3. CASE b = "aesys_2522"
      BY <3>3 DEF Detected, Detect_2522, GpiosOf, HwrevPads_2522, HwrevGpios_2522
    <3>4. CASE b = "aesys_2602"
      BY <3>4 DEF Detected, Detect_2602, GpiosOf, HwrevPads_2602, HwrevGpios_2602
    <3> QED
      BY <1>3, <3>1, <3>2, <3>3, <3>4
  <2>2. PICK table, default :
          Detected(b, s) = Identify(s, GpiosOf(b), GpiosOf(b), table, default)
    BY <2>1
  <2>3. b # "aesys_2409"
    BY <1>3
  <2> QED
    BY <2>2, <2>3, StrapsOf, GpioidTold
<1> QED
  BY <1>1, <1>2, <1>3 DEF Boards

(* The gpioid tells how every pin of the board is tied, also those that are  *)
(* left floating, for every strapping: the pads pulled are those of the pins *)
(* read, pin by pin.                                                         *)
THEOREM StrapsAreTold == Spec => []StrapsTold
<1>1. Init => StrapsInv
  BY DEF Init, StrapsInv, DetectInv, SplInit, UBootInitial, Prompt
<1>2. ASSUME StrapsInv, [Next]_vars PROVE StrapsInv'
  BY <1>2, DetectStep, Wiring DEF StrapsInv
<1>3. ASSUME StrapsInv PROVE StrapsTold
  <2>1. CASE id = NoId
    BY <2>1 DEF NoId, StrapsTold
  <2>2. CASE id = Detected(board, straps)
    BY <1>3, <2>2, Told DEF StrapsInv, DetectInv, StrapsTold
  <2> QED
    BY <1>3, <2>1, <2>2 DEF StrapsInv, DetectInv
<1> QED
  BY <1>1, <1>2, <1>3, PTL DEF Spec

------------------------------------------------------------------------------
(* The console *)

Consoles == [pads : {"untouched", "dce", "dte"}, tree : {"dce", "dte"},
             driver : {"none", "dce", "dte"}]

(* The mode of the console of the board that is there. *)
Mode ==
  IF board = "aesys_2409" /\ Detect_2409(straps).boardid # "aesys_2409c" THEN "dte" ELSE "dce"

(* aesys_2409 corrects pads and tree together, the others set their pads to  *)
(* what their tree says from the start; the driver takes its mode from the   *)
(* tree later.                                                               *)
ConsoleInv ==
  /\ DetectInv
  /\ uart \in Consoles
  /\ board # "aesys_2409" => uart.tree = "dce"
  /\ board # "aesys_2409" /\ pc \in {"fixup", "relocated", "board_init"} \cup Prompt =>
       uart.pads = "dce"
  /\ board = "aesys_2409" /\ pc \in {"relocated", "board_init"} \cup Prompt /\ fixup # 1 =>
       uart.pads = Mode /\ uart.tree = Mode
  /\ pc \in {"board_init"} \cup Prompt => uart.driver = uart.tree

LEMMA EarlyInits ==
  ASSUME NEW b \in Boards
  PROVE  Code[b].earlyInit = IF b = "aesys_2409" THEN "untouched" ELSE "dce"
  BY DEF Boards, Code, BoardEarlyInitF_2319a, BoardEarlyInitF_2409, BoardEarlyInitF_2414,
     BoardEarlyInitF_2414_2g, BoardEarlyInitF_2522, BoardEarlyInitF_2602

LEMMA EarlyConsole ==
  ASSUME board \in Boards, uart \in Consoles
  PROVE  /\ EarlyUart \in Consoles /\ EarlyUart.tree = uart.tree
         /\ board # "aesys_2409" => EarlyUart.pads = "dce"
<1>1. CASE board = "aesys_2409"
  BY <1>1, EarlyInits DEF EarlyUart
<1>2. CASE board # "aesys_2409"
  <2>1. EarlyUart = [uart EXCEPT !.pads = "dce"]
    BY <1>2, EarlyInits DEF EarlyUart
  <2> QED
    BY <1>2, <2>1 DEF Consoles
<1> QED
  BY <1>1, <1>2

LEMMA FixedConsole ==
  ASSUME board = "aesys_2409", uart \in Consoles
  PROVE  FixedUart \in Consoles /\ FixedUart.pads = Mode /\ FixedUart.tree = Mode
<1>1. FixedUart = [uart EXCEPT !.pads = Mode, !.tree = Mode]
  BY DEF FixedUart, Mode
<1>2. Mode \in {"dce", "dte"}
  BY DEF Mode
<1> QED
  BY <1>1, <1>2 DEF Consoles

LEMMA ConsoleStep == ASSUME ConsoleInv, [Next]_vars PROVE ConsoleInv'
<1> USE DEF ConsoleInv
<1>0. DetectInv' /\ board \in Boards /\ UNCHANGED <<board, straps>> /\ Mode' = Mode
  BY Wiring, DetectStep DEF DetectInv, Mode
<1>1. ASSUME UNCHANGED <<uart, fixup>>, pc' \in Prompt => pc \in {"board_init"} \cup Prompt,
             pc' \notin {"fixup", "relocated"}, pc' = "board_init" => pc = "board_init"
      PROVE  ConsoleInv'
  BY <1>0, <1>1
<1>2. CASE SplNext /\ UNCHANGED ubootVars
  <2>1. uart' \in Consoles /\ uart'.tree = uart.tree
    BY <1>0, <1>2, SplFrame, EarlyConsole
  <2> QED
    BY <1>0, <1>2, <2>1, SplFrame DEF Loading, Prompt
<1>3. CASE EarlyInitF
  BY <1>0, <1>3, EarlyConsole DEF EarlyInitF, Prompt
<1>4. CASE FixFdt
  <2>1. pc = "fixup" /\ pc' = "relocated"
    BY <1>4 DEF FixFdt
  <2>2. CASE board # "aesys_2409"
    BY <1>0, <1>4, <2>1, <2>2 DEF FixFdt, Prompt
  <2>3. CASE board = "aesys_2409"
    <3>1. uart' \in Consoles /\ (fixup' # 1 => uart'.pads = Mode /\ uart'.tree = Mode)
      BY <1>4, <2>3, FixedConsole DEF FixFdt
    <3> QED
      BY <1>0, <2>1, <2>3, <3>1 DEF Prompt
  <2> QED
    BY <2>2, <2>3
<1>5. CASE ProbeUart
  <2>1. pc = "relocated" /\ pc' = "board_init" /\ UNCHANGED fixup
    BY <1>5 DEF ProbeUart, ubootVars
  <2>2. uart' = [uart EXCEPT !.driver = uart.tree]
    BY <1>5 DEF ProbeUart
  <2>3. /\ uart' \in Consoles /\ uart'.driver = uart.tree
        /\ uart'.tree = uart.tree /\ uart'.pads = uart.pads
    BY <2>2 DEF Consoles
  <2> QED
    BY <1>0, <2>1, <2>3 DEF Prompt
<1>6. CASE BoardInitCall \/ BoardLateInit
  BY <1>1, <1>6 DEF BoardInitCall, BoardLateInit, Prompt
<1>7. CASE Usb \/ UsbStart \/ UsbStop
  BY <1>1, <1>7, UsbFrame DEF Prompt
<1>8. CASE Network
  BY <1>1, <1>8, EthFrame DEF Prompt
<1>9. CASE PowerCycle
  <2>1. uart' \in Consoles /\ (board # "aesys_2409" => uart'.tree = "dce") /\ pc' = "rom"
    BY <1>9 DEF PowerCycle, ConsoleAtReset, Consoles
  <2> QED
    BY <1>0, <2>1 DEF Prompt
<1>10. CASE UNCHANGED vars
  BY <1>0, <1>10 DEF vars, splVars, ubootVars
<1> QED
  BY <1>2, <1>3, <1>4, <1>5, <1>6, <1>7, <1>8, <1>9, <1>10
  DEF Next, Program, UBootNext, Usb, Network

LEMMA ConsoleAlways == Spec => []ConsoleInv
<1>1. Init => ConsoleInv
  <2> SUFFICES ASSUME Init PROVE ConsoleInv
    OBVIOUS
  <2>1. DetectInv
    BY DEF Init, DetectInv, SplInit, UBootInitial, Prompt
  <2>2. uart \in Consoles /\ (board # "aesys_2409" => uart.tree = "dce") /\ pc = "rom"
    BY DEF Init, SplInit, ConsoleAtReset, Consoles
  <2> QED
    BY <2>1, <2>2 DEF ConsoleInv, Prompt
<1> QED
  BY <1>1, ConsoleStep, PTL DEF Spec

(* The console's driver works in the mode of its pads, and that is the mode  *)
(* of the board board_late_init finds after the console is up.               *)
THEOREM ConsolesAgree == Spec => []ConsoleAgrees
<1>1. ConsoleInv => ConsoleAgrees
  <2> SUFFICES ASSUME ConsoleInv, pc \in Prompt, fixup # 1
               PROVE  /\ uart.driver = uart.pads
                      /\ uart.pads = "dte" <=> board = "aesys_2409" /\ id.boardid # "aesys_2409c"
    BY DEF ConsoleAgrees
  <2>1. uart.pads = Mode /\ uart.driver = Mode
    BY DEF ConsoleInv, Mode
  <2>2. board = "aesys_2409" => id = Detect_2409(straps)
    BY DEF ConsoleInv, DetectInv, Detected
  <2> QED
    BY <2>1, <2>2 DEF Mode
<1> QED
  BY <1>1, ConsoleAlways, PTL
==============================================================================
