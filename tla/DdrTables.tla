------------------------------ MODULE DdrTables ------------------------------
(***************************************************************************)
(* The LPDDR4 tables of the boards (lpddr4_timing.c): what they tell the   *)
(* memory controller, the PHY and the training firmware, read through the  *)
(* controller's address map.  Every board has its own copy of the tables;  *)
(* a copy that is the same as another one is defined by that one.          *)
(*                                                                         *)
(* A register is the sequence of its bytes, the most significant first, as *)
(* it is printed in the source.  Of about 60 controller registers the      *)
(* tables keep those that say what memory there is, how it is refreshed    *)
(* and what its mode registers hold.                                       *)
(***************************************************************************)
EXTENDS Integers, Sequences

Boards == {"aesys_2319a", "aesys_2409", "aesys_2414", "aesys_2414_2g",
           "aesys_2522", "aesys_2602"}

------------------------------------------------------------------------------
(* ddr_ddrc_cfg: MSTR, RFSHTMG, INIT3, INIT4, INIT6, INIT7, ADDRMAP0..7      *)

DdrcCfg_2414 ==
  [mstr |-> <<\hA3, 8, 0, \h20>>, rfshtmg |-> <<0, \h7A, 1, \h18>>,
   init3 |-> <<0, \hF4, 0, \h3F>>, init4 |-> <<0, \h33, 0, 0>>,
   init6 |-> <<0, \h66, 0, \h48>>, init7 |-> <<0, \h16, 0, \h48>>,
   addrmap |-> <<<<0, 0, 0, \h17>>, <<0, 8, 8, 8>>, <<0, 0, 0, 0>>,
                 <<0, 0, 0, 0>>, <<0, 0, \h1F, \h1F>>, <<7, 7, 7, 7>>,
                 <<7, 7, 7, 7>>, <<0, 0, \hF, \hF>>>>]

DdrcCfg_2522 == DdrcCfg_2414
DdrcCfg_2602 == DdrcCfg_2414

(* Faulty: the address map of the board it was copied from, with two ranks.  *)
DdrcCfg_2414_2g_Copied == [DdrcCfg_2414 EXCEPT !.mstr = <<\hA1, 8, 0, \h20>>]

DdrcCfg_2414_2g ==
  [DdrcCfg_2414 EXCEPT !.mstr = <<\hA1, 8, 0, \h20>>,
                       !.addrmap[1] = <<0, 0, 0, \h1F>>]

DdrcCfg_2319a ==
  [DdrcCfg_2414_2g EXCEPT
     !.rfshtmg = <<0, \h6D, 0, \hA2>>,
     !.init3 = <<0, \hE4, 0, \h36>>,
     !.addrmap[7] = <<\hF, 7, 7, 7>>]

(* ADDRMAP2 is not in this table: it keeps its reset value of 0.             *)
DdrcCfg_2409 ==
  [DdrcCfg_2414_2g EXCEPT
     !.rfshtmg = <<0, \h61, 1, \h30>>,
     !.init3 = <<0, \hD4, 0, \h2D>>, !.init4 = <<0, \h31, 0, 0>>,
     !.init6 = <<0, \h66, 0, \h4D>>, !.init7 = <<0, \h16, 0, \h4D>>,
     !.addrmap[8] = <<0, 0, \hF, 7>>]

------------------------------------------------------------------------------
(* ddr_ddrphy_cfg: the data lines of each byte lane and the PHY's frequency *)
(* in MHz.                                                                  *)

DdrPhyCfg_2414 ==
  [swizzle |-> <<<<0, 1, 2, 3, 4, 5, 6, 7>>, <<0, 1, 3, 4, 5, 2, 7, 6>>,
                 <<0, 1, 3, 2, 5, 4, 7, 6>>, <<0, 1, 2, 3, 4, 5, 6, 7>>>>,
   dfimhz |-> \h3E8]

DdrPhyCfg_2522 == DdrPhyCfg_2414
DdrPhyCfg_2602 == DdrPhyCfg_2414
DdrPhyCfg_2414_2g == DdrPhyCfg_2414
DdrPhyCfg_2319a == [DdrPhyCfg_2414 EXCEPT !.dfimhz = \h384]

DdrPhyCfg_2409 ==
  [swizzle |-> SubSeq(DdrPhyCfg_2414.swizzle, 1, 2), dfimhz |-> \h320]

(* ddr_ddrphy_trained_csr: the byte lanes and power states whose trained     *)
(* registers are kept for leaving self-refresh.                              *)
TrainedCsr_2414 == [lanes |-> 1 .. 4, pstates |-> {0}]
TrainedCsr_2522 == TrainedCsr_2414
TrainedCsr_2602 == TrainedCsr_2414
TrainedCsr_2319a == TrainedCsr_2414
TrainedCsr_2414_2g == [lanes |-> 1 .. 4, pstates |-> 0 .. 2]
TrainedCsr_2409 == [lanes |-> {1, 2}, pstates |-> {0}]

------------------------------------------------------------------------------
(* The message block of the training firmware: data rate, chip selects and   *)
(* the mode registers it programs, of channel A and of channel B.            *)

Message(rate, cs, mr, mrb) == [rate |-> rate, cs |-> cs, a |-> mr, b |-> mrb]

Modes(mr1, mr2, mr3, mr11, mr12, mr14, mr22) ==
  [mr1 |-> mr1, mr2 |-> mr2, mr3 |-> mr3, mr11 |-> mr11, mr12 |-> mr12,
   mr14 |-> mr14, mr22 |-> mr22]

Modes4000 == Modes(\hF4, \h3F, \h33, \h66, \h48, \h48, \h16)
Modes3600 == Modes(\hE4, \h36, \h33, \h66, \h48, \h48, \h16)
Modes3200 == Modes(\hD4, \h2D, \h31, \h66, \h4D, \h4D, \h16)

Fsp0Cfg_2414 == Message(\hFA0, {0, 1}, Modes4000, Modes4000)
Fsp0Cfg_2522 == Fsp0Cfg_2414
Fsp0Cfg_2602 == Fsp0Cfg_2414
Fsp0Cfg_2414_2g == Message(\hFA0, {0}, Modes4000, Modes4000)
Fsp0Cfg_2319a == Message(\hE10, {0}, Modes3600, Modes3600)
Fsp0Cfg_2409 == Message(\hC80, {0}, Modes3200, Modes3200)

(* The message of the second, two-dimensional training. *)
Fsp0Cfg2d_2414 == Message(\hFA0, {0, 1}, Modes4000, Modes4000)
Fsp0Cfg2d_2522 == Fsp0Cfg2d_2414
Fsp0Cfg2d_2602 == Fsp0Cfg2d_2414
Fsp0Cfg2d_2414_2g == Message(\hFA0, {0}, Modes4000, Modes4000)
Fsp0Cfg2d_2319a == Message(\hE10, {0}, Modes3600, Modes3600)
Fsp0Cfg2d_2409 == Message(\hC80, {0}, Modes3200, Modes3200)

(* ddr_dram_fsp_msg: the trainings, in their order. *)
Training(rate, cfg, cfg2d) ==
  <<[drate |-> rate, fw |-> "1D", msg |-> cfg], [drate |-> rate, fw |-> "2D", msg |-> cfg2d]>>

FspMsg_2319a == Training(3600, Fsp0Cfg_2319a, Fsp0Cfg2d_2319a)
FspMsg_2409 == Training(3200, Fsp0Cfg_2409, Fsp0Cfg2d_2409)
FspMsg_2414 == Training(4000, Fsp0Cfg_2414, Fsp0Cfg2d_2414)
FspMsg_2414_2g == Training(4000, Fsp0Cfg_2414_2g, Fsp0Cfg2d_2414_2g)
FspMsg_2522 == Training(4000, Fsp0Cfg_2522, Fsp0Cfg2d_2522)
FspMsg_2602 == Training(4000, Fsp0Cfg_2602, Fsp0Cfg2d_2602)

(* dram_timing: the tables together, with the rate of each power state.      *)
DramTiming(ddrc, phy, csr, fsp, rate) ==
  [ddrc |-> ddrc, phy |-> phy, csr |-> csr, fsp |-> fsp, rates |-> [p \in {0} |-> rate]]

DramTiming_2319a ==
  DramTiming(DdrcCfg_2319a, DdrPhyCfg_2319a, TrainedCsr_2319a, FspMsg_2319a, 3600)
DramTiming_2409 ==
  DramTiming(DdrcCfg_2409, DdrPhyCfg_2409, TrainedCsr_2409, FspMsg_2409, 3200)
DramTiming_2414 ==
  DramTiming(DdrcCfg_2414, DdrPhyCfg_2414, TrainedCsr_2414, FspMsg_2414, 4000)
DramTiming_2414_2g ==
  DramTiming(DdrcCfg_2414_2g, DdrPhyCfg_2414_2g, TrainedCsr_2414_2g, FspMsg_2414_2g, 4000)
DramTiming_2522 ==
  DramTiming(DdrcCfg_2522, DdrPhyCfg_2522, TrainedCsr_2522, FspMsg_2522, 4000)
DramTiming_2602 ==
  DramTiming(DdrcCfg_2602, DdrPhyCfg_2602, TrainedCsr_2602, FspMsg_2602, 4000)
==============================================================================
