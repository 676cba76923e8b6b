-------------------------------- MODULE DdrMap -------------------------------
(***************************************************************************)
(* What the tables of a board mean to the controller: the memory its       *)
(* address map reaches, the refresh its density needs, the mode registers  *)
(* it programs again by itself.  The controller and the memory are outside *)
(* the repository; these operators are their data sheets.                  *)
(***************************************************************************)
EXTENDS DdrTables, FiniteSets

Byte(word, k) == word[4 - k]  \* byte 0 is the least significant one

Ranks(ddrc) == IF Byte(ddrc.mstr, 3) % 4 = 3 THEN {0, 1} ELSE {0}

Lanes(phy) == DOMAIN phy.swizzle

(* The field of ADDRMAP5 to ADDRMAP7 that places row bit k. *)
RowField(ddrc, k) ==
  CASE k \in 0 .. 1   -> Byte(ddrc.addrmap[6], k)
    [] k \in 2 .. 10  -> Byte(ddrc.addrmap[6], 2)
    [] k = 11         -> Byte(ddrc.addrmap[6], 3)
    [] k \in 12 .. 15 -> Byte(ddrc.addrmap[7], k - 12)
    [] k \in 16 .. 17 -> Byte(ddrc.addrmap[8], k - 16)

ColField(ddrc, k) == Byte(ddrc.addrmap[2 + (k + 2) \div 4], (k + 2) % 4)

(* Which bit of the address feeds which bit of the chip select, bank, row    *)
(* and column: <<kind, bit, address bit>>.  The greatest value of a field    *)
(* leaves its bit unused; columns 0 and 1 have no field.                     *)
AddressBits(ddrc) ==
       {<<"cs", 0, 6 + v>> : v \in {Byte(ddrc.addrmap[1], 0)} \ {\h1F}}
  \cup {<<"bank", k, 2 + k + Byte(ddrc.addrmap[2], k)>> : k \in 0 .. 2}
  \cup {<<"row", k, 6 + k + RowField(ddrc, k)>> : k \in {r \in 0 .. 17 : RowField(ddrc, r) # \hF}}
  \cup {<<"col", k, k>> : k \in 0 .. 1}
  \cup {<<"col", k, k + ColField(ddrc, k)>> : k \in {c \in 2 .. 11 : ColField(ddrc, c) < \h1F}}

Width(ddrc) == Cardinality(AddressBits(ddrc))

(* Every address is one cell and every cell has an address. *)
AddressMapExact(ddrc) ==
  {bit[3] : bit \in AddressBits(ddrc)} = 0 .. Width(ddrc) - 1

(* Memory behind the controller, in MiB: one byte of each lane per address.  *)
Capacity(t) == 2 ^ (Width(t.ddrc) - 20) * Cardinality(Lanes(t.phy))

(* Density of a 16-bit channel of one rank, in Gbit. *)
ChannelGbit(ddrc) == 2 ^ (Width(ddrc) - (Cardinality(Ranks(ddrc)) - 1) - 26)

(* JEDEC: time of an all-bank refresh in ns, by density of the channel.      *)
RefreshTime(gbit) == CASE gbit <= 4 -> 180 [] gbit = 8 -> 280 [] OTHER -> 380

(* A refresh is long enough for the density and comes every 3.904 us.        *)
RefreshKeepsUp(t) ==
  LET clock == t.rates[0] \div 4  \* of the controller, in MHz
      tRFC  == 256 * Byte(t.ddrc.rfshtmg, 1) + Byte(t.ddrc.rfshtmg, 0)
      tREFI == 32 * (256 * Byte(t.ddrc.rfshtmg, 3) + Byte(t.ddrc.rfshtmg, 2))
  IN  1000 * tRFC >= RefreshTime(ChannelGbit(t.ddrc)) * clock
      /\ 1000 * tREFI <= 3904 * clock

(* The mode registers the controller programs when it leaves self-refresh.   *)
ControllerModes(ddrc) ==
  [mr1  |-> ddrc.init3[2], mr2  |-> ddrc.init3[4], mr3 |-> ddrc.init4[2],
   mr11 |-> ddrc.init6[2], mr12 |-> ddrc.init6[4],
   mr22 |-> ddrc.init7[2], mr14 |-> ddrc.init7[4]]

(* What the PHY was trained with is what the controller works with.          *)
TrainingAgrees(t) ==
  \A i \in DOMAIN t.fsp :
    LET m == t.fsp[i].msg IN
    /\ m.a = ControllerModes(t.ddrc) /\ m.b = m.a
    /\ m.cs = Ranks(t.ddrc)
    /\ {m.rate, t.fsp[i].drate, 4 * t.phy.dfimhz} = {t.rates[0]}

(* Each lane is wired by a permutation, and is kept for every state in use.  *)
LanesKept(t) ==
  /\ \A l \in Lanes(t.phy) : {t.phy.swizzle[l][i] : i \in 1 .. 8} = 0 .. 7
  /\ Lanes(t.phy) \subseteq t.csr.lanes /\ DOMAIN t.rates \subseteq t.csr.pstates
==============================================================================
