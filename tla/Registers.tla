------------------------------ MODULE Registers ------------------------------
(***************************************************************************)
(* The registers as ixgbe.c has them, addresses and bits, and as the data  *)
(* sheet of klint has them (spec_reg.py), with the operations on fields.   *)
(* A word is the set of its bits that are one.  Registers and fields are   *)
(* named as in the data sheet.                                             *)
(***************************************************************************)
EXTENDS Integers, Sequences, FiniteSetsExt, TLC

WordBits == 0 .. 31

\* The first address, and the distance to the next one.
Reg(base, step) == [base |-> base, step |-> step]

\* A field, from its first to its last bit.
BITS(start, end) == start .. end
BIT(k)           == BITS(k, k)

-----------------------------------------------------------------------------
(* ixgbe.c: the REG_ macros in the order of their names there              *)

RegsCtrlToMta ==
  "CTRL" :> Reg(\h00000, 0) @@ "CTRL_EXT" :> Reg(\h00018, 0)
  @@ "DCA_RXCTRL" :> Reg(\h0100C, \h40) @@ "DCA_TXCTRL" :> Reg(\h0600C, \h40)
  @@ "DMATXCTL" :> Reg(\h04A80, 0) @@ "DTXMXSZRQ" :> Reg(\h08100, 0)
  @@ "EEC" :> Reg(\h10010, 0) @@ "FCCFG" :> Reg(\h03D00, 0)
  @@ "FCRTH" :> Reg(\h03260, 4) @@ "FCTRL" :> Reg(\h05080, 0)
  @@ "FTQF" :> Reg(\h0E600, 4) @@ "FWSM" :> Reg(\h10148, 0)
  @@ "GRC_EXT" :> Reg(\h11050, 0) @@ "HLREG0" :> Reg(\h04240, 0)
  @@ "MFLCN" :> Reg(\h04294, 0) @@ "MPSAR" :> Reg(\h0A600, 4) @@ "MTA" :> Reg(\h05200, 4)

RegsPfutaToTxpbthresh ==
  "PFUTA" :> Reg(\h0F400, 4) @@ "PFVLVF" :> Reg(\h0F100, 4)
  @@ "PFVLVFB" :> Reg(\h0F200, 4) @@ "RAH" :> Reg(\h0A204, 8) @@ "RAL" :> Reg(\h0A200, 8)
  @@ "RDBAH" :> Reg(\h01004, \h40) @@ "RDBAL" :> Reg(\h01000, \h40)
  @@ "RDLEN" :> Reg(\h01008, \h40) @@ "RDRXCTL" :> Reg(\h02F00, 0)
  @@ "RDT" :> Reg(\h01018, \h40) @@ "RTTDCS" :> Reg(\h04900, 0)
  @@ "RTTDQSEL" :> Reg(\h04904, 0) @@ "RTTDT1C" :> Reg(\h04908, 0)
  @@ "RXCTRL" :> Reg(\h03000, 0) @@ "RXDCTL" :> Reg(\h01028, \h40)
  @@ "RXPBSIZE" :> Reg(\h03C00, 4) @@ "SECRXCTRL" :> Reg(\h08D00, 0)
  @@ "SECRXSTAT" :> Reg(\h08D04, 0) @@ "SRRCTL" :> Reg(\h01014, \h40)
  @@ "STATUS" :> Reg(\h00008, 0) @@ "TDBAH" :> Reg(\h06004, \h40)
  @@ "TDBAL" :> Reg(\h06000, \h40) @@ "TDLEN" :> Reg(\h06008, \h40)
  @@ "TDT" :> Reg(\h06018, \h40) @@ "TDWBAH" :> Reg(\h0603C, \h40)
  @@ "TDWBAL" :> Reg(\h06038, \h40) @@ "TXDCTL" :> Reg(\h06028, \h40)
  @@ "TXPBSIZE" :> Reg(\h0CC00, 4) @@ "TXPBTHRESH" :> Reg(\h04950, 4)

Regs == RegsCtrlToMta @@ RegsPfutaToTxpbthresh

\* These have their first 64 queues apart from the others.
TwoRanges == {"DCA_RXCTRL", "RDBAH", "RDBAL", "RDLEN", "RDT", "RXDCTL", "SRRCTL"}

\* Mutated form of SecondRange: the queue after the first 64 is in their range.
SecondRange_OneLate(i) == i > 64

SecondRange(i) == ~ (i <= 63)

Address(reg, i) ==
  IF reg \in TwoRanges /\ SecondRange(i)
  THEN Regs[reg].base + \hC000 + Regs[reg].step * (i - 64)
  ELSE Regs[reg].base + Regs[reg].step * i

REG_EIMC(i) == IF i = 0 THEN \h00888 ELSE \h00AB0 + 4 * (i - 1)

\* The indexes that the driver uses.
Count(reg) ==
  CASE reg \in TwoRanges                                   -> 128   \* RECEIVE_QUEUES_COUNT
    [] reg \in {"DCA_TXCTRL", "TDBAH", "TDBAL", "TDLEN", "TDT", "TDWBAH", "TDWBAL", "TXDCTL"}
                                                           -> 128   \* TRANSMIT_QUEUES_COUNT
    [] reg \in {"RXPBSIZE", "TXPBSIZE"}                    -> 8     \* TRAFFIC_CLASSES_COUNT
    [] reg \in {"PFUTA", "MTA"}                            -> (4 * 1024) \div 32
    [] reg = "PFVLVF"                                      -> 64    \* POOLS_COUNT
    [] reg = "PFVLVFB"                                     -> 64 * 2
    [] reg = "MPSAR"                                       -> 128 * 2   \* RECEIVE_ADDRS_COUNT
    [] reg = "FTQF"                                        -> 128   \* FIVETUPLE_FILTERS_COUNT
    [] OTHER                                               -> 1

DriverFields ==
  <<"CTRL", "PCIe Master Disable">> :> BIT(2) @@ <<"CTRL", "RST">> :> BIT(26)
  @@ <<"CTRL_EXT", "NS_DIS">> :> BIT(16) @@ <<"DCA_RXCTRL", "Special_Reserved">> :> BIT(12)
  @@ <<"DCA_TXCTRL", "TXdescWBROen">> :> BIT(11) @@ <<"DMATXCTL", "TE">> :> BIT(0)
  @@ <<"DTXMXSZRQ", "Max_bytes_num_req">> :> BITS(0, 11)
  @@ <<"EEC", "EE_PRES">> :> BIT(8) @@ <<"EEC", "Auto_RD">> :> BIT(9)
  @@ <<"FCCFG", "TFCE">> :> BITS(3, 4) @@ <<"FCRTH", "RTH">> :> BITS(5, 18)
  @@ <<"FCTRL", "MPE">> :> BIT(8) @@ <<"FCTRL", "UPE">> :> BIT(9)
  @@ <<"FTQF", "Queue Enable">> :> BIT(31) @@ <<"FWSM", "Ext_err_ind">> :> BITS(19, 24)
  @@ <<"GRC_EXT", "Buffers_Clear_Func">> :> BIT(30) @@ <<"HLREG0", "LPBK">> :> BIT(15)
  @@ <<"MFLCN", "RFCE">> :> BIT(3)
  @@ <<"RDRXCTL", "CRCStrip">> :> BIT(1) @@ <<"RDRXCTL", "DMAIDONE">> :> BIT(3)
  @@ <<"RDRXCTL", "RSCFRSTSIZE">> :> BITS(17, 21) @@ <<"RDRXCTL", "RSCACKC">> :> BIT(25)
  @@ <<"RDRXCTL", "FCOE_WRFIX">> :> BIT(26) @@ <<"RTTDCS", "ARBDIS">> :> BIT(6)
  @@ <<"RXCTRL", "RXEN">> :> BIT(0) @@ <<"RXDCTL", "ENABLE">> :> BIT(25)
  @@ <<"SECRXCTRL", "RX_DIS">> :> BIT(1) @@ <<"SECRXSTAT", "SECRX_RDY">> :> BIT(0)
  @@ <<"SRRCTL", "BSIZEPACKET">> :> BITS(0, 4) @@ <<"SRRCTL", "Drop_En">> :> BIT(28)
  @@ <<"STATUS", "PCIe Master Enable Status">> :> BIT(19)
  @@ <<"TXDCTL", "PTHRESH">> :> BITS(0, 6) @@ <<"TXDCTL", "HTHRESH">> :> BITS(8, 14)
  @@ <<"TXDCTL", "ENABLE">> :> BIT(25) @@ <<"TXPBTHRESH", "THRESH">> :> BITS(0, 9)

-----------------------------------------------------------------------------
(* ixgbe.c: operations on fields                                           *)

BitsOf(v) == {b \in 0 .. 30 : (v \div 2 ^ b) % 2 = 1}

find_first_set(value) == IF value = {} THEN 0 ELSE Min(value)

reg_read_field(word, field) ==
  LET shift == find_first_set(field)
  IN  {b - shift : b \in {c \in word : c >= shift}} \cap {b - shift : b \in field}

\* Bits of a value that is too large end up in the fields after it.
reg_write_field(old_value, field, field_value) ==
  LET shift == find_first_set(field)
  IN  (old_value \ field) \cup ({b + shift : b \in field_value} \cap WordBits)

reg_clear_field(old_value, field) == reg_write_field(old_value, field, {})
reg_set_field(old_value, field)   == old_value \cup field

\* The values that the driver gives to reg_write_field.
FieldValues ==
  { << <<"FCRTH", "RTH">>, (512 * 1024 - 24576) \div 32 >>, << <<"FCCFG", "TFCE">>, 1 >>,
    << <<"TXPBTHRESH", "THRESH">>, 160 - 2048 \div 1024 >>,
    << <<"DTXMXSZRQ", "Max_bytes_num_req">>, 4095 >>, << <<"TXDCTL", "PTHRESH">>, 60 >>,
    << <<"TXDCTL", "HTHRESH">>, 4 >>, << <<"SRRCTL", "BSIZEPACKET">>, 2048 \div 1024 >> }

-----------------------------------------------------------------------------
(* spec_reg.py: base, multiplier and limit of each range of a register     *)

SpecInit ==
  "CTRL" :> << <<\h00000, 0, 0>> >> @@ "STATUS" :> << <<\h00008, 0, 0>> >>
  @@ "EIMC_0" :> << <<\h00888, 0, 0>> >> @@ "EIMC_1" :> << <<\h00AB0, 0, 0>> >>
  @@ "EIMC_2" :> << <<\h00AB4, 0, 0>> >> @@ "FCRTH" :> << <<\h03260, 4, 7>> >>
  @@ "FWSM" :> << <<\h10148, 0, 0>> >> @@ "RXPBSIZE" :> << <<\h03C00, 4, 7>> >>
  @@ "EEC" :> << <<\h10010, 0, 0>> >> @@ "RDRXCTL" :> << <<\h02F00, 0, 0>> >>
  @@ "PFUTA" :> << <<\h0F400, 4, 127>> >> @@ "PFVLVF" :> << <<\h0F100, 4, 63>> >>
  @@ "MPSAR" :> << <<\h0A600, 4, 255>> >> @@ "PFVLVFB" :> << <<\h0F200, 4, 127>> >>
  @@ "MTA" :> << <<\h05200, 4, 127>> >> @@ "MFLCN" :> << <<\h04294, 0, 0>> >>
  @@ "FCCFG" :> << <<\h03D00, 0, 0>> >> @@ "RTTDQSEL" :> << <<\h04904, 0, 0>> >>
  @@ "RTTDT1C" :> << <<\h04908, 0, 0>> >> @@ "FTQF" :> << <<\h0E600, 4, 127>> >>
  @@ "RTTDCS" :> << <<\h04900, 0, 0>> >> @@ "TXPBSIZE" :> << <<\h0CC00, 4, 7>> >>
  @@ "DTXMXSZRQ" :> << <<\h08100, 0, 0>> >> @@ "TXPBTHRESH" :> << <<\h04950, 4, 7>> >>
  @@ "MTQC" :> << <<\h08120, 0, 0>> >> @@ "HLREG0" :> << <<\h04240, 0, 0>> >>
  @@ "GRC_EXT" :> << <<\h11050, 0, 0>> >> @@ "RXMEMWRAP" :> << <<\h03190, 0, 0>> >>

SpecQueues ==
  LET rx(base) == << <<base, \h40, 63>>, <<base + \hC000, \h40, 127>> >>
      tx(base) == << <<base, \h40, 127>> >>
  IN  "TDBAL" :> tx(\h06000) @@ "TDBAH" :> tx(\h06004) @@ "TDLEN" :> tx(\h06008)
      @@ "TXDCTL" :> tx(\h06028) @@ "TDWBAL" :> tx(\h06038) @@ "TDWBAH" :> tx(\h0603C)
      @@ "DCA_TXCTRL" :> tx(\h0600C) @@ "DMATXCTL" :> << <<\h04A80, 0, 0>> >>
      @@ "RDBAL" :> rx(\h01000) @@ "RDBAH" :> rx(\h01004) @@ "RDLEN" :> rx(\h01008)
      @@ "RDT" :> rx(\h01018) @@ "RXDCTL" :> rx(\h01028) @@ "SRRCTL" :> rx(\h01014)
      @@ "PSRTYPE" :> << <<\h0EA00, 4, 63>> >> @@ "RSCCTL" :> << <<\h0102C, \h40, 63>> >>
      @@ "DCA_RXCTRL" :> rx(\h0100C)
      @@ "SECRXCTRL" :> << <<\h08D00, 0, 0>> >> @@ "SECRXSTAT" :> << <<\h08D04, 0, 0>> >>
      @@ "CTRL_EXT" :> << <<\h00018, 0, 0>> >> @@ "RXCTRL" :> << <<\h03000, 0, 0>> >>
      @@ "FCTRL" :> << <<\h05080, 0, 0>> >> @@ "MANC" :> << <<\h05820, 0, 0>> >>
      @@ "RAL" :> << <<\h0A200, 8, 127>> >> @@ "RAH" :> << <<\h0A204, 8, 127>> >>
      @@ "TDT" :> tx(\h06018)

\* The fields of more than one bit; the others are in SpecBit.
SpecRange ==
  <<"FCRTH", "RTH">> :> <<5, 18>> @@ <<"FWSM", "Ext_err_ind">> :> <<19, 24>>
  @@ <<"RDRXCTL", "RSCFRSTSIZE">> :> <<17, 21>> @@ <<"FCCFG", "TFCE">> :> <<3, 4>>
  @@ <<"DTXMXSZRQ", "Max_bytes_num_req">> :> <<0, 11>>
  @@ <<"TXPBTHRESH", "THRESH">> :> <<0, 9>> @@ <<"TXDCTL", "PTHRESH">> :> <<0, 6>>
  @@ <<"TXDCTL", "HTHRESH">> :> <<8, 14>> @@ <<"SRRCTL", "BSIZEPACKET">> :> <<0, 4>>

SpecBit ==
  <<"CTRL", "PCIe Master Disable">> :> 2 @@ <<"CTRL", "RST">> :> 26
  @@ <<"STATUS", "PCIe Master Enable Status">> :> 19
  @@ <<"EEC", "EE_PRES">> :> 8 @@ <<"EEC", "Auto_RD">> :> 9
  @@ <<"RDRXCTL", "CRCStrip">> :> 1 @@ <<"RDRXCTL", "DMAIDONE">> :> 3
  @@ <<"RDRXCTL", "RSCACKC">> :> 25 @@ <<"RDRXCTL", "FCOE_WRFIX">> :> 26
  @@ <<"MFLCN", "RFCE">> :> 3 @@ <<"FTQF", "Queue Enable">> :> 31
  @@ <<"RTTDCS", "ARBDIS">> :> 6 @@ <<"HLREG0", "LPBK">> :> 15
  @@ <<"GRC_EXT", "Buffers_Clear_Func">> :> 30 @@ <<"TXDCTL", "ENABLE">> :> 25
  @@ <<"DCA_TXCTRL", "TXdescWBROen">> :> 11 @@ <<"DMATXCTL", "TE">> :> 0
  @@ <<"RXDCTL", "ENABLE">> :> 25 @@ <<"SRRCTL", "Drop_En">> :> 28
  @@ <<"DCA_RXCTRL", "Special_Reserved">> :> 12 @@ <<"SECRXCTRL", "RX_DIS">> :> 1
  @@ <<"SECRXSTAT", "SECRX_RDY">> :> 0 @@ <<"CTRL_EXT", "NS_DIS">> :> 16
  @@ <<"RXCTRL", "RXEN">> :> 0 @@ <<"FCTRL", "MPE">> :> 8 @@ <<"FCTRL", "UPE">> :> 9

SpecFields == [f \in DOMAIN SpecRange |-> SpecRange[f][1] .. SpecRange[f][2]]
              @@ [f \in DOMAIN SpecBit |-> {SpecBit[f]}]

\* find_reg_from_addr: the table of addresses that it makes when it is first
\* called.  The limit of a second range counts the first range too.
RegAt ==
  LET spec == SpecInit @@ SpecQueues
      range(reg, r) ==
        LET idx == IF r = 1 THEN 0 ELSE spec[reg][1][3] + 1
        IN  {<<spec[reg][r][1] + k * spec[reg][r][2], reg, k + idx>> :
               k \in 0 .. spec[reg][r][3] - idx}
  IN  UNION {UNION {range(reg, r) : r \in 1 .. Len(spec[reg])} : reg \in DOMAIN spec}

-----------------------------------------------------------------------------

\* All that the driver accesses is, for the data sheet, the register and the
\* index that it means, in the 128 KB that line 517 maps; and no address is
\* two registers.
AddressesAgree ==
  /\ \A reg \in DOMAIN Regs :
       \A i \in 0 .. Count(reg) - 1 :
         <<Address(reg, i), reg, i>> \in RegAt /\ Address(reg, i) + 4 <= 128 * 1024
  /\ \A i \in 0 .. 2 : <<REG_EIMC(i), <<"EIMC_0", "EIMC_1", "EIMC_2">>[i + 1], 0>> \in RegAt
  /\ Cardinality({entry[1] : entry \in RegAt}) = Cardinality(RegAt)

\* A field is made of the same bits, a write of it leaves the others alone,
\* whatever they are, and reads back as what was written.
FieldsAgree ==
  /\ DriverFields = SpecFields
  /\ \A fv \in FieldValues, old \in {{}, WordBits} :
       LET field == DriverFields[fv[1]]
           word  == reg_write_field(old, field, BitsOf(fv[2]))
       IN  /\ reg_read_field(word, field) = BitsOf(fv[2])
           /\ word \ field = old \ field
  /\ \A f \in DOMAIN DriverFields, old \in {{}, WordBits} :
       LET field == DriverFields[f]
       IN  /\ reg_read_field(reg_clear_field(old, field), field) = {}
           /\ reg_read_field(reg_set_field(old, field), field)
                = {b - Min(field) : b \in field}

=============================================================================
