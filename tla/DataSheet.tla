------------------------------ MODULE DataSheet ------------------------------
(***************************************************************************)
(* The Intel 82599 network card as klint's full-stack mode describes it:   *)
(* tool/klint/fullstack/spec_reg.py has the registers and their values     *)
(* after a reset, spec_act.py the actions by which a driver may write to   *)
(* them.  Registers are a function from fields to indexed values.  Only    *)
(* the fields that the driver uses are here; the low and high halves of an *)
(* address are one field.  Spaces in names are underscores.                *)
(***************************************************************************)
EXTENDS Integers, Sequences, SequencesExt

CONSTANTS
  ReceiveQueuesCount, TransmitQueuesCount,
  TableSize,            \* entries of every other table of registers
  X                     \* a value the data sheet does not specify

ASSUME QueuesAssumption ==
  ReceiveQueuesCount \in Nat \ {0} /\ TransmitQueuesCount \in Nat \ {0}
ASSUME TableAssumption == TableSize \in Nat \ {0} /\ X \notin Int

\* A row has a field, the number of its registers and their value.
Row(field, count, value) == [field |-> field, count |-> count, value |-> value]

AllBits == 1            \* stands for a mask of ones

GeneralReset ==
  { Row("CTRL.RST", 1, 0), Row("CTRL.PCIe_Master_Disable", 1, 0),
    Row("STATUS.PCIe_Master_Enable_Status", 1, 1),
    Row("EIMC.Interrupt_Mask", TableSize, 0), Row("FCRTH.RTH", 1, 0) }

EepromReset ==
  { Row("RXPBSIZE.SIZE", TableSize, 512), Row("EEC.Auto_RD", 1, 0) }

FilterReset ==
  { Row("RDRXCTL.DMAIDONE", 1, 0), Row("RDRXCTL.CRCStrip", 1, 0),
    Row("RDRXCTL.RSCFRSTSIZE", 1, 8), Row("RDRXCTL.RSCACKC", 1, 0),
    Row("RDRXCTL.FCOE_WRFIX", 1, 0), Row("PFUTA.Bit_Vector", TableSize, X),
    Row("PFVLVF.VI_En", TableSize, X), Row("PFVLVF.VLAN_Id", TableSize, X),
    Row("MPSAR.POOL_ENA", TableSize, X), Row("PFVLVFB.POOL_ENA", TableSize, X),
    Row("MTA.Bit_Vector", TableSize, X), Row("MFLCN.RFCE", 1, 0) }

ArbiterReset ==
  { Row("FCCFG.TFCE", 1, 0), Row("RTTDQSEL.TXDQ_IDX", 1, 0), Row("RTTDT1C.CRQ", 1, X),
    Row("FTQF.Queue_Enable", TableSize, X), Row("RTTDCS.ARBDIS", 1, 0),
    Row("TXPBSIZE.SIZE", TableSize, 160), Row("DTXMXSZRQ.Max_bytes_num_req", 1, 16),
    Row("TXPBTHRESH.THRESH", TableSize, X) }

MacReset ==
  { Row("HLREG0.LPBK", 1, 0), Row("GRC_EXT.Buffers_Clear_Func", 1, 0) }

TransmitQueueReset ==
  { Row("TDBA", TransmitQueuesCount, X), Row("TDLEN.LEN", TransmitQueuesCount, 0),
    Row("TXDCTL.PTHRESH", TransmitQueuesCount, 0),
    Row("TXDCTL.HTHRESH", TransmitQueuesCount, 0),
    Row("TXDCTL.ENABLE", TransmitQueuesCount, 0), Row("TDWBA", TransmitQueuesCount, 0),
    Row("TDWBAL.Head_WB_En", TransmitQueuesCount, 0),
    Row("DCA_TXCTRL.TXdescWBROen", TransmitQueuesCount, 1), Row("DMATXCTL.TE", 1, 0) }

ReceiveQueueReset ==
  { Row("RDBA", ReceiveQueuesCount, X), Row("RDLEN.LEN", ReceiveQueuesCount, 0),
    Row("RDT.RDT", ReceiveQueuesCount, 0), Row("RXDCTL.ENABLE", ReceiveQueuesCount, 0),
    Row("SRRCTL.BSIZEPACKET", ReceiveQueuesCount, 2),
    Row("SRRCTL.Drop_En", ReceiveQueuesCount, 0) }

ReceivePathReset ==
  { Row("DCA_RXCTRL.Special_Reserved", ReceiveQueuesCount, 1),
    Row("SECRXCTRL.RX_DIS", 1, 0), Row("SECRXSTAT.SECRX_RDY", 1, 0) }

ControlReset ==
  { Row("CTRL_EXT.NS_DIS", 1, 0), Row("RXCTRL.RXEN", 1, 0), Row("FCTRL.UPE", 1, 0),
    Row("FCTRL.MPE", 1, 0) }

\* The PCI configuration space, which a reset of the device leaves alone.
PciReset ==
  { Row("COMMAND.BME", 1, 0), Row("COMMAND.Mem_Access_En", 1, 0),
    Row("COMMAND.Interrupt_Dis", 1, 1), Row("DEVICE_STATUS.Transaction_Pending", 1, 0) }

\* The registers that a table has.
FromTable(table) ==
  [f \in {row.field : row \in table} |->
     LET row == CHOOSE r \in table : r.field = f
     IN  [i \in 0 .. row.count - 1 |-> row.value]]

DeviceTable ==
  GeneralReset \cup EepromReset \cup FilterReset \cup ArbiterReset \cup MacReset
  \cup TransmitQueueReset \cup ReceiveQueueReset \cup ReceivePathReset \cup ControlReset

DeviceReset == FromTable(DeviceTable)

\* All registers when the device gets power.
PowerOn == FromTable(DeviceTable \cup PciReset)

Fields == DOMAIN PowerOn

-----------------------------------------------------------------------------
(* The actions: whether v may be written to index i of field f while the   *)
(* registers are r.  Conditions are on the same index.                     *)

promiscuous(r, f, i, v) ==
  \/ f = "RXCTRL.RXEN" /\ v # r[f][i]
  \/ f \in {"FCTRL.UPE", "FCTRL.MPE"} /\ v = 1 /\ r["RXCTRL.RXEN"][i] = 0

\* A length is in bytes, a multiple of 256 below 2^18.
ValidLength(v) == v % 256 = 0 /\ v < 262144

enable_receive_queue(r, f, i, v) ==
  \/ f \in {"RDBA", "SRRCTL.Drop_En"}
  \/ f = "RDLEN.LEN" /\ ValidLength(v)
  \/ f = "SRRCTL.BSIZEPACKET" /\ v \in 1 .. 16
  \/ f \in {"RXDCTL.ENABLE", "SECRXCTRL.RX_DIS", "CTRL_EXT.NS_DIS"} /\ v = 1
  \/ f = "RDT.RDT" /\ r["RXDCTL.ENABLE"][i] = 1
  \/ f = "RXCTRL.RXEN" /\ v = 1 /\ r["SECRXSTAT.SECRX_RDY"][i] = 1
  \/ f = "SECRXCTRL.RX_DIS" /\ v = 0 /\ r["RXCTRL.RXEN"][i] = 1
  \/ f = "DCA_RXCTRL.Special_Reserved" /\ v = 0

enable_transmit_queue(r, f, i, v) ==
  \/ f \in {"TDBA", "TXDCTL.PTHRESH", "TXDCTL.HTHRESH", "TDWBA"}
  \/ f = "TDLEN.LEN" /\ ValidLength(v)
  \/ f \in {"TDWBAL.Head_WB_En", "DMATXCTL.TE", "TXDCTL.ENABLE"} /\ v = 1
  \/ f = "DCA_TXCTRL.TXdescWBROen" /\ v = 0

pci_setup(r, f, i, v) ==
  f \in {"COMMAND.BME", "COMMAND.Mem_Access_En", "COMMAND.Interrupt_Dis"} /\ v = 1

receive_init(r, f, i, v) ==
  \/ f \in {"PFVLVF.VLAN_Id", "MPSAR.POOL_ENA", "PFVLVFB.POOL_ENA",
            "RTTDQSEL.TXDQ_IDX", "RTTDT1C.CRQ"}
  \/ f \in {"PFUTA.Bit_Vector", "PFVLVF.VI_En", "FTQF.Queue_Enable",
            "RDRXCTL.RSCFRSTSIZE"} /\ v = 0
  \/ f = "MTA.Bit_Vector" /\ v \in {0, 1}
  \/ f = "RXPBSIZE.SIZE" /\ v \in {0, 512}
  \/ f \in {"RDRXCTL.CRCStrip", "RDRXCTL.RSCACKC", "RDRXCTL.FCOE_WRFIX",
            "MFLCN.RFCE", "FCCFG.TFCE"} /\ v = 1

transmit_init(r, f, i, v) ==
  \/ f \in {"RTTDCS.ARBDIS", "TXPBTHRESH.THRESH"}
  \/ f \in {"TXPBSIZE.SIZE", "TXDCTL.ENABLE"} /\ v = 0
  \/ f = "DTXMXSZRQ.Max_bytes_num_req" /\ v = 4095
  \/ f = "DMATXCTL.TE" /\ v = 1

master_disable(r, f, i, v) ==
  \/ f = "RXDCTL.ENABLE" /\ v = 0
  \/ f = "CTRL.PCIe_Master_Disable" /\ v = 1 /\ r["RXDCTL.ENABLE"][i] = 0
  \/ /\ \/ f = "HLREG0.LPBK" /\ v = 1
        \/ f = "RXCTRL.RXEN" /\ v = 0
     /\ r["STATUS.PCIe_Master_Enable_Status"][i] = 1
     /\ r["DEVICE_STATUS.Transaction_Pending"][i] = 0
  \/ /\ f = "GRC_EXT.Buffers_Clear_Func" /\ v = 1
     /\ r["HLREG0.LPBK"][i] = 1 /\ r["RXCTRL.RXEN"][i] = 0
  \/ f \in {"GRC_EXT.Buffers_Clear_Func", "HLREG0.LPBK"} /\ v = 0

software_reset(r, f, i, v) == f = "CTRL.RST" /\ v = 1

global_reset(r, f, i, v) == f = "FCRTH.RTH"

init_sequence(r, f, i, v) == f = "EIMC.Interrupt_Mask" /\ v = AllBits

Allowed(r, f, i, v) ==
  \/ promiscuous(r, f, i, v)           \/ enable_receive_queue(r, f, i, v)
  \/ enable_transmit_queue(r, f, i, v) \/ pci_setup(r, f, i, v)
  \/ receive_init(r, f, i, v)          \/ transmit_init(r, f, i, v)
  \/ master_disable(r, f, i, v)        \/ software_reset(r, f, i, v)
  \/ global_reset(r, f, i, v)          \/ init_sequence(r, f, i, v)

-----------------------------------------------------------------------------
(* A device is its registers, the changes the hardware is about to make,   *)
(* and the fields to which a write was not allowed.                        *)

Change(f, i, v) == [field |-> f, index |-> i, value |-> v]

Is(w, f, v) == w.field = f /\ w.value = v

\* Fields that read as what was written only once the hardware is done.
Delayed == {"RXDCTL.ENABLE", "TXDCTL.ENABLE"}

\* What the hardware does some time after a write.
Due(w) ==
  CASE Is(w, "CTRL.RST", 1) ->
         {Change("EEC.Auto_RD", 0, 1), Change("RDRXCTL.DMAIDONE", 0, 1)}
    [] Is(w, "CTRL.PCIe_Master_Disable", 1) ->
         {Change("STATUS.PCIe_Master_Enable_Status", 0, 0),
          Change("DEVICE_STATUS.Transaction_Pending", 0, 0)}
    [] Is(w, "SECRXCTRL.RX_DIS", 1) -> {Change("SECRXSTAT.SECRX_RDY", 0, 1)}
    [] w.field \in Delayed -> {w}
    [] OTHER -> {}

\* Where the card takes a ring to be: the low 7 bits of its address are zero.
RingBase(addr) == addr - (addr % 128)

Kept(w) == IF w.field \in {"TDBA", "RDBA"} THEN RingBase(w.value) ELSE w.value

Put(r, f, i, v) == [r EXCEPT ![f][i] = v]

\* What a write does to the registers at once.  Setting DMATXCTL.TE enables
\* transmit queue 0 as well.
Written(r, w) ==
  CASE Is(w, "CTRL.RST", 1) ->
         [f \in DOMAIN r |-> IF f \in DOMAIN DeviceReset THEN DeviceReset[f] ELSE r[f]]
    [] Is(w, "DMATXCTL.TE", 1) ->
         Put(Put(r, "DMATXCTL.TE", 0, 1), "TXDCTL.ENABLE", 0, 1)
    [] w.field \in Delayed -> r
    [] OTHER -> Put(r, w.field, w.index, Kept(w))

\* device_writer: an action must allow the write of a field that changes.
WriteTo(dev, w) ==
  [regs    |-> Written(dev.regs, w),
   due     |-> (IF Is(w, "CTRL.RST", 1) THEN {} ELSE dev.due) \cup Due(w),
   refused |-> IF \/ dev.regs[w.field][w.index] = w.value
                  \/ Allowed(dev.regs, w.field, w.index, w.value)
               THEN dev.refused ELSE dev.refused \cup {w.field}]

\* A sequence of writes.
WriteAll(dev, writes) ==
  LET after[k \in 0 .. Len(writes)] ==
        IF k = 0 THEN dev ELSE WriteTo(after[k - 1], writes[k])
  IN  after[Len(writes)]

\* The hardware completes a change.
Completed(dev, w) ==
  [regs    |-> Put(dev.regs, w.field, w.index, w.value),
   due     |-> dev.due \ {w},
   refused |-> dev.refused]

\* The writes of one value to some indices of a field, in their order.
Fill(f, first, last, v) ==
  [k \in 1 .. last - first + 1 |-> Change(f, first + k - 1, v)]

=============================================================================
