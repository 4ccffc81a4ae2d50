----------------------------- MODULE DeviceSetup -----------------------------
(***************************************************************************)
(* How TinyNF brings its devices up: tn_device_init and                    *)
(* tn_device_set_promiscuous for each device, then tn_agent_init for each  *)
(* agent, as main calls them, against the registers of DataSheet, in       *)
(* memory that Memory allocates.  The writes between two reads that depend *)
(* on the hardware are one step.  TinyNfMain says what comes before and    *)
(* after.                                                                  *)
(***************************************************************************)
EXTENDS DataSheet, TinyNfTx, Memory

IXGBE_RING_SIZE          == 256
PACKET_BUFFER_SIZE       == 2048
TRANSMIT_HEAD_MULTIPLIER == 16

\* A size has 64 bits, and the number of a device 16.
ASSUME SizesAssumption ==
  DevicesCount * 64 <= SIZE_MAX /\ IXGBE_RING_SIZE * PACKET_BUFFER_SIZE <= SIZE_MAX

Null == <<>>

VARIABLES
  at,                   \* what the driver does next
  n,                    \* loop variable of main: a device, then an agent
  m,                    \* loop variable of what main calls
  heap,                 \* the allocator
  dev,                  \* the devices: registers, hardware, refused writes
  tx_enabled, rx_enabled,
  buffer, transmit_heads, rings, transmit_tail_addrs, receive_tail_addr,    \* of the agents
  cause                 \* what made fatal be called: hardware or software

agents    == <<buffer, transmit_heads, rings, transmit_tail_addrs, receive_tail_addr>>
flags     == <<tx_enabled, rx_enabled>>
setupVars == <<at, n, m, heap, dev, flags, agents, cause>>

\* What there is before any device is set up.
InitDevices ==
  /\ n = 0 /\ m = 0
  /\ dev = [d \in Devices |-> [regs |-> PowerOn, due |-> {}, refused |-> {}]]
  /\ tx_enabled = [d \in Devices |-> FALSE]
  /\ rx_enabled = [d \in Devices |-> FALSE]
  /\ buffer = [a \in Devices |-> 0]
  /\ transmit_heads = [a \in Devices |-> 0]
  /\ rings = [a \in Devices |-> [o \in Outputs |-> 0]]
  /\ transmit_tail_addrs = [a \in Devices |-> [o \in Outputs |-> Null]]
  /\ receive_tail_addr = [a \in Devices |-> Null]
  /\ cause = "none"

Field(d, f, i) == dev[d].regs[f][i]

\* The driver does the writes to device d and goes on.
Do(d, writes, next) ==
  /\ dev' = [dev EXCEPT ![d] = WriteAll(@, writes)]
  /\ at' = next

Goto(next) == at' = next /\ UNCHANGED dev

\* The allocations were made, or the program halted on the way.
Allocated(h, next) ==
  /\ heap' = h
  /\ at' = IF h.halted THEN "halt" ELSE next

Fatal(why) ==
  /\ at' = "fatal" /\ cause' = why
  /\ UNCHANGED <<n, m, heap, dev, flags, agents>>

\* A field did not get its value in time.
TimesOut(label, d, f, i, v) ==
  at = label /\ Field(d, f, i) # v /\ Fatal("hardware")

-----------------------------------------------------------------------------
(* tn_device_init                                                          *)

\* A device as a previous driver left it.
LeftBehind(e, receives, rxen, pending) ==
  LET enabled == [e.regs EXCEPT !["RXDCTL.ENABLE"] = receives]
  IN  [regs    |-> Put(Put(enabled, "RXCTRL.RXEN", 0, rxen),
                       "DEVICE_STATUS.Transaction_Pending", 0, pending),
       due     |-> e.due,
       refused |-> e.refused]

\* The device is an 82599 that is powered on.  What a previous driver left
\* behind is chosen here, where it is first read.
PciSetup ==
  /\ at = "pci"
  /\ \E receives \in [0 .. ReceiveQueuesCount - 1 -> {0, 1}], rxen, pending \in {0, 1} :
       dev' = [dev EXCEPT ![n] =
                 WriteAll(LeftBehind(@, receives, rxen, pending),
                          << Change("COMMAND.BME", 0, 1),
                             Change("COMMAND.Mem_Access_En", 0, 1),
                             Change("COMMAND.Interrupt_Dis", 0, 1) >>)]
  /\ at' = "disable_receive" /\ m' = 0
  /\ UNCHANGED <<n, heap, flags, agents, cause>>

WrongDevice == at = "pci" /\ Fatal("hardware")

DisableReceive ==
  /\ at = "disable_receive"
  /\ Do(n, << Change("RXDCTL.ENABLE", m, 0) >>, "await_receive_disabled")
  /\ UNCHANGED <<n, m, heap, flags, agents, cause>>

\* Mutated form of QueueIsOff: the driver does not wait.
QueueIsOff_NotRead == TRUE

QueueIsOff == Field(n, "RXDCTL.ENABLE", m) = 0

ReceiveDisabled ==
  /\ at = "await_receive_disabled"
  /\ QueueIsOff
  /\ m' = (m + 1) % ReceiveQueuesCount
  /\ Goto(IF m' = 0 THEN "master_disable" ELSE "disable_receive")
  /\ UNCHANGED <<n, heap, flags, agents, cause>>

MasterDisable ==
  /\ at = "master_disable"
  /\ Do(n, << Change("CTRL.PCIe_Master_Disable", 0, 1) >>, "await_master")
  /\ UNCHANGED <<n, m, heap, flags, agents, cause>>

MasterDisabled ==
  /\ at = "await_master"
  /\ Field(n, "STATUS.PCIe_Master_Enable_Status", 0) = 0
  /\ Goto("reset")
  /\ UNCHANGED <<n, m, heap, flags, agents, cause>>

\* The driver waited for long enough: it looks at another register.
MasterTimesOut ==
  /\ at = "await_master"
  /\ Field(n, "STATUS.PCIe_Master_Enable_Status", 0) = 1
  /\ Goto("check_pending")
  /\ UNCHANGED <<n, m, heap, flags, agents, cause>>

NothingPending ==
  /\ at = "check_pending"
  /\ Field(n, "DEVICE_STATUS.Transaction_Pending", 0) = 0
  /\ Goto("flush")
  /\ UNCHANGED <<n, m, heap, flags, agents, cause>>

Flush ==
  /\ at = "flush"
  /\ Do(n, << Change("HLREG0.LPBK", 0, 1), Change("RXCTRL.RXEN", 0, 0),
              Change("GRC_EXT.Buffers_Clear_Func", 0, 1),
              Change("HLREG0.LPBK", 0, 0),
              Change("GRC_EXT.Buffers_Clear_Func", 0, 0),
              Change("CTRL.RST", 0, 1) >>, "reset")
  /\ UNCHANGED <<n, m, heap, flags, agents, cause>>

\* Of the receive buffer, in units of 32 bytes.
Threshold == (512 * 1024 - 24576) \div 32

\* Until the EEPROM is read.
Reset ==
  /\ at = "reset"
  /\ Do(n, << Change("CTRL.RST", 0, 1) >>
           \o Fill("EIMC.Interrupt_Mask", 0, TableSize - 1, AllBits)
           \o << Change("FCRTH.RTH", 0, Threshold) >>,
        "await_eeprom")
  /\ UNCHANGED <<n, m, heap, flags, agents, cause>>

EepromRead ==
  /\ at = "await_eeprom"
  /\ Field(n, "EEC.Auto_RD", 0) = 1
  /\ Goto("await_dma")
  /\ UNCHANGED <<n, m, heap, flags, agents, cause>>

\* The EEPROM is not there, or not valid.
WrongEeprom ==
  at = "await_eeprom" /\ Field(n, "EEC.Auto_RD", 0) = 1 /\ Fatal("hardware")

ReceiveInit ==
  Fill("PFUTA.Bit_Vector", 0, TableSize - 1, 0)
  \o Fill("PFVLVF.VI_En", 0, TableSize - 1, 0)
  \o Fill("PFVLVF.VLAN_Id", 0, TableSize - 1, 0)
  \o << Change("MPSAR.POOL_ENA", 0, 1) >>
  \o Fill("MPSAR.POOL_ENA", 1, TableSize - 1, 0)
  \o Fill("PFVLVFB.POOL_ENA", 0, TableSize - 1, 0)
  \o Fill("MTA.Bit_Vector", 0, TableSize - 1, 0)
  \o Fill("FTQF.Queue_Enable", 0, TableSize - 1, 0)
  \o << Change("RDRXCTL.CRCStrip", 0, 1), Change("RDRXCTL.RSCFRSTSIZE", 0, 0),
        Change("RDRXCTL.RSCACKC", 0, 1), Change("RDRXCTL.FCOE_WRFIX", 0, 1) >>
  \o Fill("RXPBSIZE.SIZE", 1, TableSize - 1, 0)
  \o << Change("MFLCN.RFCE", 0, 1), Change("FCCFG.TFCE", 0, 1) >>
  \o FlattenSeq([k \in 1 .. TransmitQueuesCount |->
       << Change("RTTDQSEL.TXDQ_IDX", 0, k - 1), Change("RTTDT1C.CRQ", 0, 0) >>])

TransmitInit ==
  << Change("RTTDCS.ARBDIS", 0, 1) >>
  \o Fill("TXPBSIZE.SIZE", 1, TableSize - 1, 0)
  \o << Change("TXPBTHRESH.THRESH", 0, 160 - PACKET_BUFFER_SIZE \div 1024),
        Change("DTXMXSZRQ.Max_bytes_num_req", 0, 4095),
        Change("RTTDCS.ARBDIS", 0, 0) >>

Configure ==
  /\ at = "await_dma"
  /\ Field(n, "RDRXCTL.DMAIDONE", 0) = 1
  /\ Do(n, ReceiveInit \o TransmitInit, "promiscuous")
  /\ UNCHANGED <<n, m, heap, flags, agents, cause>>

\* tn_device_set_promiscuous stops reception around the change of filters.
PromiscuousWrites(was_rx_enabled) ==
  LET filters == << Change("FCTRL.UPE", 0, 1), Change("FCTRL.MPE", 0, 1) >>
  IN  IF was_rx_enabled
      THEN << Change("RXCTRL.RXEN", 0, 0) >> \o filters
           \o << Change("RXCTRL.RXEN", 0, 1) >>
      ELSE filters

\* After the last device, main allocates the agents.
SetPromiscuous ==
  /\ at = "promiscuous"
  /\ n' = (n + 1) % DevicesCount
  /\ dev' = [dev EXCEPT ![n] =
                WriteAll(@, PromiscuousWrites(Field(n, "RXCTRL.RXEN", 0) = 1))]
  /\ IF n' = 0 THEN Allocated(agents_alloc(heap, DevicesCount), "agent")
               ELSE at' = "pci" /\ UNCHANGED heap
  /\ m' = 0
  /\ UNCHANGED <<flags, agents, cause>>

-----------------------------------------------------------------------------
(* tn_agent_init of agent n, whose input is device n                       *)

\* What an agent allocates before its outputs: buffer, lengths, heads, and
\* the pointers to its rings and tails.
AgentRequests(outputs_count) ==
  << <<IXGBE_RING_SIZE, PACKET_BUFFER_SIZE>>, <<outputs_count, 8>>,
     <<outputs_count, TRANSMIT_HEAD_MULTIPLIER * 4>>,
     <<outputs_count, 8>>, <<outputs_count, 8>> >>

Agent ==
  /\ at = "agent"
  /\ IF OutputsCount = 0 THEN Fatal("software")
     ELSE LET h == AllocAll(heap, AgentRequests(OutputsCount))
              k == Len(heap.blocks)
          IN  /\ Allocated(h, "output")
              /\ buffer' = IF h.halted THEN buffer
                           ELSE [buffer EXCEPT ![n] = h.blocks[k + 1].addr]
              /\ transmit_heads' = IF h.halted THEN transmit_heads
                                   ELSE [transmit_heads EXCEPT ![n] = h.blocks[k + 3].addr]
              /\ m' = 0
              /\ UNCHANGED <<n, dev, flags, rings, transmit_tail_addrs,
                             receive_tail_addr, cause>>

\* The output of an agent that is device d.
TrueIndex(a, d) == IF d > a THEN d - 1 ELSE d

\* Mutated form of QueueIndex: agents share queues.
QueueIndex_Shared(a, d) == TrueIndex(a, d)

\* The transmit queue of device d that agent a gets.
QueueIndex(a, d) == a * OutputsCount + TrueIndex(a, d)

\* The loop of tn_agent_init goes past the input, which is not an output.
SkipInput ==
  /\ at = "output" /\ m = n
  /\ m' = m + 1
  /\ Goto(IF m' = DevicesCount THEN "input" ELSE "output")
  /\ UNCHANGED <<n, heap, flags, agents, cause>>

HeadAddr(a, o) == os_memory_virt_to_phys(transmit_heads[a] + o * TRANSMIT_HEAD_MULTIPLIER * 4)

\* The checks of tn_agent_add_output.
OutputIsFree(a, d) ==
  /\ transmit_tail_addrs[a][TrueIndex(a, d)] = Null
  /\ QueueIndex(a, d) < TransmitQueuesCount
  /\ Field(d, "TXDCTL.ENABLE", QueueIndex(a, d)) = 0
  /\ HeadAddr(a, TrueIndex(a, d)) % 16 = 0

\* Mutated form of OutputWrites: all outputs report to the first head.
OutputWrites_FirstHead(a, d, ring) ==
  LET q == QueueIndex(a, d)
  IN  << Change("TDBA", q, ring), Change("TDLEN.LEN", q, IXGBE_RING_SIZE * 16),
         Change("TDWBA", q, HeadAddr(a, 0)), Change("TDWBAL.Head_WB_En", q, 1),
         Change("DMATXCTL.TE", 0, 1), Change("TXDCTL.ENABLE", q, 1) >>

OutputWrites(a, d, ring) ==
  LET q == QueueIndex(a, d)
  IN  << Change("TDBA", q, ring),
         Change("TDLEN.LEN", q, IXGBE_RING_SIZE * 16),
         Change("TXDCTL.PTHRESH", q, 60), Change("TXDCTL.HTHRESH", q, 4),
         Change("TDWBA", q, HeadAddr(a, TrueIndex(a, d))),
         Change("TDWBAL.Head_WB_En", q, 1),
         Change("DCA_TXCTRL.TXdescWBROen", q, 0) >>
      \o (IF tx_enabled[d] THEN <<>> ELSE << Change("DMATXCTL.TE", 0, 1) >>)
      \o << Change("TXDCTL.ENABLE", q, 1) >>

\* tn_agent_add_output, until it waits for the queue.  Descriptor k of the
\* ring has the address of buffer k; the ring remembers that of buffer 0.
AddOutput ==
  /\ at = "output" /\ m # n
  /\ LET h    == descriptor_ring_alloc(heap, IXGBE_RING_SIZE)
         ring == os_memory_virt_to_phys(Result(h))
     IN  IF ~ OutputIsFree(n, m) THEN Fatal("software")
         ELSE IF h.halted
         THEN Allocated(h, "halt") /\ UNCHANGED <<n, m, dev, flags, agents, cause>>
         ELSE /\ heap' = h
              /\ Do(m, OutputWrites(n, m, ring), "await_output")
              /\ rings' = [rings EXCEPT ![n][TrueIndex(n, m)] =
                             [addr |-> ring, buffer |-> os_memory_virt_to_phys(buffer[n])]]
              /\ tx_enabled' = [tx_enabled EXCEPT ![m] = TRUE]
              /\ UNCHANGED <<n, m, rx_enabled, buffer, transmit_heads,
                             transmit_tail_addrs, receive_tail_addr, cause>>

OutputEnabled ==
  /\ at = "await_output"
  /\ Field(m, "TXDCTL.ENABLE", QueueIndex(n, m)) = 1
  /\ transmit_tail_addrs' =
       [transmit_tail_addrs EXCEPT ![n][TrueIndex(n, m)] = <<m, QueueIndex(n, m)>>]
  /\ m' = m + 1
  /\ Goto(IF m' = DevicesCount THEN "input" ELSE "output")
  /\ UNCHANGED <<n, heap, flags, buffer, transmit_heads, rings, receive_tail_addr, cause>>

\* The checks of tn_agent_set_input.
InputIsFree(a) ==
  /\ receive_tail_addr[a] = Null
  /\ transmit_tail_addrs[a][0] # Null
  /\ Field(a, "RXDCTL.ENABLE", 0) = 0

\* tn_agent_set_input, until it waits for the queue.
SetInput ==
  /\ at = "input"
  /\ IF InputIsFree(n)
     THEN /\ Do(n, << Change("RDBA", 0, rings[n][0].addr),
                      Change("RDLEN.LEN", 0, IXGBE_RING_SIZE * 16),
                      Change("SRRCTL.BSIZEPACKET", 0, PACKET_BUFFER_SIZE \div 1024),
                      Change("SRRCTL.Drop_En", 0, 1),
                      Change("RXDCTL.ENABLE", 0, 1) >>, "await_input")
          /\ UNCHANGED <<n, m, heap, flags, agents, cause>>
     ELSE Fatal("software")

\* The tail is written, and a device that does not receive yet is halted.
InputEnabled ==
  /\ at = "await_input"
  /\ Field(n, "RXDCTL.ENABLE", 0) = 1
  /\ Do(n, << Change("RDT.RDT", 0, IXGBE_RING_SIZE - 1) >>
           \o (IF rx_enabled[n] THEN <<>> ELSE << Change("SECRXCTRL.RX_DIS", 0, 1) >>),
        IF rx_enabled[n] THEN "finish_input" ELSE "await_empty")
  /\ UNCHANGED <<n, m, heap, flags, agents, cause>>

\* Mutated form of IsEmpty: the driver does not wait for the hardware.
IsEmpty_NotRead == TRUE

IsEmpty == Field(n, "SECRXSTAT.SECRX_RDY", 0) = 1

DataPathEmpty ==
  /\ at = "await_empty"
  /\ IsEmpty
  /\ Do(n, << Change("RXCTRL.RXEN", 0, 1), Change("SECRXCTRL.RX_DIS", 0, 0),
              Change("CTRL_EXT.NS_DIS", 0, 1) >>, "finish_input")
  /\ rx_enabled' = [rx_enabled EXCEPT ![n] = TRUE]
  /\ UNCHANGED <<n, m, heap, tx_enabled, agents, cause>>

FinishInput ==
  /\ at = "finish_input"
  /\ receive_tail_addr' = [receive_tail_addr EXCEPT ![n] = <<n, 0>>]
  /\ n' = (n + 1) % DevicesCount /\ m' = 0
  /\ Do(n, << Change("DCA_RXCTRL.Special_Reserved", 0, 0) >>,
        IF n' = 0 THEN "run" ELSE "agent")
  /\ UNCHANGED <<heap, flags, buffer, transmit_heads, rings, transmit_tail_addrs, cause>>

\* Any wait of the driver whose end is fatal.
GivesUp ==
  \/ TimesOut("await_receive_disabled", n, "RXDCTL.ENABLE", m, 0)
  \/ TimesOut("check_pending", n, "DEVICE_STATUS.Transaction_Pending", 0, 0)
  \/ TimesOut("await_eeprom", n, "EEC.Auto_RD", 0, 1)
  \/ TimesOut("await_dma", n, "RDRXCTL.DMAIDONE", 0, 1)
  \/ TimesOut("await_output", m, "TXDCTL.ENABLE", QueueIndex(n, m), 1)
  \/ TimesOut("await_input", n, "RXDCTL.ENABLE", 0, 1)
  \/ TimesOut("await_empty", n, "SECRXSTAT.SECRX_RDY", 0, 1)

\* The hardware does what it was asked for.
HardwareCompletes(d) ==
  /\ \E w \in dev[d].due : dev' = [dev EXCEPT ![d] = Completed(@, w)]
  /\ UNCHANGED <<at, n, m, heap, flags, agents, cause>>

SetupNext ==
  \/ PciSetup \/ WrongDevice \/ DisableReceive \/ ReceiveDisabled
  \/ MasterDisable \/ MasterDisabled \/ MasterTimesOut \/ NothingPending \/ Flush
  \/ Reset \/ EepromRead \/ WrongEeprom \/ Configure \/ SetPromiscuous
  \/ Agent \/ SkipInput \/ AddOutput \/ OutputEnabled
  \/ SetInput \/ InputEnabled \/ DataPathEmpty \/ FinishInput
  \/ GivesUp
  \/ \E d \in Devices : HardwareCompletes(d)

-----------------------------------------------------------------------------

\* The tables of DataSheet have no other entries than those the driver names,
\* and the driver is at one of its steps.
TypeOK ==
  /\ n \in Devices /\ m \in 0 .. DevicesCount + ReceiveQueuesCount
  /\ at \in {"os_init", "nf_init", "allocate", "exit", "halt",
             "pci", "disable_receive", "await_receive_disabled", "master_disable",
             "await_master", "check_pending", "flush", "reset", "await_eeprom",
             "await_dma", "promiscuous", "agent", "output", "await_output", "input",
             "await_input", "await_empty", "finish_input", "run", "fatal", "undefined"}
  /\ cause \in {"none", "hardware", "software"}
  /\ \A d \in Devices :
       /\ DOMAIN dev[d].regs = Fields
       /\ \A f \in Fields : DOMAIN dev[d].regs[f] = DOMAIN PowerOn[f]

\* Every write of the driver is one of the actions klint allows, whatever the
\* hardware does meanwhile.  The one exception is a flush whose cause went
\* away while the driver was giving up on it: the action that sets HLREG0.LPBK
\* asks for the status bit that line 558 of ixgbe.c was waiting for to be set.
WritesAreAllowed ==
  [][\A d \in Devices :
       \/ dev'[d].refused = dev[d].refused
       \/ /\ Flush /\ d = n
          /\ Field(d, "STATUS.PCIe_Master_Enable_Status", 0) = 0
          /\ dev'[d].refused = dev[d].refused \cup {"HLREG0.LPBK"}]_setupVars

\* The calls to fatal that guard the use of queues are never reached: agents
\* do not get each other's queues, nor the queue 0 that DMATXCTL.TE enables,
\* heads are aligned, and all accesses are to registers that exist.
DriverNeverFailsItself == TypeOK /\ cause # "software"

\* Queue q of device d sends from ring o of agent a, and reports to its heads.
Sends(d, q, a, o) ==
  /\ Field(d, "TXDCTL.ENABLE", q) = 1 /\ Field(d, "DMATXCTL.TE", 0) = 1
  /\ Field(d, "TDBA", q) = RingBase(rings[a][o].addr)
  /\ Field(d, "TDWBA", q) = HeadAddr(a, o) /\ Field(d, "TDWBAL.Head_WB_En", q) = 1

\* Once the driver runs, the lengths and tails that net_transmit and tn_run
\* use for a device are those of a queue of that device, which no other agent
\* has and which sends from the ring that the agent fills; the rings of an
\* agent share its buffers; and its input receives into the first of them.
\* A card takes a ring to be where RingBase says; RingsAreAligned is about
\* whether that is where the ring is.
WiringIsRight ==
  at = "run" =>
    /\ \A a, d \in Devices : a # d =>
         LET o    == TrueIndex(a, d)
             tail == transmit_tail_addrs[a][o]
         IN  tail[1] = d /\ Sends(d, tail[2], a, o)
    /\ \A a, b \in Devices, o, p \in Outputs :
         <<a, o>> # <<b, p>> => /\ transmit_tail_addrs[a][o] # transmit_tail_addrs[b][p]
                                /\ rings[a][o].addr # rings[b][p].addr
                                /\ (rings[a][o].buffer = rings[b][p].buffer) <=> (a = b)
    /\ \A a \in Devices : /\ receive_tail_addr[a] = <<a, 0>>
                          /\ Field(a, "RDBA", 0) = RingBase(rings[a][0].addr)
                          /\ Field(a, "RXCTRL.RXEN", 0) = 1

\* All that is ever allocated keeps to the contract of memory.h.
AllocationsKeepTheirContract == KeepsContract(heap)

\* "This alignment is guaranteed by the agent initialization", say lines 991
\* and 1078 of ixgbe.c, where a card is given a ring.  With an even number of
\* devices, what an agent allocates before its rings ends between two
\* boundaries of 128 bytes: heads are on one of 128, rings only on one of 64.
RingsAreAligned ==
  at = "run" => \A a \in Devices, o \in Outputs : rings[a][o].addr % 128 = 0

\* A device that main has set up so far.
IsSetUp(d) ==
  \/ at \in {"agent", "output", "await_output", "input", "await_input", "await_empty",
             "finish_input", "run"}
  \/ d < n /\ at # "fatal"

\* "This should be done only after all other settings are done": a device
\* that receives again has a queue with descriptors, was seen empty, and its
\* filters let all packets through.
ReceiveEnabledLast ==
  \A d \in Devices :
    IsSetUp(d) /\ Field(d, "RXCTRL.RXEN", 0) = 1 =>
      /\ Field(d, "RXDCTL.ENABLE", 0) = 1 /\ Field(d, "RDBA", 0) # X
      /\ Field(d, "RDT.RDT", 0) = IXGBE_RING_SIZE - 1
      /\ Field(d, "FCTRL.UPE", 0) = 1 /\ Field(d, "FCTRL.MPE", 0) = 1
      /\ Field(d, "SECRXSTAT.SECRX_RDY", 0) = 1

=============================================================================
