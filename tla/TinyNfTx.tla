------------------------------ MODULE TinyNfTx -------------------------------
(***************************************************************************)
(* The transmit functions of tx.h as TinyNF has them (tinynf/main.c).  A   *)
(* packet is in one buffer that all the outputs of its agent send, so what *)
(* a call decides is one header and a length for each output.              *)
(***************************************************************************)
EXTENDS Integers, Sequences

CONSTANT DevicesCount

ASSUME DevicesAssumption == DevicesCount \in Nat \ {0}

Devices      == 0 .. DevicesCount - 1
OutputsCount == DevicesCount - 1
Outputs      == 0 .. OutputsCount - 1

NONE               == FALSE
UPDATE_ETHER_ADDRS == TRUE

\* The packet that came from a device, and what becomes of it.
Received(device, header, length) ==
  [device |-> device, header |-> header, length |-> length,
   lengths |-> [o \in Outputs |-> 0]]

\* Mutated form of index_from_device: the input counts as an output.
index_from_device_NotSkipped(p, device) == device

index_from_device(p, device) == IF device > p.device THEN device - 1 ELSE device

device_from_index(p, index) == IF index < p.device THEN index ELSE index + 1

\* main: n >> 10, n >> 20 and so on; a device number has 16 bits, so that the
\* larger shifts leave nothing.
endpoint_mac(n) == << 0, (n \div 2 ^ 10) % 256, 0, 0, 0, 0 >>

\* The address that a card has in RAL and RAH.
device_mac(n) == <<"mac", n>>

handle_flags(p, device, flags) ==
  IF flags = UPDATE_ETHER_ADDRS
  THEN [p EXCEPT !.header.dst_addr = endpoint_mac(device),
                 !.header.src_addr = device_mac(device)]
  ELSE p

net_transmit(p, device, flags) ==
  [handle_flags(p, device, flags)
     EXCEPT !.lengths[index_from_device(p, device)] = p.length]

\* The loop over the outputs writes the addresses for each of them: those of
\* the last one stay.
net_flood_except(p, disabled_devices, flags) ==
  IF Outputs = {} THEN p
  ELSE [handle_flags(p, device_from_index(p, OutputsCount - 1), flags) EXCEPT
          !.lengths = [n \in Outputs |->
                         IF device_from_index(p, n) \in disabled_devices
                         THEN 0 ELSE p.length]]

net_flood(p, flags) == net_flood_except(p, {}, flags)

=============================================================================
