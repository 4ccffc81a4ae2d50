---------------------------- MODULE MCPacketLoops ----------------------------
(***************************************************************************)
(* The loop of the driver that a network function was built with: one of   *)
(* TinyNF's agents, or DPDK's.                                             *)
(***************************************************************************)
EXTENDS TinyNfAgent, DpdkLoop

VARIABLE driver         \* "tinynf" or "dpdk"

MCInit == Init /\ LoopInit /\ driver \in {"tinynf", "dpdk"}

TinyNf == driver = "tinynf"
Dpdk   == driver = "dpdk"

TinyNfStep == TinyNf /\ Next /\ UNCHANGED <<loop_vars, driver>>
DpdkStep   == Dpdk /\ LoopNext /\ UNCHANGED <<vars, driver>>

\* What FairSpec and FairLoopSpec ask for, of the driver that runs.
MCFairness ==
  /\ WF_vars(TinyNf /\ Driver)
  /\ \A o \in Outputs :
       WF_vars(TinyNf /\ NicTransmit(o)) /\ WF_vars(TinyNf /\ NicWriteBackHead(o))
  /\ WF_loop_vars(Dpdk /\ Loop)
  /\ \A m \in Mbufs : WF_loop_vars(Dpdk /\ NicDone(m))

MCSpec ==
  /\ MCInit /\ [][TinyNfStep \/ DpdkStep]_<<vars, loop_vars, driver>>
  /\ MCFairness

=============================================================================
