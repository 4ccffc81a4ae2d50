------------------------------- MODULE MCFlows -------------------------------
(***************************************************************************)
(* The firewall or the address translator, whichever is started, with      *)
(* every flow between a few hosts and servers.                             *)
(***************************************************************************)
EXTENDS Firewall, AddressTranslation, TLC

CONSTANTS h1, h2, s1, s2

VARIABLE started        \* "firewall" or "nat"

MCFlowSet   == [src : Hosts, dst : Servers]
MCHostWords == h1 :> <<7, 6, 7>> @@ h2 :> <<3, 0, 5>>
MCExternal  == <<0, 1>>
MCServerLow == s1 :> 2 @@ s2 :> 5

MCInit == Init /\ FirewallInit /\ started \in {"firewall", "nat"}

FirewallPacket ==
  started = "firewall" /\ FirewallNext /\ UNCHANGED <<vars, started>>
NatPacket == started = "nat" /\ Next /\ UNCHANGED <<firewall_vars, started>>

MCSpec ==
  MCInit /\ [][FirewallPacket \/ NatPacket]_<<vars, firewall_vars, started>>

=============================================================================
