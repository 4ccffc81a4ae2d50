---------------------------- MODULE MCTinyNfMain -----------------------------
(***************************************************************************)
(* Configurations and packets for TinyNfMain, at the edges of its checks.  *)
(***************************************************************************)
EXTENDS TinyNfMain

Seq2(values) == [i \in 1 .. Len(values) |-> Item(values[i][1], values[i][2])]

NopItems(wan, lan)   == Seq2(<< <<"wan device", wan>>, <<"lan device", lan>> >>)
BridgeItems(cap)     == Seq2(<< <<"bid", 1>>, <<"expiration time", 9>>, <<"capacity", cap>>,
                                <<"stp update time", 2>> >>)
MaglevItems(cap, h)  == Seq2(<< <<"flow capacity", cap>>, <<"cht height", h>>,
                                <<"backend expiration time", 9>>, <<"flow expiration time", 9>> >>)
DhcpItems(cap, server, mask, gateway, dns) ==
  Seq2(<< <<"max number dhcp connections", cap>>, <<"server ether address", 5>>,
          <<"DHCP ipv4 address", server>>, <<"DHCP ipv4 mask", mask>>,
          <<"gateway ipv4 address", gateway>>, <<"domain name server ip", dns>>,
          <<"expiration time", 6>> >>)

\* The names of src/nf/dhcp_ipv4/config and src/nf/router/config.
ShippedDhcp ==
  Seq2(<< <<"max number dhcp connections", 2>>, <<"server ether address", 5>>,
          <<"DCHP ipv4 address", 6>>, <<"DHCP ipv4 mask", 0>>,
          <<"gateway ipv4 address", 1>>, <<"domain name server ip", 2>>,
          <<"exipration time", 6>> >>)
ShippedRouter == Seq2(<< <<"empty", 0>> >>)

MCConfigs ==
  { <<"nop", NopItems(0, 2)>>, <<"nop", NopItems(1, 1)>>, <<"nop", NopItems(0, 3)>>,
    <<"router", Seq2(<< <<"capacity", 2>> >>)>>, <<"router", ShippedRouter>>,
    <<"dhcp", DhcpItems(2, 6, 0, 1, 2)>>, <<"dhcp", ShippedDhcp>>,
    <<"bridge", BridgeItems(4)>>, <<"maglev", MaglevItems(MaxSize, 3)>> }

Good(dst) ==
  [dst_addr |-> "station", src_addr |-> "sender", ether_type |-> "ipv4", version |-> 4,
   ihl |-> 5, total_length |-> <<0, 60>>, time_to_live |-> 1, checksum |-> "right", dst |-> dst]

MCHeaders ==
  { Good(dst) : dst \in Keys }
  \cup { [Good(0) EXCEPT !.total_length = l] : l \in {<<0, 19>>, <<1, 0>>, <<0, 0>>} }
  \cup { [Good(0) EXCEPT !.ether_type = "other"], [Good(0) EXCEPT !.version = 6],
         [Good(0) EXCEPT !.ihl = 4], [Good(0) EXCEPT !.time_to_live = 0],
         [Good(0) EXCEPT !.checksum = "wrong"] }

\* Edges of a size.
Sizes == {0, 1, 3, MaxSize, MaxSize + 1, SIZE_MAX}

MCCandidates ==
  { <<"nop", NopItems(w, l)>> : w \in 0 .. 3, l \in 0 .. 3 }
  \cup { <<"nop", NopItems(0, l) \o NopItems(2, 1)>> : l \in 0 .. 2 }
  \cup { <<"bridge", BridgeItems(s)>> : s \in Sizes }
  \cup { <<"maglev", MaglevItems(s, h)>> : s \in Sizes, h \in 0 .. UINT16_MAX + 1 }
  \cup { <<"policer", Seq2(<< <<"wan device", 0>>, <<"rate", r>>, <<"burst", r>>,
                              <<"max flows", s>> >>)>> : r \in {0, 1}, s \in Sizes }
  \cup { <<"firewall", Seq2(<< <<"external device", d>>, <<"expiration time", 9>>,
                               <<"max flows", s>> >>)>> : d \in 0 .. 2, s \in Sizes }
  \cup { <<"nat", Seq2(<< <<"external addr", 1>>, <<"wan device", 0>>, <<"max flows", s>>,
                          <<"expiration time", 9>>, <<"start port", p>> >>)>> :
           s \in Sizes, p \in {0, UINT16_MAX, UINT16_MAX + 1} }
  \cup { <<"dhcp", DhcpItems(cap, server, mask, gateway, dns)>> :
           cap \in {0, 1, 5}, mask \in {0, 4, 6, 7},
           server \in {1, 4, 7}, gateway \in 0 .. 7, dns \in {0, 2, 5} }

=============================================================================
