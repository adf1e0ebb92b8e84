----------------------------- MODULE MCPackets -----------------------------
(***************************************************************************)
(* The frames that Packets is checked on: every class in every place it    *)
(* can have, with each of the traits the code tells apart, and LLDP lists  *)
(* with each kind of TLV.                                                  *)
(***************************************************************************)
EXTENDS Packets

Layer(c, n, is) == [cls |-> c, octets |-> n, is |-> is, tlvs |-> <<>>]
Plain(c, n) == Layer(c, n, {})
Eth == Plain("ethernet", 14)
Tag == Plain("vlan", 4)
Ip == Plain("ipv4", 20)
Data(n) == Plain("data", n)
Padding(n) == Plain("padding", n)

\* What an IP packet can carry.
Transport ==
    {<<Plain("udp", 8), Data(5)>>, <<Layer("udp", 8, {"nocsum"}), Data(5)>>,
     <<Layer("udp", 8, {"len"}), Data(5)>>, <<Plain("udp", 8)>>,
     <<Plain("udp", 8), Plain("dhcp", 250)>>, <<Plain("udp", 8), Layer("dhcp", 250, {"overload"})>>,
     <<Plain("udp", 8), Plain("dns", 30)>>, <<Plain("udp", 8), Layer("dns", 30, {"circle"})>>,
     <<Plain("icmp", 4), Plain("echo", 4), Data(5)>>, <<Plain("icmp", 4), Data(5)>>,
     <<Plain("icmp", 4), Plain("unreach", 4), Ip, Plain("udp", 8), Data(5)>>,
     <<Plain("icmp", 4), Plain("unreach", 4), Ip, Data(8)>>,
     <<Data(6)>>, <<>>}
       \cup {<<Layer("tcp", n, is), Data(k)>> :
               n \in {24}, is \in {{}, {"eol"}, {"unknown"}, {"badopt"}}, k \in {1, 5}}
       \cup {<<Layer("tcp", 32, {"sack"})>>, <<Layer("tcp", 32, {"sack"}), Data(1)>>,
             <<Plain("tcp", 20)>>, <<Plain("tcp", 20), Data(1)>>}
IpFrames ==
    {<<ip>> \o t : ip \in {Ip, Plain("ipv4", 24)}, t \in Transport}
      \cup {<<Layer("ipv4", 20, {"version"}), Plain("udp", 8), Data(5)>>}

Tlv(t, n) == [type |-> t, len |-> n]
Lldp(ts, is) == <<[cls |-> "lldp", octets |-> Sum([j \in DOMAIN ts |-> 2 + ts[j].len]),
                   is |-> is, tlvs |-> ts]>>
Fixed == <<Tlv("chassis_id", 7), Tlv("port_id", 3), Tlv("ttl", 2)>>
LldpFrames ==
    {Lldp(Fixed \o <<t, Tlv("end", 0)>>, {}) :
        t \in {Tlv("name", 4), Tlv("mgmt", 12), Tlv("org", 6), Tlv("caps", 4), Tlv("other", 1)}}
      \cup {Lldp(Fixed \o <<Tlv("end", 0)>>, {}), Lldp(Fixed, {"wrong"}),
            Lldp(<<Tlv("port_id", 7)>> \o Fixed, {"wrong"})}

Bodies ==
    IpFrames \cup LldpFrames
      \cup {<<Plain("arp", 28)>>, <<Layer("arp", 28, {"hwlen"}), Data(3)>>,
            <<Plain("mpls", 4), Data(9)>>, <<Data(12)>>,
            <<Plain("eapol", 4), Layer("eap", 5, {"typed"}), Data(2)>>,
            <<Plain("eapol", 4), Plain("eap", 4)>>, <<Plain("eapol", 4), Data(3)>>,
            <<Tag, Data(4)>>}
MCFrames ==
    {<<Eth>> \o b : b \in Bodies} \cup {<<Eth, Tag>> \o b : b \in Bodies}
      \cup {<<Eth>> \o b \o <<Padding(6)>> : b \in Bodies}
      \cup {<<Eth, Layer("vlan", 4, {"cfi"}), Ip, Data(6)>>}

\* miss_send_len, and every place within the headers.
MCCuts == {1, 13} \cup 14..90 \cup {128, 291, 292}
=============================================================================
