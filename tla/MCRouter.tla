------------------------------ MODULE MCRouter ------------------------------
(* Router on the topology of lab3.py, cut to two links: server1 on eth1,   *)
(* the client on eth3, the interface of the default route.                 *)
EXTENDS Router, TLC

Addresses == {"s1", "client", "far", "r1", "r3"}
Interfaces == <<[name |-> "eth1", mac |-> "m1", ip |-> "r1"],
                [name |-> "eth3", mac |-> "m3", ip |-> "r3"]>>
Macs == "s1" :> "ms" @@ "client" :> "mc"
Links == "s1" :> "eth1" @@ "client" :> "eth3"

NextHop(h) == IF Links[h] = "eth1" THEN "m1" ELSE "m3"

Datagram(h, dhost, dst, ttl, proto, ok) ==
    [kind |-> "ip", dhost |-> dhost, shost |-> Macs[h], src |-> h,
     dst |-> dst, ttl |-> ttl, proto |-> proto, ok |-> ok, body |-> "data"]
Arp(h, dhost, op, tip) ==
    [kind |-> "arp", dhost |-> dhost, shost |-> Macs[h], op |-> op,
     sip |-> h, sha |-> Macs[h], tip |-> tip]

Hosts == DOMAIN Macs

\* Datagrams to forward with every TTL of a set (the boundary is 1), those
\* for both addresses of the router, one that is broken, one for another
\* MAC; ARP requests for the right and the wrong interface, replies, another
\* opcode and another ethertype.  Only s1 sends to the unattached address.
FramesWith(ttls) ==
       {f \in {Datagram(h, NextHop(h), d, l, "udp", TRUE) :
                h \in Hosts, d \in {"s1", "client", "far"}, l \in ttls} :
          f.src # f.dst /\ (f.dst = "far" => f.src = "s1")}
  \cup {Datagram(h, NextHop(h), d, 2, p, TRUE) :
          h \in Hosts, d \in {"r1", "r3"}, p \in {"icmp", "udp"}}
  \cup {Datagram("s1", "m1", "r1", 2, "other", TRUE),
        Datagram("s1", "m1", "far", 2, "udp", FALSE),
        Datagram("s1", "mc", "far", 2, "udp", TRUE)}
  \cup {Arp(h, "ff", "request", t) : h \in Hosts, t \in {"r1", "r3"}}
  \cup {Arp(h, NextHop(h), "reply", "r1") : h \in Hosts}
  \cup {Arp("s1", "ff", "other", "r1"),
        [kind |-> "other", dhost |-> "ff", shost |-> "ms"]}
Frames == FramesWith({1, 2})

\* The table the repository ships: host routes and a default route.
ShippedTable == <<[dest |-> "any", covers |-> Addresses, iface |-> "eth3"],
                  [dest |-> "s1", covers |-> {"s1"}, iface |-> "eth1"]>>

ASSUME TableAssumption == HostRoutes

=============================================================================
