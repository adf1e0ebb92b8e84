---------------------------- MODULE RouterProofs ----------------------------
(***************************************************************************)
(* Proofs about Router: what sr_router.c keeps in the cache and the        *)
(* request list (FramesReady, DeliveredToOwner) and what every frame it    *)
(* hands to sr_send_packet looks like (ErrorsReachSender and the others).  *)
(*                                                                         *)
(* The state is governed by Kept, an invariant of known, waiting, tries    *)
(* and loop; an output is judged in the step that makes it, by Good, from  *)
(* Kept in the state before.                                               *)
(*                                                                         *)
(* The last part is about IpHeader, the checksums that sr_router.c writes  *)
(* and verifies, for every header and every number of hops: cksum is       *)
(* congruent to the negated sum modulo 0xffff and never 0, so that a       *)
(* header carries its own cksum exactly when it verifies, 0 for 0xffff     *)
(* apart.                                                                  *)
(***************************************************************************)
EXTENDS Router, IpHeader, FiniteSetTheorems, WellFoundedInduction, TLAPS

Kept == TypeOK /\ QueuedReady /\ CachedIsOwner

Queueable == [frame : IpFrame, iface : Names]

\* What one output o of the step that handled f is like: sr_send_packet
\* refuses replies only, an error goes back to the sender of f, a datagram
\* goes to the owner of its destination and a forwarded one through the
\* interface of its route.
Good(o, f) ==
    /\ o.iface \in Names /\ o.accepted \in BOOLEAN
    /\ \/ o.accepted
       \/ o.frame.kind = "arp" /\ o.frame = f
       \/ o.frame.kind = "ip" /\ o.frame.body = "echo_reply"
    /\ o.frame.kind = "ip"
          /\ o.frame.body \in {"time_exceeded", "port_unreachable"} =>
          /\ o.accepted /\ o.iface = InboundIf(f)
          /\ o.frame.dhost = f.shost /\ o.frame.dst = f.src
          /\ o.frame.src = Iface(InboundIf(f)).ip
    /\ o.frame.kind = "ip" /\ o.accepted /\ o.frame.dhost \notin RouterMacs =>
          /\ o.frame.dst \in HostIps
          /\ o.frame.dhost = HostMac[o.frame.dst]
    /\ o.frame.kind = "ip" /\ o.frame.body = "data" =>
          o.frame.dst \in IP /\ o.iface = CheckRoute(o.frame.dst)

AllGood(s, f) == \A k \in DOMAIN s : Good(s[k], f)
OutputsGood == AllGood(out, in)

-----------------------------------------------------------------------------
(* Interfaces, routes and frames.                                          *)

\* sr_get_interface finds the interface that has the name.
LEMMA IfaceFound ==
    ASSUME NEW name \in Names
    PROVE  /\ Iface(name).name = name
           /\ Iface(name).mac \in RouterMacs
           /\ Iface(name).ip \in RouterIps
           /\ Iface(name).mac \in EtherAddr
           /\ Iface(name).ip \in IP
<1>1. \E i \in DOMAIN IfList : IfList[i].name = name
  BY DEF Names
<1>. DEFINE i == CHOOSE i \in DOMAIN IfList : IfList[i].name = name
<1>2. i \in DOMAIN IfList /\ IfList[i].name = name
  BY <1>1, Zenon
<1>3. Iface(name) = IfList[i]
  BY DEF Iface
<1>. QED
  BY <1>2, <1>3, AddressAssumption DEF RouterMacs, RouterIps, EtherAddr

\* A nonempty set of indices of the routing table has a first one.
LEMMA FirstFound ==
    ASSUME NEW S, S \subseteq DOMAIN RT, S # {}
    PROVE  First(S) \in S
<1>1. S \subseteq Nat
  BY RtAssumption
<1>2. PICK x \in S : \A y \in S : ~ (<<y, x>> \in OpToRel(<, Nat))
  BY <1>1, NatLessThanWellFounded, WFMin, Zenon
<1>3. \A y \in S : ~ (y < x)
  BY <1>1, <1>2 DEF OpToRel
<1>4. \A y \in S : x <= y
  BY <1>1, <1>3
<1>. QED
  BY <1>4 DEF First

\* check_route always names an interface.
LEMMA RouteFound ==
    ASSUME NEW a
    PROVE  CheckRoute(a) \in Names
<1>1. CASE Exact(a) # {}
  <2>1. First(Exact(a)) \in Exact(a)
    BY <1>1, FirstFound DEF Exact
  <2>. QED
    BY <1>1, <2>1, RtAssumption DEF CheckRoute, Exact
<1>2. CASE Exact(a) = {}
  BY <1>2, IfAssumption DEF CheckRoute
<1>. QED
  BY <1>1, <1>2

\* The owner of a frame's source MAC, and the interface the frame comes in by.
LEMMA SenderFound ==
    ASSUME NEW f \in Frame
    PROVE  /\ InboundIf(f) \in Names
           /\ \E h \in HostIps : /\ f.shost = HostMac[h]
                                 /\ f.kind = "ip" => f.src = h
                                 /\ f.kind = "arp" => f.sip = h /\ f.sha = f.shost
<1>1. PICK h \in HostIps : /\ f.shost = HostMac[h]
                           /\ f.kind = "ip" => f.src = h
                           /\ f.kind = "arp" => f.sip = h /\ f.sha = f.shost
  BY FrameAssumption
<1>2. (CHOOSE g \in HostIps : HostMac[g] = f.shost) \in HostIps
  BY <1>1, Zenon
<1>. QED
  BY <1>1, <1>2, AddressAssumption DEF InboundIf

LEMMA FrameKinds ==
    ASSUME NEW f \in Frame
    PROVE  /\ f.kind = "ip" => f \in IpFrame
           /\ f.kind = "arp" => f \in ArpFrame
<1>. QED
  BY FrameAssumption DEF IpFrame, ArpFrame, OtherFrame

\* What send_icmp_error leaves of a datagram is a datagram, from the same MAC.
LEMMA RewrittenType ==
    ASSUME NEW g \in IpFrame, NEW name \in Names
    PROVE  /\ Rewritten(g, name) \in IpFrame
           /\ Rewritten(g, name).shost = g.shost
<1>1. PICK a \in IP : a = Iface(name).ip
  BY IfaceFound
<1>2. g.src \in IP /\ 64 \in 0 .. 255
  BY DEF IpFrame
<1>3. Rewritten(g, name) =
        [g EXCEPT !.src = a, !.dst = g.src, !.ttl = 64, !.proto = "icmp"]
  BY <1>1 DEF Rewritten
<1>. QED
  BY <1>2, <1>3 DEF IpFrame

\* What forwarding makes of a datagram is a datagram, with the payload it came
\* with; its destination is its own or, when its time is up, its source.
LEMMA ForwardableType ==
    ASSUME NEW f \in Frame, f.kind = "ip"
    PROVE  /\ Aged(f) \in IpFrame /\ Forwardable(f) \in IpFrame
           /\ Aged(f).src = f.src /\ Aged(f).shost = f.shost
           /\ Aged(f).dhost = f.dhost
<1>1. f \in IpFrame
  BY FrameKinds
<1>2. (f.ttl + 255) % 256 \in 0 .. 255
  <2>1. f.ttl \in 0 .. 255
    BY <1>1 DEF IpFrame
  <2>2. \A x \in 0 .. 255 : (x + 255) % 256 \in 0 .. 255
    OBVIOUS
  <2>. QED
    BY <2>1, <2>2, Zenon
<1>3. /\ Aged(f) \in IpFrame /\ Aged(f).src = f.src /\ Aged(f).shost = f.shost
      /\ Aged(f).dhost = f.dhost
  BY <1>1, <1>2 DEF Aged, IpFrame
<1>5. Rewritten(Aged(f), InboundIf(f)) \in IpFrame
  BY <1>3, SenderFound, RewrittenType
<1>. QED
  BY <1>3, <1>5 DEF Forwardable

LEMMA AddressedType ==
    ASSUME NEW f \in Frame, f.kind = "ip", NEW m \in EtherAddr
    PROVE  LET g == Addressed(f, m) IN
           /\ g \in IpFrame
           /\ g.dhost = m /\ g.dst = Forwardable(f).dst
           /\ g.shost = Iface(CheckRoute(Forwardable(f).dst)).mac
<1>1. Forwardable(f) \in IpFrame
  BY ForwardableType
<1>2. Iface(CheckRoute(Forwardable(f).dst)).mac \in EtherAddr
  BY RouteFound, IfaceFound
<1>. QED
  BY <1>1, <1>2 DEF Addressed, IpFrame

-----------------------------------------------------------------------------
(* The frames handed to sr_send_packet, one by one.                        *)

LEMMA SendFields ==
    ASSUME NEW g, NEW name
    PROVE  /\ Send(g, name).frame = g /\ Send(g, name).iface = name
           /\ Send(g, name).accepted = (g.shost = Iface(name).mac)
           /\ Send(g, name).accepted \in BOOLEAN
           /\ Send(g, name).accepted <=> g.shost = Iface(name).mac
<1>. QED
  BY DEF Send

\* An ARP frame from the interface it is sent through.
LEMMA GoodArp ==
    ASSUME NEW g, g.kind = "arp", NEW name \in Names,
           g.shost = Iface(name).mac, NEW f
    PROVE  Good(Send(g, name), f)
<1>. DEFINE o == Send(g, name)
<1>1. o.frame = g /\ o.iface = name /\ o.accepted /\ o.accepted \in BOOLEAN
  BY SendFields
<1>. HIDE DEF o
<1>2. Good(o, f)
  BY <1>1 DEF Good
<1>. QED
  BY <1>2 DEF o

LEMMA GoodArpRequest ==
    ASSUME NEW q \in Queueable, NEW f
    PROVE  Good(ArpRequest(q), f)
<1>. DEFINE g == [kind |-> "arp", dhost |-> Bcast, shost |-> Iface(q.iface).mac,
                  op |-> "request", sip |-> Iface(q.iface).ip,
                  sha |-> Iface(q.iface).mac, tip |-> q.frame.dst]
<1>1. g.kind = "arp" /\ g.shost = Iface(q.iface).mac /\ q.iface \in Names
  BY DEF Queueable
<1>2. ArpRequest(q) = Send(g, q.iface)
  BY DEF ArpRequest
<1>. HIDE DEF g
<1>. QED
  BY <1>1, <1>2, GoodArp

LEMMA GoodArpReply ==
    ASSUME NEW f \in Frame, f.kind = "arp"
    PROVE  Good(Send(ArpReply(f, InboundIf(f)), InboundIf(f)), f)
<1>1. f \in ArpFrame /\ InboundIf(f) \in Names
  BY FrameKinds, SenderFound
<1>2. /\ ArpReply(f, InboundIf(f)).kind = "arp"
      /\ ArpReply(f, InboundIf(f)).shost = Iface(InboundIf(f)).mac
  BY <1>1 DEF ArpReply, ArpFrame
<1>. QED
  BY <1>1, <1>2, GoodArp

\* The reply that deal_arp passes on is the frame it got.
LEMMA GoodPassed ==
    ASSUME NEW f \in Frame, f.kind = "arp", NEW a
    PROVE  Good(Send(f, CheckRoute(a)), f)
<1>. DEFINE o == Send(f, CheckRoute(a))
<1>1. o.frame = f /\ o.iface \in Names /\ o.accepted \in BOOLEAN
  BY SendFields, RouteFound
<1>. HIDE DEF o
<1>2. Good(o, f)
  BY <1>1 DEF Good
<1>. QED
  BY <1>2 DEF o

\* An ICMP error about the frame at hand goes back to its sender.
LEMMA GoodError ==
    ASSUME NEW f \in Frame, f.kind = "ip", NEW g \in IpFrame,
           g.src = f.src, g.shost = f.shost,
           NEW body \in {"time_exceeded", "port_unreachable"}
    PROVE  Good(Send(IcmpError(g, InboundIf(f), body), InboundIf(f)), f)
<1>1. PICK h \in HostIps : f.shost = HostMac[h] /\ f.src = h
  BY SenderFound
<1>. DEFINE e == IcmpError(g, InboundIf(f), body)
            o == Send(e, InboundIf(f))
<1>2. /\ e.kind = "ip" /\ e.dhost = f.shost /\ e.body = body
      /\ e.shost = Iface(InboundIf(f)).mac
      /\ e.src = Iface(InboundIf(f)).ip /\ e.dst = f.src
  BY DEF IcmpError, IpFrame
<1>. HIDE DEF e
<1>3. o.frame = e /\ o.iface = InboundIf(f) /\ o.accepted /\ o.accepted \in BOOLEAN
  BY <1>2, SendFields
<1>. HIDE DEF o
<1>4. InboundIf(f) \in Names
  BY SenderFound
<1>5. Good(o, f)
  BY <1>1, <1>2, <1>3, <1>4 DEF Good
<1>. QED
  BY <1>5 DEF o, e

\* An echo reply goes back too, accepted or not.
LEMMA GoodEcho ==
    ASSUME NEW f \in Frame, f.kind = "ip"
    PROVE  Good(Send(EchoReply(f), InboundIf(f)), f)
<1>1. PICK h \in HostIps : f.shost = HostMac[h] /\ f.src = h
  BY SenderFound
<1>. DEFINE e == EchoReply(f)
            o == Send(e, InboundIf(f))
<1>2. e.kind = "ip" /\ e.dhost = f.shost /\ e.body = "echo_reply" /\ e.dst = f.src
  BY FrameKinds DEF EchoReply, IpFrame
<1>. HIDE DEF e
<1>3. o.frame = e /\ o.iface = InboundIf(f) /\ o.accepted \in BOOLEAN
  BY SendFields
<1>. HIDE DEF o
<1>4. InboundIf(f) \in Names
  BY SenderFound
<1>5. Good(o, f)
  BY <1>1, <1>2, <1>3, <1>4 DEF Good
<1>. QED
  BY <1>5 DEF o, e

\* A datagram that leaves for the owner of its destination.
LEMMA GoodDatagram ==
    ASSUME NEW g \in IpFrame, g.dst \in HostIps, g.dhost = HostMac[g.dst],
           g.shost = Iface(CheckRoute(g.dst)).mac, NEW f
    PROVE  Good(Send(g, CheckRoute(g.dst)), f)
<1>. DEFINE o == Send(g, CheckRoute(g.dst))
<1>1. /\ o.frame = g /\ o.iface = CheckRoute(g.dst) /\ o.iface \in Names
      /\ o.accepted /\ o.accepted \in BOOLEAN
  BY SendFields, RouteFound
<1>2. g.kind = "ip" /\ g.body = "data" /\ g.dst \in IP
  BY DEF IpFrame
<1>. HIDE DEF o
<1>3. Good(o, f)
  BY <1>1, <1>2 DEF Good
<1>. QED
  BY <1>3 DEF o

\* The error about a queued datagram goes to the router itself: the source of
\* the datagram is by then the MAC of the interface it was to leave through.
LEMMA GoodUnreachable ==
    ASSUME NEW q \in Queueable, q.frame.shost = Iface(q.iface).mac, NEW f
    PROVE  Good(Send(IcmpError(q.frame, q.iface, "host_unreachable"), q.iface), f)
<1>. DEFINE e == IcmpError(q.frame, q.iface, "host_unreachable")
            o == Send(e, q.iface)
<1>1. q.frame \in IpFrame /\ q.iface \in Names
  BY DEF Queueable
<1>2. /\ e.kind = "ip" /\ e.dhost = q.frame.shost /\ e.body = "host_unreachable"
      /\ e.shost = Iface(q.iface).mac
  BY <1>1 DEF IcmpError, IpFrame
<1>. HIDE DEF e
<1>3. o.frame = e /\ o.iface = q.iface /\ o.accepted /\ o.accepted \in BOOLEAN
  BY <1>2, SendFields
<1>. HIDE DEF o
<1>4. e.dhost \in RouterMacs
  BY <1>1, <1>2, IfaceFound
<1>5. Good(o, f)
  BY <1>1, <1>2, <1>3, <1>4 DEF Good
<1>. QED
  BY <1>5 DEF o, e

LEMMA NoneGood ==
    ASSUME NEW f
    PROVE  AllGood(<<>>, f)
<1>. QED
  BY DEF AllGood

LEMMA OneGood ==
    ASSUME NEW o, NEW f, Good(o, f)
    PROVE  AllGood(<<o>>, f)
<1>1. DOMAIN <<o>> = {1} /\ <<o>>[1] = o
  OBVIOUS
<1>. QED
  BY <1>1 DEF AllGood

LEMMA TwoGood ==
    ASSUME NEW o, NEW p, NEW f, Good(o, f), Good(p, f)
    PROVE  AllGood(<<o>> \o <<p>>, f)
<1>. DEFINE s == <<o>> \o <<p>>
<1>1. DOMAIN s = {1, 2} /\ s[1] = o /\ s[2] = p
  OBVIOUS
<1>. HIDE DEF s
<1>2. AllGood(s, f)
  BY <1>1 DEF AllGood
<1>. QED
  BY <1>2 DEF s

\* The time-exceeded message that may go before another frame.
LEMMA AgedGood ==
    ASSUME NEW f \in Frame, f.kind = "ip"
    PROVE  /\ AllGood(TimeExceeded(f), f)
           /\ AllGood(TimeExceeded(f) \o <<>>, f)
           /\ \A p : Good(p, f) => AllGood(TimeExceeded(f) \o <<p>>, f)
<1>. DEFINE e == Send(IcmpError(Aged(f), InboundIf(f), "time_exceeded"), InboundIf(f))
<1>1. Good(e, f)
  BY ForwardableType, GoodError
<1>2. TimeExceeded(f) = <<>> \/ TimeExceeded(f) = <<e>>
  BY DEF TimeExceeded
<1>. HIDE DEF e
<1>3. <<e>> \o <<>> = <<e>> /\ <<>> \o <<>> = <<>> /\ \A p : <<>> \o <<p>> = <<p>>
  <2>1. <<e>> \o <<>> = <<e>>
    OBVIOUS
  <2>2. <<>> \o <<>> = <<>>
    OBVIOUS
  <2>3. \A p : <<>> \o <<p>> = <<p>>
    OBVIOUS
  <2>. QED
    BY <2>1, <2>2, <2>3
<1>4. CASE TimeExceeded(f) = <<>>
  BY <1>3, <1>4, NoneGood, OneGood
<1>5. CASE TimeExceeded(f) = <<e>>
  BY <1>1, <1>3, <1>5, OneGood, TwoGood
<1>. QED
  BY <1>2, <1>4, <1>5

-----------------------------------------------------------------------------
(* What a step sends.                                                      *)

LEMMA WaitingTyped ==
    ASSUME TypeOK, NEW a \in IP
    PROVE  /\ waiting[a] \in Seq(Queueable)
           /\ waiting[a] # <<>> => 1 \in DOMAIN waiting[a] /\ waiting[a][1] \in Queueable
<1>1. waiting[a] \in Seq(Queueable)
  BY DEF TypeOK, Queueable
<1>. QED
  BY <1>1

LEMMA GoodDealArpRequest ==
    ASSUME NEW f \in Frame, DealArpRequest(f)
    PROVE  OutputsGood'
<1>. QED
  BY GoodArpReply, OneGood DEF DealArpRequest, Take, OutputsGood

LEMMA GoodDealIpLocal ==
    ASSUME NEW f \in Frame, DealIpLocal(f)
    PROVE  OutputsGood'
<1>1. in' = f /\ f.kind = "ip" /\ f \in IpFrame
  BY FrameKinds DEF DealIpLocal, Take, ForMe
<1>2. f.proto \in {"icmp", "udp", "other"}
  BY <1>1 DEF IpFrame
<1>3. CASE f.proto = "icmp"
  <2>1. out' = <<Send(EchoReply(f), InboundIf(f))>>
    BY <1>3 DEF DealIpLocal
  <2>. QED
    BY <1>1, <2>1, GoodEcho, OneGood DEF OutputsGood
<1>4. CASE f.proto = "udp"
  <2>1. out' = <<Send(IcmpError(f, InboundIf(f), "port_unreachable"), InboundIf(f))>>
    BY <1>4 DEF DealIpLocal
  <2>2. Good(Send(IcmpError(f, InboundIf(f), "port_unreachable"), InboundIf(f)), f)
    BY <1>1, GoodError
  <2>. QED
    BY <1>1, <2>1, <2>2, OneGood DEF OutputsGood
<1>5. CASE f.proto = "other"
  <2>1. out' = <<>>
    BY <1>5 DEF DealIpLocal
  <2>. QED
    BY <2>1, NoneGood DEF OutputsGood
<1>. QED
  BY <1>2, <1>3, <1>4, <1>5

LEMMA GoodForwardKnown ==
    ASSUME Kept, NEW f \in Frame, ForwardKnown(f)
    PROVE  OutputsGood'
<1>. DEFINE dst == Forwardable(f).dst
            g == Addressed(f, known[dst])
            p == Send(g, CheckRoute(dst))
<1>1. /\ in' = f /\ f.kind = "ip" /\ known[dst] # Null
      /\ out' = TimeExceeded(f) \o <<p>>
  BY DEF ForwardKnown, Take, ToForward
<1>2. dst \in IP
  BY <1>1, ForwardableType DEF IpFrame
<1>3. dst \in HostIps /\ known[dst] = HostMac[dst]
  BY <1>1, <1>2 DEF Kept, CachedIsOwner
<1>4. known[dst] \in EtherAddr
  BY <1>3 DEF EtherAddr
<1>5. g \in IpFrame /\ g.dhost = known[dst] /\ g.dst = dst /\ g.shost = Iface(CheckRoute(dst)).mac
  BY <1>1, <1>4, AddressedType
<1>. HIDE DEF g
<1>6. Good(Send(g, CheckRoute(g.dst)), f)
  BY <1>3, <1>5, GoodDatagram
<1>7. Good(p, f)
  BY <1>5, <1>6
<1>. HIDE DEF p
<1>. QED
  BY <1>1, <1>7, AgedGood DEF OutputsGood

LEMMA GoodForwardUnknown ==
    ASSUME Kept, NEW f \in Frame, NEW ask \in BOOLEAN, ForwardUnknown(f, ask)
    PROVE  OutputsGood'
<1>. DEFINE dst == Forwardable(f).dst
            q == [frame |-> Addressed(f, Zero), iface |-> CheckRoute(dst)]
<1>1. /\ in' = f /\ f.kind = "ip"
      /\ \/ out' = TimeExceeded(f) \o <<ArpRequest(q)>>
         \/ out' = TimeExceeded(f) \o <<>>
  BY DEF ForwardUnknown, Take, ToForward
<1>2. q \in Queueable
  <2>1. Zero \in EtherAddr
    BY DEF EtherAddr
  <2>. QED
    BY <1>1, <2>1, AddressedType, RouteFound DEF Queueable
<1>. HIDE DEF q
<1>3. Good(ArpRequest(q), f)
  BY <1>2, GoodArpRequest
<1>. QED
  BY <1>1, <1>3, AgedGood DEF OutputsGood

LEMMA GoodArpReplyNew ==
    ASSUME Kept, NEW f \in Frame, NEW room \in BOOLEAN, ArpReplyNew(f, room)
    PROVE  OutputsGood'
<1>1. /\ in' = f /\ f.kind = "arp" /\ f \in ArpFrame
      /\ loop["main"] = Null /\ loop["sweeper"] = Null
  BY FrameKinds DEF ArpReplyNew, Take, IsReply, Locked
<1>2. /\ f.sip \in IP /\ f.sip \in HostIps /\ f.shost = HostMac[f.sip]
  BY <1>1, SenderFound, AddressAssumption
<1>3. CASE waiting[f.sip] = <<>>
  <2>1. out' = <<>>
    BY <1>3 DEF ArpReplyNew
  <2>. QED
    BY <2>1, NoneGood DEF OutputsGood
<1>4. CASE waiting[f.sip] # <<>>
  <2>. DEFINE q == waiting[f.sip][1]
              g == [q.frame EXCEPT !.dhost = f.shost]
  <2>1. out' = <<Send(g, q.iface)>>
    BY <1>4 DEF ArpReplyNew
  <2>2. 1 \in DOMAIN waiting[f.sip] /\ q \in Queueable
    BY <1>2, <1>4, WaitingTyped DEF Kept
  <2>3. /\ q.frame.shost = Iface(q.iface).mac /\ q.iface = CheckRoute(f.sip)
        /\ q.frame.dst = f.sip
    <3>1. f.sip # Null
      BY <1>2, AddressAssumption
    <3>. QED
      BY <1>1, <1>2, <2>2, <3>1 DEF Kept, QueuedReady
  <2>4. q.frame \in IpFrame /\ f.shost \in EtherAddr
    BY <1>2, <2>2 DEF Queueable, EtherAddr
  <2>. HIDE DEF q
  <2>5. /\ g \in IpFrame /\ g.dst = f.sip /\ g.dhost = HostMac[f.sip]
        /\ g.shost = Iface(CheckRoute(f.sip)).mac
    BY <1>2, <2>3, <2>4 DEF IpFrame
  <2>. HIDE DEF g
  <2>6. Good(Send(g, CheckRoute(g.dst)), f)
    BY <1>2, <2>5, GoodDatagram
  <2>. QED
    BY <1>1, <2>1, <2>3, <2>5, <2>6, OneGood DEF OutputsGood
<1>. QED
  BY <1>3, <1>4

LEMMA GoodHostUnreachable ==
    ASSUME Kept, NEW t \in {"main", "sweeper"}, HostUnreachable(t)
    PROVE  OutputsGood'
<1>. DEFINE a == loop[t]
            q == waiting[a][1]
<1>1. /\ a # Null
      /\ out' = <<Send(IcmpError(q.frame, q.iface, "host_unreachable"), q.iface)>>
  BY DEF HostUnreachable
<1>2. a \in IP /\ waiting[a] # <<>>
  BY <1>1 DEF Kept, TypeOK
<1>3. 1 \in DOMAIN waiting[a] /\ q \in Queueable
  BY <1>2, WaitingTyped DEF Kept
<1>4. q.frame.shost = Iface(q.iface).mac
  BY <1>2, <1>3 DEF Kept, QueuedReady
<1>. HIDE DEF q, a
<1>5. Good(Send(IcmpError(q.frame, q.iface, "host_unreachable"), q.iface), in')
  BY <1>3, <1>4, GoodUnreachable
<1>. QED
  BY <1>1, <1>5, OneGood DEF OutputsGood

\* What a step sends is in order, whatever the step.
LEMMA NextGood ==
    ASSUME Kept, Next
    PROVE  OutputsGood'
<1>1. ASSUME NEW f \in Frame, HandleFrame(f)
      PROVE  OutputsGood'
  <2>1. CASE DealArpRequest(f)
    BY <2>1, GoodDealArpRequest
  <2>2. CASE DealIpLocal(f)
    BY <2>2, GoodDealIpLocal
  <2>3. CASE Drop(f)
    BY <2>3, NoneGood DEF Drop, OutputsGood
  <2>4. CASE ForwardKnown(f)
    BY <2>4, GoodForwardKnown
  <2>5. ASSUME NEW ask \in BOOLEAN, ForwardUnknown(f, ask)
        PROVE  OutputsGood'
    BY <2>5, GoodForwardUnknown
  <2>6. CASE ArpReplyKnown(f)
    <3>1. PICK dst \in IP : out' = <<Send(f, CheckRoute(dst))>>
      BY <2>6 DEF ArpReplyKnown
    <3>2. in' = f /\ f.kind = "arp"
      BY <2>6 DEF ArpReplyKnown, Take, IsReply
    <3>. QED
      BY <3>1, <3>2, GoodPassed, OneGood DEF OutputsGood
  <2>7. ASSUME NEW room \in BOOLEAN, ArpReplyNew(f, room)
        PROVE  OutputsGood'
    BY <2>7, GoodArpReplyNew
  <2>8. CASE Block(f)
    <3>1. in' = f /\ out' = IF ToForward(f) THEN TimeExceeded(f) ELSE <<>>
      BY <2>8 DEF Block, Take
    <3>2. ToForward(f) => f.kind = "ip"
      BY DEF ToForward
    <3>. QED
      BY <3>1, <3>2, AgedGood, NoneGood DEF OutputsGood
  <2>. QED
    BY <1>1, <2>1, <2>2, <2>3, <2>4, <2>5, <2>6, <2>7, <2>8 DEF HandleFrame
<1>2. ASSUME NEW a \in IP, Sweep(a)
      PROVE  OutputsGood'
  <2>1. CASE Expire(a)
    BY <2>1, NoneGood DEF Expire, OutputsGood
  <2>2. CASE SweepAsk(a)
    <3>1. waiting[a][1] \in Queueable
      BY <2>2, WaitingTyped DEF SweepAsk, Kept
    <3>. QED
      BY <2>2, <3>1, GoodArpRequest, OneGood DEF SweepAsk, OutputsGood
  <2>3. CASE SweepGiveUp(a)
    BY <2>3, NoneGood DEF SweepGiveUp, OutputsGood
  <2>. QED
    BY <1>2, <2>1, <2>2, <2>3 DEF Sweep
<1>3. ASSUME NEW t \in {"main", "sweeper"}, HostUnreachable(t)
      PROVE  OutputsGood'
  BY <1>3, GoodHostUnreachable
<1>. QED
  BY <1>1, <1>2, <1>3 DEF Next

-----------------------------------------------------------------------------
(* What a step leaves in the cache and in the request list.                *)

\* The outputs are as TypeOK says when they are good.
LEMMA OutputsTyped ==
    OutputsGood => \A o \in Outputs : o.iface \in Names /\ o.accepted \in BOOLEAN
<1>. QED
  BY DEF OutputsGood, AllGood, Good, Outputs

LEMMA OutputsTypedPrime ==
    OutputsGood' => (\A o \in Outputs : o.iface \in Names /\ o.accepted \in BOOLEAN)'
<1>. QED
  BY OutputsTyped, PTL

\* A step that leaves the resolver alone.
LEMMA KeptUnchanged ==
    ASSUME Kept, OutputsGood', UNCHANGED <<known, waiting, tries, loop>>,
           blocked' \in BOOLEAN, in' \in Frame \cup {Null}
    PROVE  Kept'
<1>1. TypeOK'
  BY OutputsTypedPrime DEF Kept, TypeOK
<1>2. QueuedReady'
  BY DEF Kept, QueuedReady
<1>3. CachedIsOwner'
  BY DEF Kept, CachedIsOwner
<1>. QED
  BY <1>1, <1>2, <1>3 DEF Kept

LEMMA KeptForwardUnknown ==
    ASSUME Kept, OutputsGood', NEW f \in Frame, NEW ask \in BOOLEAN,
           ForwardUnknown(f, ask)
    PROVE  Kept'
<1>. DEFINE dst == Forwardable(f).dst
            g == Addressed(f, Zero)
            q == [frame |-> g, iface |-> CheckRoute(dst)]
<1>1. /\ f.kind = "ip" /\ in' = f /\ UNCHANGED <<known, blocked>>
      /\ loop["main"] = Null /\ loop["sweeper"] = Null
      /\ Len(waiting[dst]) < MaxQueue
      /\ waiting' = [waiting EXCEPT ![dst] = <<q>> \o @]
      /\ \/ loop' = loop
         \/ loop' = [loop EXCEPT !["main"] = dst]
      /\ \/ tries' = tries
         \/ ~ (tries[dst] >= MAX_TRIES) /\ tries' = [tries EXCEPT ![dst] = @ + 1]
  BY DEF ForwardUnknown, Take, ToForward, Locked
<1>2. dst \in IP
  BY <1>1, ForwardableType DEF IpFrame
<1>3. /\ g \in IpFrame /\ g.dst = dst /\ g.shost = Iface(CheckRoute(dst)).mac
      /\ CheckRoute(dst) \in Names
  <2>1. Zero \in EtherAddr
    BY DEF EtherAddr
  <2>. QED
    BY <1>1, <2>1, AddressedType, RouteFound
<1>. HIDE DEF g
<1>4. q \in Queueable /\ q.frame = g /\ q.iface = CheckRoute(dst)
  BY <1>3 DEF Queueable
<1>. HIDE DEF q, dst
<1>5. /\ waiting \in [IP -> Seq(Queueable)] /\ waiting[dst] \in Seq(Queueable)
  BY <1>2, WaitingTyped DEF Kept, TypeOK, Queueable
<1>. DEFINE s == <<q>> \o waiting[dst]
<1>6. /\ s \in Seq(Queueable) /\ Len(s) = Len(waiting[dst]) + 1 /\ s # <<>>
      /\ \A k \in DOMAIN s : s[k] = q \/ \E j \in DOMAIN waiting[dst] : s[k] = waiting[dst][j]
  <2>1. PICK w \in Seq(Queueable) : w = waiting[dst]
    BY <1>5
  <2>2. /\ <<q>> \o w \in Seq(Queueable) /\ Len(<<q>> \o w) = Len(w) + 1 /\ <<q>> \o w # <<>>
        /\ \A k \in DOMAIN (<<q>> \o w) : k = 1 \/ (k - 1) \in DOMAIN w
        /\ (<<q>> \o w)[1] = q
        /\ \A k \in DOMAIN w : (<<q>> \o w)[k + 1] = w[k]
    BY <1>4
  <2>3. \A k \in DOMAIN (<<q>> \o w) : (<<q>> \o w)[k] = q \/ \E j \in DOMAIN w : (<<q>> \o w)[k] = w[j]
    BY <1>4
  <2>. QED
    BY <2>1, <2>2, <2>3
<1>7. waiting'[dst] = s /\ \A a \in IP \ {dst} : waiting'[a] = waiting[a]
  BY <1>1, <1>2, <1>5
<1>8. waiting' \in [IP -> Seq(Queueable)]
  BY <1>1, <1>2, <1>5, <1>6
<1>. HIDE DEF s
<1>9. TypeOK'
  <2>1. \A a \in IP : Len(waiting'[a]) <= MaxQueue
    <3>1. Len(s) <= MaxQueue
      BY <1>1, <1>5, <1>6, BoundAssumption
    <3>. QED
      BY <1>7, <3>1 DEF Kept, TypeOK
  <2>2. tries' \in [IP -> 0 .. MAX_TRIES]
    BY <1>1, <1>2, BoundAssumption DEF Kept, TypeOK
  <2>3. loop' \in [{"main", "sweeper"} -> IP \cup {Null}]
    BY <1>1, <1>2 DEF Kept, TypeOK
  <2>4. \A t \in {"main", "sweeper"} : loop'[t] # Null => waiting'[loop'[t]] # <<>>
    BY <1>1, <1>2, <1>6, <1>7 DEF Kept, TypeOK
  <2>. QED
    BY <1>1, <1>8, <2>1, <2>2, <2>3, <2>4, OutputsTypedPrime DEF Kept, TypeOK, Queueable
<1>10. QueuedReady'
  <2>1. ASSUME NEW a \in IP, NEW k \in DOMAIN waiting'[a]
        PROVE  /\ waiting'[a][k].frame.shost = Iface(waiting'[a][k].iface).mac
               /\ waiting'[a][k].iface = CheckRoute(a)
               /\ waiting'[a][k].frame.dst = a
    <3>1. a \notin {loop["main"], loop["sweeper"]}
      BY <1>1, AddressAssumption
    <3>2. \A j \in DOMAIN waiting[a] :
             /\ waiting[a][j].frame.shost = Iface(waiting[a][j].iface).mac
             /\ waiting[a][j].iface = CheckRoute(a)
             /\ waiting[a][j].frame.dst = a
      BY <3>1 DEF Kept, QueuedReady
    <3>3. CASE a = dst
      BY <1>3, <1>4, <1>6, <1>7, <2>1, <3>2, <3>3
    <3>4. CASE a # dst
      BY <1>7, <2>1, <3>2, <3>4
    <3>. QED
      BY <3>3, <3>4
  <2>. QED
    BY <2>1 DEF QueuedReady
<1>11. CachedIsOwner'
  BY <1>1 DEF Kept, CachedIsOwner
<1>. QED
  BY <1>9, <1>10, <1>11 DEF Kept

LEMMA KeptArpReplyNew ==
    ASSUME Kept, OutputsGood', NEW f \in Frame, NEW room \in BOOLEAN,
           ArpReplyNew(f, room)
    PROVE  Kept'
<1>1. /\ in' = f /\ f.kind = "arp" /\ f \in ArpFrame
      /\ loop["main"] = Null /\ loop["sweeper"] = Null
      /\ \/ known' = known
         \/ known' = [known EXCEPT ![f.sip] = f.sha]
      /\ waiting' = [waiting EXCEPT ![f.sip] = <<>>]
      /\ tries' = [tries EXCEPT ![f.sip] = 0]
      /\ UNCHANGED <<loop, blocked>>
  BY FrameKinds DEF ArpReplyNew, Take, IsReply, Locked
<1>2. /\ f.sip \in IP /\ f.sip \in HostIps /\ f.sha = HostMac[f.sip]
  BY <1>1, SenderFound, AddressAssumption
<1>3. /\ waiting'[f.sip] = <<>> /\ \A a \in IP \ {f.sip} : waiting'[a] = waiting[a]
      /\ waiting' \in [IP -> Seq(Queueable)]
  <2>1. waiting \in [IP -> Seq(Queueable)] /\ <<>> \in Seq(Queueable)
    <3>1. <<>> \in Seq(Queueable)
      OBVIOUS
    <3>2. waiting \in [IP -> Seq(Queueable)]
      BY Zenon DEF Kept, TypeOK, Queueable
    <3>. QED
      BY <3>1, <3>2
  <2>2. PICK a \in IP : a = f.sip
    BY <1>2
  <2>. QED
    BY <1>1, <2>1, <2>2
<1>4. TypeOK'
  <2>1. known' \in [IP -> {Null} \cup {HostMac[h] : h \in HostIps}]
    BY <1>1, <1>2 DEF Kept, TypeOK
  <2>2. \A a \in IP : Len(waiting'[a]) <= MaxQueue
    <3>1. Len(<<>>) <= MaxQueue
      BY BoundAssumption
    <3>. QED
      BY <1>3, <3>1 DEF Kept, TypeOK
  <2>3. tries' \in [IP -> 0 .. MAX_TRIES]
    BY <1>1, <1>2, BoundAssumption DEF Kept, TypeOK
  <2>4. \A t \in {"main", "sweeper"} : loop'[t] # Null => waiting'[loop'[t]] # <<>>
    BY <1>1
  <2>. QED
    BY <1>1, <1>3, <2>1, <2>2, <2>3, <2>4, OutputsTypedPrime DEF Kept, TypeOK, Queueable
<1>5. QueuedReady'
  <2>1. \A a \in IP : \A k \in DOMAIN waiting'[a] : a # f.sip
    BY <1>3
  <2>. QED
    BY <1>1, <1>3, <2>1 DEF Kept, QueuedReady
<1>6. CachedIsOwner'
  BY <1>1, <1>2 DEF Kept, TypeOK, CachedIsOwner
<1>. QED
  BY <1>4, <1>5, <1>6 DEF Kept

LEMMA KeptSweep ==
    ASSUME Kept, OutputsGood', NEW a \in IP, Sweep(a)
    PROVE  Kept'
<1>1. CASE Expire(a)
  <2>1. known' = [known EXCEPT ![a] = Null] /\ in' = Null /\ UNCHANGED <<waiting, tries, loop, blocked>>
    BY <1>1 DEF Expire
  <2>2. TypeOK'
    BY <2>1, OutputsTypedPrime DEF Kept, TypeOK
  <2>3. QueuedReady'
    BY <2>1 DEF Kept, QueuedReady
  <2>4. CachedIsOwner'
    BY <2>1 DEF Kept, TypeOK, CachedIsOwner
  <2>. QED
    BY <2>2, <2>3, <2>4 DEF Kept
<1>2. CASE SweepAsk(a)
  <2>1. /\ tries[a] < MAX_TRIES /\ tries' = [tries EXCEPT ![a] = @ + 1] /\ in' = Null
        /\ UNCHANGED <<known, waiting, loop, blocked>>
    BY <1>2 DEF SweepAsk
  <2>2. tries' \in [IP -> 0 .. MAX_TRIES]
    BY <2>1, BoundAssumption DEF Kept, TypeOK
  <2>3. TypeOK'
    BY <2>1, <2>2, OutputsTypedPrime DEF Kept, TypeOK
  <2>4. QueuedReady'
    BY <2>1 DEF Kept, QueuedReady
  <2>5. CachedIsOwner'
    BY <2>1 DEF Kept, CachedIsOwner
  <2>. QED
    BY <2>3, <2>4, <2>5 DEF Kept
<1>3. CASE SweepGiveUp(a)
  <2>1. /\ loop["sweeper"] = Null /\ waiting[a] # <<>>
        /\ loop' = [loop EXCEPT !["sweeper"] = a]
        /\ in' = Null /\ UNCHANGED <<known, waiting, tries, blocked>>
    BY <1>3 DEF SweepGiveUp, Locked
  <2>2. /\ loop' \in [{"main", "sweeper"} -> IP \cup {Null}]
        /\ loop'["main"] = loop["main"] /\ loop'["sweeper"] = a
    BY <2>1 DEF Kept, TypeOK
  <2>3. TypeOK'
    BY <2>1, <2>2, OutputsTypedPrime DEF Kept, TypeOK
  <2>4. QueuedReady'
    <3>1. \A b \in IP : b \notin {loop'["main"], loop'["sweeper"]} =>
                        b \notin {loop["main"], loop["sweeper"]}
      BY <2>1, <2>2, AddressAssumption
    <3>. QED
      BY <2>1, <3>1 DEF Kept, QueuedReady
  <2>5. CachedIsOwner'
    BY <2>1 DEF Kept, CachedIsOwner
  <2>. QED
    BY <2>3, <2>4, <2>5 DEF Kept
<1>. QED
  BY <1>1, <1>2, <1>3 DEF Sweep

LEMMA KeptHostUnreachable ==
    ASSUME Kept, OutputsGood', NEW t \in {"main", "sweeper"}, HostUnreachable(t)
    PROVE  Kept'
<1>. DEFINE a == loop[t]
            w == waiting[a]
            q == w[1]
            r == [q EXCEPT !.frame = Rewritten(q.frame, q.iface)]
            s == <<r>> \o Tail(w)
<1>1. /\ a # Null /\ waiting' = [waiting EXCEPT ![a] = s] /\ in' = Null
      /\ UNCHANGED <<known, tries, loop, blocked>>
  BY DEF HostUnreachable
<1>2. a \in IP /\ w # <<>>
  BY <1>1 DEF Kept, TypeOK
<1>3. w \in Seq(Queueable) /\ 1 \in DOMAIN w /\ q \in Queueable /\ Len(w) <= MaxQueue
  BY <1>2, WaitingTyped DEF Kept, TypeOK
<1>4. \A k \in DOMAIN w : w[k].frame.shost = Iface(w[k].iface).mac /\ w[k].iface = CheckRoute(a)
  BY <1>2 DEF Kept, QueuedReady
<1>5. q.frame.shost = Iface(q.iface).mac /\ q.iface = CheckRoute(a)
  BY <1>3, <1>4
<1>. HIDE DEF q, w
<1>6. /\ r \in Queueable /\ r.iface = CheckRoute(a) /\ r.frame.shost = Iface(r.iface).mac
  <2>1. q.frame \in IpFrame /\ q.iface \in Names
    BY <1>3 DEF Queueable
  <2>2. PICK g \in IpFrame : g = Rewritten(q.frame, q.iface) /\ g.shost = q.frame.shost
    BY <2>1, RewrittenType
  <2>3. r = [q EXCEPT !.frame = g]
    BY <2>2
  <2>. QED
    BY <1>3, <1>5, <2>2, <2>3 DEF Queueable
<1>. HIDE DEF r
<1>7. /\ s \in Seq(Queueable) /\ Len(s) = Len(w) /\ s # <<>>
      /\ \A k \in DOMAIN s : s[k] = r \/ \E j \in DOMAIN w : s[k] = w[j]
  <2>1. Tail(w) \in Seq(Queueable) /\ Len(Tail(w)) = Len(w) - 1 /\ Len(w) \in Nat
    BY <1>2, <1>3 DEF w
  <2>2. PICK v \in Seq(Queueable) : v = Tail(w)
    BY <2>1
  <2>3. \A k \in DOMAIN v : (k + 1) \in DOMAIN w /\ v[k] = w[k + 1]
    BY <1>2, <1>3, <2>2 DEF w
  <2>4. /\ <<r>> \o v \in Seq(Queueable) /\ Len(<<r>> \o v) = Len(v) + 1 /\ <<r>> \o v # <<>>
        /\ \A k \in DOMAIN (<<r>> \o v) : (<<r>> \o v)[k] = r \/ \E j \in DOMAIN v : (<<r>> \o v)[k] = v[j]
    BY <1>6
  <2>5. \A k \in DOMAIN (<<r>> \o v) : (<<r>> \o v)[k] = r \/ \E j \in DOMAIN w : (<<r>> \o v)[k] = w[j]
    BY <2>3, <2>4, Zenon
  <2>. QED
    BY <2>1, <2>2, <2>4, <2>5
<1>8. /\ waiting'[a] = s /\ \A b \in IP \ {a} : waiting'[b] = waiting[b]
      /\ waiting' \in [IP -> Seq(Queueable)]
  BY <1>1, <1>2, <1>7 DEF Kept, TypeOK, Queueable
<1>. HIDE DEF s, a
<1>9. TypeOK'
  <2>1. \A b \in IP : Len(waiting'[b]) <= MaxQueue
    BY <1>3, <1>7, <1>8 DEF Kept, TypeOK
  <2>2. \A u \in {"main", "sweeper"} : loop'[u] # Null => waiting'[loop'[u]] # <<>>
    BY <1>1, <1>7, <1>8 DEF Kept, TypeOK
  <2>. QED
    BY <1>1, <1>8, <2>1, <2>2, OutputsTypedPrime DEF Kept, TypeOK, Queueable
<1>10. QueuedReady'
  <2>1. ASSUME NEW b \in IP, NEW k \in DOMAIN waiting'[b]
        PROVE  /\ waiting'[b][k].frame.shost = Iface(waiting'[b][k].iface).mac
               /\ waiting'[b][k].iface = CheckRoute(b)
               /\ b \notin {loop'["main"], loop'["sweeper"]} => waiting'[b][k].frame.dst = b
    <3>1. CASE b = a
      <4>1. b \in {loop'["main"], loop'["sweeper"]}
        BY <1>1, <3>1 DEF a
      <4>2. s[k].frame.shost = Iface(s[k].iface).mac /\ s[k].iface = CheckRoute(a)
        BY <1>4, <1>6, <1>7, <1>8, <2>1, <3>1
      <4>. QED
        BY <1>8, <3>1, <4>1, <4>2
    <3>2. CASE b # a
      BY <1>1, <1>8, <2>1, <3>2 DEF Kept, QueuedReady
    <3>. QED
      BY <3>1, <3>2
  <2>. QED
    BY <2>1 DEF QueuedReady
<1>11. CachedIsOwner'
  BY <1>1 DEF Kept, CachedIsOwner
<1>. QED
  BY <1>9, <1>10, <1>11 DEF Kept

LEMMA KeptNext ==
    ASSUME Kept, Next, OutputsGood'
    PROVE  Kept'
<1>1. ASSUME NEW f \in Frame, HandleFrame(f)
      PROVE  Kept'
  <2>1. CASE \/ DealArpRequest(f) \/ DealIpLocal(f) \/ Drop(f)
             \/ ForwardKnown(f) \/ ArpReplyKnown(f)
    <3>1. in' = f /\ UNCHANGED resolver
      BY <2>1 DEF DealArpRequest, DealIpLocal, Drop, ForwardKnown, ArpReplyKnown, Take
    <3>2. blocked' \in BOOLEAN
      BY <3>1 DEF resolver, Kept, TypeOK
    <3>. QED
      BY <3>1, <3>2, KeptUnchanged DEF resolver
  <2>2. ASSUME NEW ask \in BOOLEAN, ForwardUnknown(f, ask)
        PROVE  Kept'
    BY <2>2, KeptForwardUnknown
  <2>3. ASSUME NEW room \in BOOLEAN, ArpReplyNew(f, room)
        PROVE  Kept'
    BY <2>3, KeptArpReplyNew
  <2>4. CASE Block(f)
    <3>1. in' = f /\ blocked' \in BOOLEAN /\ UNCHANGED <<known, waiting, tries, loop>>
      BY <2>4 DEF Block, Take
    <3>. QED
      BY <3>1, KeptUnchanged
  <2>. QED
    BY <1>1, <2>1, <2>2, <2>3, <2>4 DEF HandleFrame
<1>2. ASSUME NEW a \in IP, Sweep(a)
      PROVE  Kept'
  BY <1>2, KeptSweep
<1>3. ASSUME NEW t \in {"main", "sweeper"}, HostUnreachable(t)
      PROVE  Kept'
  BY <1>3, KeptHostUnreachable
<1>. QED
  BY <1>1, <1>2, <1>3 DEF Next

-----------------------------------------------------------------------------
(* The theorems.                                                           *)

LEMMA InitKept == Init => Kept /\ OutputsGood
<1>. SUFFICES ASSUME Init
              PROVE  Kept /\ OutputsGood
  OBVIOUS
<1>1. OutputsGood
  BY NoneGood DEF Init, OutputsGood
<1>2. TypeOK
  <2>1. Len(<<>>) <= MaxQueue /\ <<>> \in Seq(Queueable) /\ 0 \in 0 .. MAX_TRIES
    BY BoundAssumption
  <2>. QED
    BY <1>1, <2>1, OutputsTyped DEF Init, TypeOK, Queueable
<1>3. QueuedReady /\ CachedIsOwner
  BY DEF Init, QueuedReady, CachedIsOwner
<1>. QED
  BY <1>1, <1>2, <1>3 DEF Kept

LEMMA StepKept ==
    Kept /\ OutputsGood /\ [Next]_vars => (Kept /\ OutputsGood)'
<1>. SUFFICES ASSUME Kept, OutputsGood, [Next]_vars
              PROVE  Kept' /\ OutputsGood'
  OBVIOUS
<1>1. CASE Next
  BY <1>1, NextGood, KeptNext
<1>2. CASE UNCHANGED vars
  <2>1. OutputsGood'
    BY <1>2 DEF vars, OutputsGood
  <2>. QED
    BY <1>2, <2>1, KeptUnchanged DEF vars, Kept, TypeOK
<1>. QED
  BY <1>1, <1>2

LEMMA Always == Spec => [](Kept /\ OutputsGood)
<1>. QED
  BY InitKept, StepKept, PTL DEF Spec

\* What OutputsGood says, output by output.
LEMMA EachGood ==
    OutputsGood => \A o \in Outputs : Good(o, in)
<1>. QED
  BY DEF OutputsGood, AllGood, Outputs

\* In every behaviour, for every topology, table and traffic, the frames the
\* router keeps and produces can leave: a queued datagram waits in the list of
\* its own destination with the interface of its route and that interface's
\* MAC, and sr_send_packet refuses nothing but an echo reply or an ARP reply
\* passed on.
THEOREM FramesAlwaysReady == Spec => []FramesReady
<1>1. Kept /\ OutputsGood => FramesReady
  <2>. SUFFICES ASSUME Kept, OutputsGood
                PROVE  RefusedIsReply
    BY DEF Kept, FramesReady
  <2>. QED
    BY EachGood DEF Good, RefusedIsReply
<1>. QED
  BY <1>1, Always, PTL

\* The errors of send_icmp_error about a frame at hand go back to the host that
\* sent it.
THEOREM ErrorsAlwaysReachSender == Spec => []ErrorsReachSender
<1>1. OutputsGood => ErrorsReachSender
  BY EachGood DEF Good, ErrorsReachSender
<1>. QED
  BY <1>1, Always, PTL

\* Datagrams leave for the MAC of the host that owns their destination, however
\* queueing, replies and expiry interleave.
THEOREM AlwaysDeliveredToOwner == Spec => []DeliveredToOwner
<1>1. Kept /\ OutputsGood => DeliveredToOwner
  <2>. SUFFICES ASSUME Kept, OutputsGood
                PROVE  SentToOwner
    BY DEF Kept, DeliveredToOwner
  <2>. QED
    BY EachGood DEF Good, SentToOwner
<1>. QED
  BY <1>1, Always, PTL

\* With the tables the repository ships, check_route's exact comparison finds
\* the longest match.
LEMMA RouteLongest ==
    ASSUME HostRoutes, NEW a \in IP
    PROVE  CheckRoute(a) = LongestMatch(a)
<1>. DEFINE S == {i \in DOMAIN RT : a \in RT[i].covers}
            Short(i) == \A j \in S : Cardinality(RT[i].covers) <= Cardinality(RT[j].covers)
            m == CHOOSE i \in S : Short(i)
<1>1. LongestMatch(a) = RT[m].iface
  BY DEF LongestMatch
<1>2. PICK n \in Nat : n = Cardinality(IP) /\ n > 1
  BY FS_CardinalityType DEF HostRoutes
<1>3. \A x : Cardinality({x}) = 1
  BY FS_Singleton
<1>4. \A i \in S : \/ RT[i].dest = a /\ Cardinality(RT[i].covers) = 1
                   \/ RT[i].dest # a /\ RT[i].iface = DefaultIf /\ Cardinality(RT[i].covers) = n
  BY <1>2, <1>3 DEF HostRoutes
<1>5. \A i \in DOMAIN RT : RT[i].dest = a => i \in S
  BY DEF HostRoutes
<1>6. CASE Exact(a) # {}
  <2>1. First(Exact(a)) \in Exact(a)
    BY <1>6, FirstFound DEF Exact
  <2>2. PICK e \in S : RT[e].dest = a /\ e = First(Exact(a))
    BY <1>5, <2>1 DEF Exact
  <2>3. Short(e)
    BY <1>2, <1>4, <2>2
  <2>4. m \in S /\ Short(m)
    BY <2>2, <2>3, Zenon
  <2>5. RT[m].dest = a
    <3>1. Cardinality(RT[m].covers) <= Cardinality(RT[e].covers)
      BY <2>2, <2>4
    <3>. QED
      BY <1>2, <1>4, <2>2, <2>4, <3>1
  <2>6. RT[m].iface = RT[e].iface
    BY <2>2, <2>4, <2>5 DEF HostRoutes
  <2>. QED
    BY <1>1, <1>6, <2>2, <2>6 DEF CheckRoute
<1>7. CASE Exact(a) = {}
  <2>1. \A i \in S : RT[i].iface = DefaultIf /\ Cardinality(RT[i].covers) = n
    BY <1>4, <1>7 DEF Exact
  <2>2. PICK e \in S : TRUE
    BY DEF HostRoutes
  <2>3. Short(e)
    BY <1>2, <2>1
  <2>4. m \in S
    BY <2>2, <2>3, Zenon
  <2>. QED
    BY <1>1, <1>7, <2>1, <2>4 DEF CheckRoute
<1>. QED
  BY <1>6, <1>7

\* With such a table a datagram is queued for, and sent through, the interface
\* of the longest match; check_route itself looks at no mask.
THEOREM LongestMatchUsed ==
    ASSUME HostRoutes
    PROVE  Spec => []RouteIsLongestMatch
<1>1. Kept /\ OutputsGood => RouteIsLongestMatch
  <2>. SUFFICES ASSUME Kept, OutputsGood
                PROVE  RouteIsLongestMatch
    OBVIOUS
  <2>1. \A a \in IP : \A k \in DOMAIN waiting[a] : waiting[a][k].iface = LongestMatch(a)
    BY RouteLongest DEF Kept, QueuedReady
  <2>2. ASSUME NEW o \in Outputs, o.frame.kind = "ip", o.frame.body = "data"
        PROVE  o.iface = LongestMatch(o.frame.dst)
    BY <2>2, EachGood, RouteLongest DEF Good
  <2>. QED
    BY <2>1, <2>2 DEF RouteIsLongestMatch
<1>. QED
  BY <1>1, Always, PTL

-----------------------------------------------------------------------------
(* Headers and checksums.                                                  *)

\* The word size as a number; its definition stays folded elsewhere.
LEMMA WordSize == W = 65536
<1>. QED
  BY SMT DEF W

LEMMA WordRange == \A x : x \in 0 .. W - 1 <=> x \in Nat /\ x < 65536
<1>1. W - 1 = 65535
  BY WordSize, SMT
<1>. QED
  BY <1>1, SMT

LEMMA SumRange == \A x : x \in 0 .. 4 * W <=> x \in Nat /\ x <= 262144
<1>1. 4 * W = 262144
  BY WordSize, SMT
<1>. QED
  BY <1>1, SMT

-----------------------------------------------------------------------------
(* Checksums.                                                              *)

\* One turn of the loop.
LEMMA CarryStep ==
    ASSUME NEW s \in Nat
    PROVE  /\ s \div 65536 \in Nat /\ s % 65536 \in Nat
           /\ s % 65536 < 65536
           /\ s % 65536 = s - 65536 * (s \div 65536)
           /\ Carry(s) = (s \div 65536) + (s % 65536)
<1>1. s \div 65536 \in Nat /\ s % 65536 \in Nat
  BY SMT
<1>2. s % 65536 < 65536
  BY SMT
<1>3. s % 65536 = s - 65536 * (s \div 65536)
  BY SMT
<1>4. Carry(s) = (s \div 65536) + (s % 65536)
  BY SMT DEF Carry, W
<1>. QED
  BY <1>1, <1>2, <1>3, <1>4, SMT

\* How often the two turns take off 0xffff.
Turns(s) == (s \div 65536) + (Carry(s) \div 65536)

\* A sum below 14 * 2^16, which no sum of words here reaches, is folded into a
\* word that is equal to it modulo 0xffff, and 0 only if the sum is.
LEMMA FoldedSum ==
    ASSUME NEW s \in Nat, s < 917504
    PROVE  /\ Folded(s) \in Nat /\ Turns(s) \in Nat
           /\ Folded(s) = s - 65535 * Turns(s)
           /\ Folded(s) <= 65535
           /\ s > 0 => Folded(s) > 0
<1>1. PICK q \in Nat : q = s \div 65536
  BY SMT
<1>2. PICK r \in Nat : r = s % 65536
  BY SMT
<1>3. r < 65536 /\ s - 65536 * q = r /\ Carry(s) = q + r
  BY <1>1, <1>2, CarryStep, SMT
<1>4. PICK t \in Nat : t = q + r
  BY SMT
<1>5. PICK p \in Nat : p = t \div 65536
  BY SMT
<1>6. PICK v \in Nat : v = t % 65536
  BY SMT
<1>7. v < 65536 /\ t - 65536 * p = v /\ Carry(t) = p + v
  <2>1. /\ t % 65536 < 65536 /\ t % 65536 = t - 65536 * (t \div 65536)
        /\ Carry(t) = (t \div 65536) + (t % 65536)
    BY ONLY t \in Nat, CarryStep, SMT
  <2>. QED
    BY <1>5, <1>6, <2>1, SMT
<1>8. Folded(s) = p + v /\ Turns(s) = q + p
  BY <1>1, <1>3, <1>4, <1>5, <1>7, SMT DEF Folded, Turns
<1>9. p + v <= 65535
  BY <1>3, <1>4, <1>7, SMT
<1>10. p + v = s - 65535 * (q + p)
  BY <1>3, <1>4, <1>7, SMT
<1>11. s > 0 => p + v > 0
  BY <1>3, <1>4, <1>7, SMT
<1>. QED
  BY <1>8, <1>9, <1>10, <1>11, SMT

\* The complement that cksum returns.
LEMMA CksumValue ==
    ASSUME NEW s \in Nat, NEW u \in Nat, Folded(s) = u, u <= 65535
    PROVE  Cksum(s) = IF u = 65535 THEN 65535 ELSE 65535 - u
<1>. QED
  BY SMT DEF Cksum, W

\* cksum gives a word that verifies, and it is never 0.
LEMMA CksumVerifies ==
    ASSUME NEW s \in Nat, 0 < s, s < 851968
    PROVE  \E c \in Nat :
              /\ c = Cksum(s) /\ c > 0 /\ c < 65536
              /\ Verifies(s, c)
<1>1. PICK u \in Nat, j \in Nat :
         Folded(s) = u /\ u = s - 65535 * j /\ u <= 65535 /\ (s > 0 => u > 0)
  <2>1. s < 917504
    BY SMT
  <2>2. /\ Folded(s) \in Nat /\ Turns(s) \in Nat
        /\ Folded(s) = s - 65535 * Turns(s)
        /\ Folded(s) <= 65535 /\ (s > 0 => Folded(s) > 0)
    BY ONLY s \in Nat, <2>1, FoldedSum, SMT
  <2>. QED
    BY <2>2, SMT
<1>2. PICK c \in Nat : c = IF u = 65535 THEN 65535 ELSE 65535 - u
  <2>1. (IF u = 65535 THEN 65535 ELSE 65535 - u) \in Nat
    BY <1>1, SMT
  <2>. QED
    BY <2>1, SMT
<1>3. c = Cksum(s) /\ c > 0 /\ c < 65536
  BY <1>1, <1>2, CksumValue, SMT
<1>4. PICK t \in Nat : t = s + c
  BY SMT
<1>5. PICK v \in Nat, k \in Nat :
         Folded(t) = v /\ v = t - 65535 * k /\ v <= 65535 /\ (t > 0 => v > 0)
  <2>1. t < 917504
    BY <1>3, <1>4, SMT
  <2>2. /\ Folded(t) \in Nat /\ Turns(t) \in Nat
        /\ Folded(t) = t - 65535 * Turns(t)
        /\ Folded(t) <= 65535 /\ (t > 0 => Folded(t) > 0)
    BY ONLY t \in Nat, <2>1, FoldedSum, SMT
  <2>. QED
    BY <2>2, SMT
<1>6. v = 65535
  BY <1>1, <1>2, <1>4, <1>5, SMT
<1>7. Folded(s + c) = W - 1
  BY <1>4, <1>5, <1>6, WordSize, SMT
<1>. QED
  BY <1>3, <1>7, SMT DEF Verifies

\* A word that verifies is the one cksum gives, or 0 where cksum has 0xffff.
LEMMA VerifyingIsCksum ==
    ASSUME NEW s \in Nat, 0 < s, s < 851968, NEW c \in Nat, c < 65536, Verifies(s, c)
    PROVE  c = Cksum(s) \/ c = 0
<1>1. PICK u \in Nat, j \in Nat :
         Folded(s) = u /\ u = s - 65535 * j /\ u <= 65535 /\ (s > 0 => u > 0)
  <2>1. s < 917504
    BY SMT
  <2>2. /\ Folded(s) \in Nat /\ Turns(s) \in Nat
        /\ Folded(s) = s - 65535 * Turns(s)
        /\ Folded(s) <= 65535 /\ (s > 0 => Folded(s) > 0)
    BY ONLY s \in Nat, <2>1, FoldedSum, SMT
  <2>. QED
    BY <2>2, SMT
<1>2. PICK t \in Nat : t = s + c
  BY SMT
<1>3. PICK v \in Nat, k \in Nat :
         Folded(t) = v /\ v = t - 65535 * k /\ v <= 65535 /\ (t > 0 => v > 0)
  <2>1. t < 917504
    BY <1>2, SMT
  <2>2. /\ Folded(t) \in Nat /\ Turns(t) \in Nat
        /\ Folded(t) = t - 65535 * Turns(t)
        /\ Folded(t) <= 65535 /\ (t > 0 => Folded(t) > 0)
    BY ONLY t \in Nat, <2>1, FoldedSum, SMT
  <2>. QED
    BY <2>2, SMT
<1>4. v = 65535
  BY <1>2, <1>3, WordSize, SMT DEF Verifies
<1>5. c = 0 \/ c = 65535 - u \/ (c = 65535 /\ u = 65535)
  BY <1>1, <1>2, <1>3, <1>4, SMT
<1>. QED
  BY <1>1, <1>5, CksumValue, SMT

-----------------------------------------------------------------------------
(* Headers.                                                                *)

LEMMA HeaderFields ==
    ASSUME NEW h \in Header
    PROVE  /\ h.len \in Nat /\ h.len < 65536
           /\ h.ttl \in Nat /\ h.ttl < 256
           /\ h.p \in Nat /\ h.p > 0 /\ h.p < 18
           /\ h.addr \in Nat /\ h.addr <= 262144
           /\ h.rest \in Nat /\ h.rest <= 262144
           /\ h.sum \in Nat /\ h.sum < 65536
<1>1. /\ h.len \in 0 .. W - 1 /\ h.ttl \in 0 .. 255 /\ h.p \in {ICMP, UDP}
      /\ h.addr \in Addrs /\ h.rest \in Rests /\ h.sum \in 0 .. W - 1
  BY SMT DEF Header
<1>2. h.addr \in 0 .. 4 * W /\ h.rest \in 0 .. 4 * W
  BY <1>1, HeaderAssumption, Zenon
<1>3. h.p \in Nat /\ h.p > 0 /\ h.p < 18
  BY <1>1, SMT DEF ICMP, UDP
<1>4. h.ttl \in Nat /\ h.ttl < 256
  BY <1>1, SMT
<1>. QED
  BY <1>1, <1>2, <1>3, <1>4, WordRange, SumRange, SMT

\* The sum of a header is far below what two carries fold, and not 0.
LEMMA WordsBounded ==
    ASSUME NEW h \in Header
    PROVE  Words(h) \in Nat /\ 0 < Words(h) /\ Words(h) < 655360
<1>1. PICK l \in Nat : l = h.len /\ l < 65536
  BY HeaderFields, SMT
<1>2. PICK t \in Nat : t = h.ttl /\ t < 256
  BY HeaderFields, SMT
<1>3. PICK p \in Nat : p = h.p /\ p > 0 /\ p < 18
  BY HeaderFields, SMT
<1>4. PICK a \in Nat : a = h.addr /\ a <= 262144
  BY HeaderFields, SMT
<1>5. PICK r \in Nat : r = h.rest /\ r <= 262144
  BY HeaderFields, SMT
<1>6. Words(h) = l + t * 256 + p + a + r
  BY <1>1, <1>2, <1>3, <1>4, <1>5, SMT DEF Words
<1>. QED
  BY <1>1, <1>2, <1>3, <1>4, <1>5, <1>6, SMT

\* ip_sum = cksum(...) makes a header that verifies.
LEMMA ResummedVerifies ==
    ASSUME NEW h \in Header
    PROVE  /\ Resummed(h) \in Header
           /\ Resummed(h).sum = Cksum(Words(Resummed(h)))
           /\ Verifies(Words(Resummed(h)), Resummed(h).sum)
           /\ Resummed(h).len = h.len /\ Resummed(h).ttl = h.ttl
<1>1. PICK w \in Nat : w = Words(h) /\ 0 < w /\ w < 655360
  BY WordsBounded, SMT
<1>2. PICK c \in Nat : c = Cksum(w) /\ c > 0 /\ c < 65536 /\ Verifies(w, c)
  <2>1. w < 851968
    BY <1>1, SMT
  <2>. QED
    BY ONLY w \in Nat, <1>1, <2>1, CksumVerifies, SMT
<1>3. Resummed(h) = [h EXCEPT !.sum = c]
  BY <1>1, <1>2, SMT DEF Resummed
<1>4. c \in 0 .. W - 1
  BY <1>2, WordRange, SMT
<1>. HIDE DEF Resummed
<1>5. /\ Resummed(h) \in Header /\ Resummed(h).sum = c
      /\ Resummed(h).len = h.len /\ Resummed(h).ttl = h.ttl
      /\ Resummed(h).p = h.p /\ Resummed(h).addr = h.addr /\ Resummed(h).rest = h.rest
  BY <1>3, <1>4, SMT DEF Header
<1>6. Words(Resummed(h)) = Words(h)
  BY <1>5, SMT DEF Words
<1>. QED
  BY <1>1, <1>2, <1>5, <1>6, SMT

\* What validate_ip accepts verifies ...
LEMMA AcceptedVerifies ==
    ASSUME NEW h \in Header, ValidateIp(h)
    PROVE  Verifies(Words(h), h.sum)
<1>1. PICK w \in Nat : w = Words(h) /\ 0 < w /\ w < 655360
  BY WordsBounded, SMT
<1>2. PICK c \in Nat : c = Cksum(w) /\ c > 0 /\ c < 65536 /\ Verifies(w, c)
  <2>1. w < 851968
    BY <1>1, SMT
  <2>. QED
    BY ONLY w \in Nat, <1>1, <2>1, CksumVerifies, SMT
<1>. QED
  BY <1>1, <1>2, SMT DEF ValidateIp

\* ... and what verifies is accepted, if it is long enough and its checksum is
\* not 0.
LEMMA VerifyingAccepted ==
    ASSUME NEW h \in Header, Verifies(Words(h), h.sum), ~ ValidateIp(h)
    PROVE  h.sum = 0 \/ HostOrder(h.len) < IP_HDR_SIZE
<1>1. PICK w \in Nat : w = Words(h) /\ 0 < w /\ w < 655360
  BY WordsBounded, SMT
<1>2. PICK c \in Nat : c = h.sum /\ c < 65536
  BY HeaderFields, SMT
<1>3. c = Cksum(w) \/ c = 0
  <2>1. w < 851968 /\ Verifies(w, c)
    BY <1>1, <1>2, SMT
  <2>. QED
    BY ONLY w \in Nat, c \in Nat, <1>1, <1>2, <2>1, VerifyingIsCksum, SMT
<1>4. HostOrder(h.len) \in Int
  BY HeaderFields, SMT DEF HostOrder
<1>. QED
  BY <1>1, <1>2, <1>3, <1>4, SMT DEF ValidateIp, IP_HDR_SIZE

\* A header with fields changed is a header.
LEMMA TtlChanged ==
    ASSUME NEW h \in Header, NEW t \in 0 .. 255
    PROVE  [h EXCEPT !.ttl = t] \in Header /\ [h EXCEPT !.ttl = t].len = h.len
<1>. QED
  BY SMT DEF Header

LEMMA SumChanged ==
    ASSUME NEW h \in Header, NEW c \in 0 .. W - 1
    PROVE  [h EXCEPT !.sum = c] \in Header
<1>. QED
  BY SMT DEF Header

LEMMA FourChanged ==
    ASSUME NEW L, NEW T, NEW P, NEW A, NEW R, NEW S,
           NEW h \in [len : L, ttl : T, p : P, addr : A, rest : R, sum : S],
           NEW t \in T, NEW q \in P, NEW a \in A, NEW l \in L
    PROVE  LET g == [h EXCEPT !.ttl = t, !.p = q, !.addr = a, !.len = l] IN
           /\ g \in [len : L, ttl : T, p : P, addr : A, rest : R, sum : S]
           /\ g.len = l
<1>. DEFINE g == [h EXCEPT !.ttl = t, !.p = q, !.addr = a, !.len = l]
<1>1. DOMAIN h = {"len", "ttl", "p", "addr", "rest", "sum"}
  BY SMT
<1>2. DOMAIN g = DOMAIN h
  BY SMT
<1>3. g.len = l /\ g.ttl = t /\ g.p = q /\ g.addr = a /\ g.rest = h.rest /\ g.sum = h.sum
  BY <1>1, SMT
<1>4. h.rest \in R /\ h.sum \in S
  BY SMT
<1>5. g = [x \in DOMAIN g |-> g[x]]
  BY Zenon
<1>. HIDE DEF g
<1>6. g = [len |-> l, ttl |-> t, p |-> q, addr |-> a, rest |-> h.rest, sum |-> h.sum]
  BY <1>1, <1>2, <1>3, <1>5, SMT
<1>7. g \in [len : L, ttl : T, p : P, addr : A, rest : R, sum : S]
  BY <1>4, <1>6, SMT
<1>. QED
  BY <1>3, <1>7 DEF g

\* forward_ip_packet's decrement: the octet wraps, the checksum follows.
LEMMA AgedVerifies ==
    ASSUME NEW h \in Header
    PROVE  /\ AgedHeader(h) \in Header
           /\ AgedHeader(h).sum = Cksum(Words(AgedHeader(h)))
           /\ Verifies(Words(AgedHeader(h)), AgedHeader(h).sum)
           /\ AgedHeader(h).len = h.len
<1>1. PICK t \in Nat : t = h.ttl /\ t < 256
  BY HeaderFields, SMT
<1>2. PICK t2 \in 0 .. 255 : t2 = (t + 255) % 256
  <2>1. (t + 255) % 256 \in 0 .. 255
    BY SMT
  <2>. QED
    BY <2>1, Zenon
<1>3. PICK g \in Header : g = [h EXCEPT !.ttl = t2] /\ g.len = h.len
  BY TtlChanged, Zenon
<1>4. AgedHeader(h) = Resummed(g)
  BY <1>1, <1>2, <1>3, SMT DEF AgedHeader
<1>5. /\ Resummed(g) \in Header
      /\ Resummed(g).sum = Cksum(Words(Resummed(g)))
      /\ Verifies(Words(Resummed(g)), Resummed(g).sum)
      /\ Resummed(g).len = g.len
  BY ResummedVerifies, Zenon
<1>. QED
  BY <1>3, <1>4, <1>5, Zenon

\* send_icmp_error's header.
LEMMA RewrittenVerifies ==
    ASSUME NEW h \in Header, NEW a \in Addrs
    PROVE  /\ RewrittenHeader(h, a) \in Header
           /\ RewrittenHeader(h, a).sum = Cksum(Words(RewrittenHeader(h, a)))
           /\ Verifies(Words(RewrittenHeader(h, a)), RewrittenHeader(h, a).sum)
           /\ RewrittenHeader(h, a).len = ERROR_LEN
<1>1. 64 \in 0 .. 255
  BY SMT
<1>2. ERROR_LEN \in 0 .. W - 1
  BY WordRange, SMT DEF ERROR_LEN
<1>. DEFINE g == [h EXCEPT !.ttl = 64, !.p = ICMP, !.addr = a, !.len = ERROR_LEN]
<1>3. g \in Header /\ g.len = ERROR_LEN
  <2>1. ICMP \in {ICMP, UDP}
    OBVIOUS
  <2>. QED
    BY <1>1, <1>2, <2>1, FourChanged, Zenon DEF Header
<1>4. RewrittenHeader(h, a) = Resummed(g)
  BY SMT DEF RewrittenHeader
<1>. HIDE DEF g
<1>5. /\ Resummed(g) \in Header
      /\ Resummed(g).sum = Cksum(Words(Resummed(g)))
      /\ Verifies(Words(Resummed(g)), Resummed(g).sum)
      /\ Resummed(g).len = g.len
  BY <1>3, ResummedVerifies, Zenon
<1>. QED
  BY <1>3, <1>4, <1>5, Zenon

\* Its length is large enough in either byte order.
LEMMA ErrorLongEnough == HostOrder(ERROR_LEN) >= IP_HDR_SIZE
<1>1. 56 % 256 = 56 /\ 56 \div 256 = 0
  BY SMT
<1>. QED
  BY <1>1, SMT DEF HostOrder, ERROR_LEN, IP_HDR_SIZE

\* The checksum a host computes is a word, and stays one when it is damaged.
LEMMA HostCksumType ==
    ASSUME NEW s \in Nat, s < 917504
    PROVE  HostCksum(s) \in 0 .. W - 1
<1>1. Folded(s) \in Nat /\ Folded(s) <= 65535
  BY FoldedSum, SMT
<1>2. PICK u \in Nat : u = Folded(s) /\ u <= 65535
  BY <1>1, SMT
<1>3. HostCksum(s) = 65535 - u
  BY <1>2, WordSize, SMT DEF HostCksum
<1>. QED
  BY <1>2, <1>3, WordRange, SMT

LEMMA DamagedType ==
    ASSUME NEW h \in Header
    PROVE  Damaged(h) \in Header
<1>1. PICK c \in Nat : c = h.sum
  BY HeaderFields, SMT
<1>2. (c + 1) % 65536 \in Nat /\ (c + 1) % 65536 < 65536
  BY SMT
<1>3. PICK d \in 0 .. W - 1 : d = (c + 1) % W
  <2>1. (c + 1) % W = (c + 1) % 65536
    BY WordSize, SMT
  <2>2. (c + 1) % W \in 0 .. W - 1
    BY <1>2, <2>1, WordRange, SMT
  <2>. QED
    BY <2>2, Zenon
<1>4. Damaged(h) = [h EXCEPT !.sum = d]
  BY <1>1, <1>3, SMT DEF Damaged
<1>. QED
  BY <1>3, <1>4, SMT DEF Header

LEMMA HostHeaderType ==
    ASSUME NEW l \in Lens, NEW t \in Ttls, NEW p \in {ICMP, UDP},
           NEW a \in Addrs, NEW r \in Rests
    PROVE  HostHeader(l, t, p, a, r) \in Header
<1>. DEFINE h == [len |-> l, ttl |-> t, p |-> p, addr |-> a, rest |-> r, sum |-> 0]
<1>1. l \in 0 .. W - 1 /\ t \in 0 .. 255
  BY HeaderAssumption, Zenon
<1>2. 0 \in 0 .. W - 1
  BY WordRange, SMT
<1>3. h \in Header
  BY <1>1, <1>2, SMT DEF Header
<1>4. HostHeader(l, t, p, a, r) = [h EXCEPT !.sum = HostCksum(Words(h))]
  BY Zenon DEF HostHeader
<1>. HIDE DEF h
<1>5. PICK w \in Nat : w = Words(h) /\ w < 917504
  <2>1. Words(h) \in Nat /\ Words(h) < 655360
    BY <1>3, WordsBounded, SMT
  <2>. QED
    BY <2>1, SMT
<1>6. HostCksum(w) \in 0 .. W - 1
  BY ONLY w \in Nat, <1>5, HostCksumType, SMT
<1>7. HostCksum(Words(h)) \in 0 .. W - 1
  BY <1>5, <1>6, SMT
<1>. QED
  BY <1>3, <1>4, <1>7, SumChanged, Zenon

\* The checksum of an ICMP error verifies.
LEMMA IcmpErrorVerifies ==
    ASSUME NEW h \in Header, NEW d \in Payloads,
           NEW type \in {3, 11}, NEW code \in {0, 3}
    PROVE  LET m == ErrorMessage(type, code, h, d) IN
           m.sum \in 0 .. W - 1 /\ Verifies(m.head + m.data, m.sum)
<1>1. PICK w \in Nat : w = Words(h) /\ 0 < w /\ w < 655360
  BY WordsBounded, SMT
<1>2. PICK c \in Nat : c = h.sum /\ c < 65536
  BY HeaderFields, SMT
<1>3. d \in Nat /\ d < 65536
  <2>1. d \in 1 .. W - 1
    BY HeaderAssumption, Zenon
  <2>2. d \in 0 .. W - 1
    <3>1. d \in Int /\ 0 <= d /\ d <= W - 1
      BY <2>1, SMT
    <3>2. W - 1 = 65535
      BY WordSize, SMT
    <3>3. d \in Nat /\ d < 65536
      BY <3>1, <3>2, SMT
    <3>. QED
      BY <3>3, WordRange, SMT
  <2>. QED
    BY <2>2, WordRange, SMT
<1>4. PICK n \in Nat : n = type * 256 + code /\ n < 2820
  BY SMT
<1>5. PICK s \in Nat : s = n + (w + c + d) /\ 0 < s /\ s < 851968
  BY <1>1, <1>2, <1>3, <1>4, SMT
<1>6. PICK k \in Nat : k = Cksum(s) /\ k > 0 /\ k < 65536 /\ Verifies(s, k)
  BY ONLY s \in Nat, <1>5, CksumVerifies, SMT
<1>7. ErrorMessage(type, code, h, d) = [head |-> n, data |-> w + c + d, sum |-> k]
  BY <1>1, <1>2, <1>3, <1>4, <1>5, <1>6, SMT DEF ErrorMessage
<1>8. k \in 0 .. W - 1
  BY <1>6, WordRange, SMT
<1>. QED
  BY <1>5, <1>6, <1>7, <1>8, SMT

-----------------------------------------------------------------------------
(* The routers on the way.                                                 *)

\* What a router that has accepted the datagram at leaves behind.
LEMMA PassedOn ==
    ASSUME HeadersTyped, Arrive, ValidateIp(at), did' \in Left,
           at' \in Header, at'.sum = Cksum(Words(at')),
           Verifies(Words(at'), at'.sum),
           at'.len = at.len \/ at'.len = ERROR_LEN,
           icmp' = NoDatagram \/ icmp'.sum \in 0 .. W - 1,
           ErrorVerifies'
    PROVE  (ChecksumsDecide /\ WrittenVerifies)'
<1>1. at \in Header /\ got' = at /\ hops < MaxHops /\ hops' = hops + 1
  BY SMT DEF HeadersTyped, Arrive
<1>2. Verifies(Words(at), at.sum)
  BY <1>1, AcceptedVerifies, Zenon
<1>3. HostOrder(at'.len) >= IP_HDR_SIZE
  BY ErrorLongEnough, SMT DEF ValidateIp
<1>4. hops' \in 0 .. MaxHops
  BY <1>1, HeaderAssumption, SMT DEF HeadersTyped
<1>5. HeadersTyped'
  BY <1>1, <1>4, Zenon DEF HeadersTyped, Left
<1>6. OutputVerifies'
  BY <1>3, Zenon DEF OutputVerifies, ValidateIp
<1>7. DamageStopped'
  BY <1>1, <1>2, Zenon DEF DamageStopped
<1>8. did' # "rejected"
  BY SMT DEF Left
<1>9. GoodChecksumAccepted'
  BY <1>8, Zenon DEF GoodChecksumAccepted
<1>. QED
  BY <1>5, <1>6, <1>7, <1>9, Zenon DEF ChecksumsDecide, WrittenVerifies

LEMMA ForwardPasses ==
    ASSUME HeadersTyped, Forward
    PROVE  (ChecksumsDecide /\ WrittenVerifies)'
<1>1. /\ Arrive /\ ValidateIp(at) /\ at' = AgedHeader(at)
      /\ icmp' = NoDatagram /\ did' = "forwarded"
  BY Zenon DEF Forward
<1>2. at \in Header
  BY <1>1, Zenon DEF HeadersTyped, Arrive
<1>3. did' \in Left /\ did' \notin {"expired", "unreachable"}
  BY <1>1, SMT DEF Left
<1>4. ErrorVerifies'
  BY <1>3, Zenon DEF ErrorVerifies
<1>5. /\ AgedHeader(at) \in Header /\ AgedHeader(at).sum = Cksum(Words(AgedHeader(at)))
      /\ Verifies(Words(AgedHeader(at)), AgedHeader(at).sum) /\ AgedHeader(at).len = at.len
  BY <1>2, AgedVerifies, Zenon
<1>. QED
  BY <1>1, <1>3, <1>4, <1>5, PassedOn, Zenon

LEMMA ExpirePasses ==
    ASSUME HeadersTyped, NEW a \in Addrs, NEW d \in Payloads, RunOut(a, d)
    PROVE  (ChecksumsDecide /\ WrittenVerifies)'
<1>1. /\ Arrive /\ ValidateIp(at) /\ at' = RewrittenHeader(AgedHeader(at), a)
      /\ icmp' = ErrorMessage(11, 0, AgedHeader(at), d) /\ did' = "expired"
  BY Zenon DEF RunOut
<1>2. at \in Header
  BY <1>1, Zenon DEF HeadersTyped, Arrive
<1>3. did' \in Left
  BY <1>1, SMT DEF Left
<1>4. AgedHeader(at) \in Header
  BY <1>2, AgedVerifies, Zenon
<1>5. 11 \in {3, 11} /\ 0 \in {0, 3}
  BY SMT
<1>6. icmp'.sum \in 0 .. W - 1 /\ Verifies(icmp'.head + icmp'.data, icmp'.sum)
  BY <1>1, <1>4, <1>5, IcmpErrorVerifies, Zenon
<1>7. ErrorVerifies'
  BY <1>6, Zenon DEF ErrorVerifies
<1>8. /\ at' \in Header /\ at'.sum = Cksum(Words(at'))
      /\ Verifies(Words(at'), at'.sum) /\ at'.len = ERROR_LEN
  BY <1>1, <1>4, RewrittenVerifies, Zenon
<1>. QED
  BY <1>1, <1>3, <1>6, <1>7, <1>8, PassedOn, Zenon

LEMMA AnswerPasses ==
    ASSUME HeadersTyped, NEW a \in Addrs, NEW d \in Payloads, Answer(a, d)
    PROVE  (ChecksumsDecide /\ WrittenVerifies)'
<1>1. Arrive /\ ValidateIp(at)
  BY Zenon DEF Answer
<1>2. at \in Header
  BY <1>1, Zenon DEF HeadersTyped, Arrive
<1>3. CASE at.p = ICMP
  <2>1. icmp' = EchoedMessage(EchoRequest(d)) /\ at' = Resummed(at) /\ did' = "echoed"
    BY <1>3, Zenon DEF Answer
  <2>2. did' \in Left /\ did' \notin {"expired", "unreachable"}
    BY <2>1, SMT DEF Left
  <2>3. ErrorVerifies'
    BY <2>2, Zenon DEF ErrorVerifies
  <2>4. icmp'.sum \in 0 .. W - 1
    <3>1. d \in 1 .. W - 1
      BY HeaderAssumption, Zenon
    <3>2. d \in Nat /\ d <= 65535
      <4>1. d \in Int /\ 1 <= d /\ d <= W - 1
        BY <3>1, SMT
      <4>2. W - 1 = 65535
        BY WordSize, SMT
      <4>. QED
        BY <4>1, <4>2, SMT
    <3>3. PICK s \in Nat : s = 8 * 256 + d /\ s < 917504
      BY <3>2, SMT
    <3>4. HostCksum(s) \in 0 .. W - 1
      BY ONLY s \in Nat, <3>3, HostCksumType, SMT
    <3>5. icmp'.sum = HostCksum(8 * 256 + d)
      BY <2>1, SMT DEF EchoedMessage, EchoRequest
    <3>. QED
      BY <3>3, <3>4, <3>5, SMT
  <2>5. /\ at' \in Header /\ at'.sum = Cksum(Words(at'))
        /\ Verifies(Words(at'), at'.sum) /\ at'.len = at.len
    BY <1>2, <2>1, ResummedVerifies, Zenon
  <2>. QED
    BY <1>1, <2>2, <2>3, <2>4, <2>5, PassedOn, Zenon
<1>4. CASE at.p # ICMP
  <2>1. /\ icmp' = ErrorMessage(3, 3, at, d) /\ at' = RewrittenHeader(at, a)
        /\ did' = "unreachable"
    BY <1>4, Zenon DEF Answer
  <2>2. did' \in Left
    BY <2>1, SMT DEF Left
  <2>3. 3 \in {3, 11} /\ 3 \in {0, 3}
    BY SMT
  <2>4. icmp'.sum \in 0 .. W - 1 /\ Verifies(icmp'.head + icmp'.data, icmp'.sum)
    BY <1>2, <2>1, <2>3, IcmpErrorVerifies, Zenon
  <2>5. ErrorVerifies'
    BY <2>4, Zenon DEF ErrorVerifies
  <2>6. /\ at' \in Header /\ at'.sum = Cksum(Words(at'))
        /\ Verifies(Words(at'), at'.sum) /\ at'.len = ERROR_LEN
    BY <1>2, <2>1, RewrittenVerifies, Zenon
  <2>. QED
    BY <1>1, <2>2, <2>4, <2>5, <2>6, PassedOn, Zenon
<1>. QED
  BY <1>3, <1>4

LEMMA RejectKeeps ==
    ASSUME HeadersTyped, Reject
    PROVE  (ChecksumsDecide /\ WrittenVerifies)'
<1>1. /\ at \in Header /\ got' = at /\ hops < MaxHops /\ hops' = hops + 1
      /\ ~ ValidateIp(at) /\ at' = NoDatagram /\ icmp' = NoDatagram /\ did' = "rejected"
  BY Zenon DEF HeadersTyped, Arrive, Reject
<1>2. hops' \in 0 .. MaxHops
  BY <1>1, HeaderAssumption, SMT DEF HeadersTyped
<1>3. did' \notin Left /\ did' \notin {"expired", "unreachable"}
  BY <1>1, SMT DEF Left
<1>4. HeadersTyped'
  BY <1>1, <1>2, Zenon DEF HeadersTyped
<1>5. GoodChecksumAccepted'
  BY <1>1, VerifyingAccepted, Zenon DEF GoodChecksumAccepted
<1>. QED
  BY <1>3, <1>4, <1>5, Zenon
     DEF ChecksumsDecide, WrittenVerifies, DamageStopped, OutputVerifies, ErrorVerifies

LEMMA OriginateKeeps ==
    ASSUME HeadersTyped, NEW h \in Header, Originate(h)
    PROVE  (ChecksumsDecide /\ WrittenVerifies)'
<1>1. /\ at' \in {h, Damaged(h)} /\ did' = "sent" /\ UNCHANGED <<got, icmp, hops>>
  BY Zenon DEF Originate
<1>2. at' \in Header
  BY <1>1, DamagedType, Zenon
<1>3. did' \notin Left /\ did' \notin {"expired", "unreachable"} /\ did' # "rejected"
  BY <1>1, SMT DEF Left
<1>4. got' = got /\ icmp' = icmp /\ hops' = hops
  BY <1>1, Zenon
<1>5. HeadersTyped'
  BY <1>1, <1>2, <1>4, Zenon DEF HeadersTyped
<1>. QED
  BY <1>3, <1>5, Zenon
     DEF ChecksumsDecide, WrittenVerifies, DamageStopped, OutputVerifies, ErrorVerifies,
         GoodChecksumAccepted

LEMMA InitVerifies == HeaderInit => ChecksumsDecide /\ WrittenVerifies
<1>. SUFFICES ASSUME HeaderInit
              PROVE  ChecksumsDecide /\ WrittenVerifies
  OBVIOUS
<1>1. /\ did = "nothing" /\ hops = 0
      /\ at = NoDatagram /\ got = NoDatagram /\ icmp = NoDatagram
  BY Zenon DEF HeaderInit
<1>2. did \notin Left /\ did \notin {"expired", "unreachable"} /\ did # "rejected"
  BY <1>1, SMT DEF Left
<1>3. hops \in 0 .. MaxHops
  BY <1>1, HeaderAssumption, SMT
<1>4. HeadersTyped
  BY <1>1, <1>3, Zenon DEF HeadersTyped
<1>. QED
  BY <1>2, <1>4, Zenon
     DEF ChecksumsDecide, WrittenVerifies, DamageStopped, OutputVerifies, ErrorVerifies,
         GoodChecksumAccepted

LEMMA StepVerifies ==
    ChecksumsDecide /\ WrittenVerifies /\ [HeaderNext]_headerVars
        => (ChecksumsDecide /\ WrittenVerifies)'
<1>. SUFFICES ASSUME ChecksumsDecide, WrittenVerifies, [HeaderNext]_headerVars
              PROVE  (ChecksumsDecide /\ WrittenVerifies)'
  OBVIOUS
<1>1. HeadersTyped
  BY Zenon DEF WrittenVerifies
<1>2. ASSUME NEW l \in Lens, NEW t \in Ttls, NEW p \in {ICMP, UDP},
             NEW a \in Addrs, NEW r \in Rests,
             Originate(HostHeader(l, t, p, a, r))
      PROVE  (ChecksumsDecide /\ WrittenVerifies)'
  BY <1>1, <1>2, HostHeaderType, OriginateKeeps, Zenon
<1>3. CASE Reject
  BY <1>1, <1>3, RejectKeeps, Zenon
<1>4. CASE Forward
  BY <1>1, <1>4, ForwardPasses, Zenon
<1>5. ASSUME NEW a \in Addrs, NEW d \in Payloads, RunOut(a, d) \/ Answer(a, d)
      PROVE  (ChecksumsDecide /\ WrittenVerifies)'
  BY <1>1, <1>5, ExpirePasses, AnswerPasses, Zenon
<1>6. CASE UNCHANGED headerVars
  <2>1. at' = at /\ got' = got /\ icmp' = icmp /\ did' = did /\ hops' = hops
    BY <1>6, Zenon DEF headerVars
  <2>. QED
    BY <2>1, Zenon
       DEF ChecksumsDecide, WrittenVerifies, HeadersTyped, DamageStopped, OutputVerifies,
           ErrorVerifies, GoodChecksumAccepted
<1>. QED
  BY <1>2, <1>3, <1>4, <1>5, <1>6, Zenon DEF HeaderNext

\* For every header, payload and number of hops, validate_ip lets exactly the
\* headers through whose checksum verifies, 0 for 0xffff apart.
THEOREM ChecksumsAlwaysDecide == HeaderSpec => []ChecksumsDecide
<1>. QED
  BY InitVerifies, StepVerifies, PTL DEF HeaderSpec

\* Every header and every ICMP error the router writes has a checksum that
\* verifies by the Internet rules, and the next router accepts the header.
THEOREM WrittenAlwaysVerifies == HeaderSpec => []WrittenVerifies
<1>. QED
  BY InitVerifies, StepVerifies, PTL DEF HeaderSpec
=============================================================================
