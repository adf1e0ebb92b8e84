------------------------------- MODULE Router -------------------------------
(***************************************************************************)
(* What the simple router does with a frame (router/sr_router.c), from     *)
(* sr_read_from_server's hand-over to the frames that sr_send_packet puts  *)
(* on the wire or refuses (router/sr_vns_comm.c).                          *)
(*                                                                         *)
(* One action handles one frame.  The ARP cache and its request list are   *)
(* taken at the level of ArpResolver (known, waiting) with the number of   *)
(* requests sent; ArpCache shows that the two threads implement that       *)
(* level.  What stays visible here of the threads is the loop of           *)
(* handle_arpreq that never ends: the sweeper runs it holding the mutex,   *)
(* the packet loop runs it without.                                        *)
(*                                                                         *)
(* A frame is a record.  kind "ip": dhost, shost, src, dst, ttl, proto,    *)
(* ok (validate_ip accepts it; see IpHeader) and body, which tells the     *)
(* payload it came with from the messages the router writes.  kind "arp":  *)
(* dhost, shost, op, sip, sha, tip.  ARP's ar_tha is never read.           *)
(***************************************************************************)
EXTENDS Integers, Sequences, FiniteSets

CONSTANTS
    IP,           \* all IP addresses
    IfList,       \* sr->if_list: sequence of [name, mac, ip]
    RT,           \* sr->routing_table: sequence of [dest, covers, iface];
                  \* covers is the set of addresses the mask lets match
    DefaultIf,    \* the interface check_route falls back to, "eth3"
    HostMac,      \* the MAC of every host address on the attached links
    HostIf,       \* the interface each of these hosts is attached to
    Bcast, Zero,  \* ff:ff:ff:ff:ff:ff and 00:00:00:00:00:00
    Frame,        \* the frames these hosts send
    MAX_TRIES,    \* ARP requests before giving up (5 in the code)
    MaxQueue,     \* bound: packets that wait for one address
    Null

Names == {IfList[i].name : i \in DOMAIN IfList}
RouterMacs == {IfList[i].mac : i \in DOMAIN IfList}
RouterIps == {IfList[i].ip : i \in DOMAIN IfList}
HostIps == DOMAIN HostMac

EtherAddr == RouterMacs \cup {HostMac[h] : h \in HostIps} \cup {Bcast, Zero}

\* What a frame can look like.
IpFrame == [kind : {"ip"}, dhost : EtherAddr, shost : EtherAddr,
            src : IP, dst : IP, ttl : 0 .. 255,
            proto : {"icmp", "udp", "other"}, ok : BOOLEAN, body : {"data"}]
ArpFrame == [kind : {"arp"}, dhost : EtherAddr, shost : EtherAddr,
             op : {"request", "reply", "other"}, sip : IP, sha : EtherAddr,
             tip : IP]
OtherFrame == [kind : {"other"}, dhost : EtherAddr, shost : EtherAddr]

ASSUME IfAssumption ==
    /\ DefaultIf \in Names
    /\ 1 \in DOMAIN IfList
    /\ \A i, j \in DOMAIN IfList : IfList[i].name = IfList[j].name => i = j
\* sr_verify_routing_table: every route names an interface.
ASSUME RtAssumption ==
    /\ DOMAIN RT \subseteq Nat
    /\ \A i \in DOMAIN RT : RT[i].iface \in Names
\* The addresses are addresses, and every host is on one of the links.
ASSUME AddressAssumption ==
    /\ RouterIps \subseteq IP /\ HostIps \subseteq IP
    /\ HostIf \in [HostIps -> Names]
    /\ Null \notin IP /\ Null \notin EtherAddr /\ Null \notin Frame
\* Hosts put their own MAC and address into the frames they send.
ASSUME FrameAssumption ==
    /\ Frame \subseteq IpFrame \cup ArpFrame \cup OtherFrame
    /\ \A f \in Frame : \E h \in HostIps :
          /\ f.shost = HostMac[h]
          /\ f.kind = "ip" => f.src = h
          /\ f.kind = "arp" => f.sip = h /\ f.sha = f.shost
ASSUME BoundAssumption == MAX_TRIES \in Nat /\ MaxQueue \in Nat

VARIABLES
    known,     \* the MAC cached for an address, or Null
    waiting,   \* for each address the queued [frame, iface], newest first
    tries,     \* ARP requests sent for the queued request of an address
    loop,      \* the address a thread reports unreachable for ever, or Null
    blocked,   \* the packet loop waits for the mutex for ever
    in,        \* the frame the last step handled, or Null
    out        \* what the last step gave to sr_send_packet

vars == <<known, waiting, tries, loop, blocked, in, out>>
resolver == <<known, waiting, tries, loop, blocked>>

-----------------------------------------------------------------------------
(* Interfaces, routes and sending.                                         *)

\* sr_get_interface
Iface(name) == IfList[CHOOSE i \in DOMAIN IfList : IfList[i].name = name]

\* sr_send_packet: sr_ether_addrs_match_interface refuses a frame whose
\* source is not the address of the interface.
Send(f, name) ==
    [frame |-> f, iface |-> name, accepted |-> f.shost = Iface(name).mac]

Exact(dst) == {i \in DOMAIN RT : RT[i].dest = dst}
First(S) == CHOOSE i \in S : \A j \in S : i <= j

CheckRouteByMask(dst) ==
    LET S == {i \in DOMAIN RT : dst \in RT[i].covers}
    IN  IF S # {} THEN RT[First(S)].iface ELSE DefaultIf

\* check_route: the first entry whose destination is the address itself, or
\* else the default interface; mask and gateway are not looked at.
CheckRoute(dst) ==
    IF Exact(dst) # {} THEN RT[First(Exact(dst))].iface ELSE DefaultIf

\* sr_arp_req_not_for_us, asked before the router sees the frame
ArpReqNotForUs(f, name) ==
    f.kind = "arp" /\ f.op = "request" /\ f.tip # Iface(name).ip

\* check_ethernet
CheckEthernet(f) == f.dhost \in RouterMacs \cup {Bcast}

-----------------------------------------------------------------------------
(* The messages the router writes.                                         *)

IcmpErrorFirstIf(f, name, body) ==
    [f EXCEPT !.dhost = f.shost, !.shost = IfList[1].mac,
              !.src = IfList[1].ip, !.dst = f.src, !.ttl = 64,
              !.proto = "icmp", !.body = body]

\* send_icmp_error: the frame it sends ...
IcmpError(f, name, body) ==
    [f EXCEPT !.dhost = f.shost, !.shost = Iface(name).mac,
              !.src = Iface(name).ip, !.dst = f.src, !.ttl = 64,
              !.proto = "icmp", !.body = body]

\* ... and what it makes of the header of the frame it is about, in place.
Rewritten(f, name) ==
    [f EXCEPT !.src = Iface(name).ip, !.dst = f.src, !.ttl = 64,
              !.proto = "icmp"]

\* reply_to_icmp_request: the source MAC is that of the first interface.
EchoReply(f) ==
    [f EXCEPT !.dhost = f.shost, !.shost = IfList[1].mac,
              !.src = f.dst, !.dst = f.src, !.body = "echo_reply"]

\* reply_to_arp_request
ArpReply(f, name) ==
    [f EXCEPT !.dhost = f.shost, !.shost = Iface(name).mac, !.op = "reply",
              !.sip = f.tip, !.sha = Iface(name).mac, !.tip = f.sip]

\* send_arp_request for the datagram at the head of a packet list
ArpRequest(q) ==
    Send([kind |-> "arp", dhost |-> Bcast, shost |-> Iface(q.iface).mac,
          op |-> "request", sip |-> Iface(q.iface).ip,
          sha |-> Iface(q.iface).mac, tip |-> q.frame.dst], q.iface)

-----------------------------------------------------------------------------
(* Frames that arrive from the attached hosts.                             *)

\* A frame arrives on the interface its sender is attached to.
InboundIf(f) == HostIf[CHOOSE h \in HostIps : HostMac[h] = f.shost]

\* The packet loop takes a frame and hands it to the router.
Take(f) ==
    /\ loop["main"] = Null /\ ~blocked
    /\ in' = f

Handed(f) == CheckEthernet(f) /\ ~ArpReqNotForUs(f, InboundIf(f))
Locked == loop["sweeper"] # Null

Init ==
    /\ known = [a \in IP |-> Null]
    /\ waiting = [a \in IP |-> <<>>]
    /\ tries = [a \in IP |-> 0]
    /\ loop = [t \in {"main", "sweeper"} |-> Null]
    /\ blocked = FALSE
    /\ in = Null
    /\ out = <<>>

-----------------------------------------------------------------------------
(* Frames the router answers or drops without looking into the cache.      *)

\* An ARP request for the address of the interface it came in on.
DealArpRequest(f) ==
    /\ Take(f) /\ Handed(f)
    /\ f.kind = "arp" /\ f.op = "request"
    /\ out' = <<Send(ArpReply(f, InboundIf(f)), InboundIf(f))>>
    /\ UNCHANGED resolver

\* deal_ip for one of the router's own addresses.
ForMe(f) == f.kind = "ip" /\ f.ok /\ f.dst \in RouterIps

DealIpLocal(f) ==
    /\ Take(f) /\ Handed(f) /\ ForMe(f)
    /\ out' = CASE f.proto = "icmp" -> <<Send(EchoReply(f), InboundIf(f))>>
                [] f.proto = "udp" ->
                     <<Send(IcmpError(f, InboundIf(f), "port_unreachable"),
                            InboundIf(f))>>
                [] OTHER -> <<>>
    /\ UNCHANGED resolver

\* Everything that ends in an early return: not our MAC, an ARP request for
\* someone else, another ethertype or opcode, a header validate_ip rejects.
Drop(f) ==
    /\ Take(f)
    /\ \/ ~Handed(f)
       \/ f.kind = "other"
       \/ f.kind = "arp" /\ f.op = "other"
       \/ f.kind = "ip" /\ ~f.ok
    /\ out' = <<>>
    /\ UNCHANGED resolver

-----------------------------------------------------------------------------
(* Forwarding.                                                             *)

ToForward(f) == Handed(f) /\ f.kind = "ip" /\ f.ok /\ f.dst \notin RouterIps

\* ip_ttl-- on a uint8_t.  A TTL that becomes 0 is reported, and the datagram
\* is forwarded all the same, with the header send_icmp_error left behind.
Aged(f) == [f EXCEPT !.ttl = (@ + 255) % 256]
Expired(f) == Aged(f).ttl = 0
TimeExceeded(f) ==
    IF Expired(f)
      THEN <<Send(IcmpError(Aged(f), InboundIf(f), "time_exceeded"),
                  InboundIf(f))>>
      ELSE <<>>
Forwardable(f) ==
    IF Expired(f) THEN Rewritten(Aged(f), InboundIf(f)) ELSE Aged(f)
AddressedKeepingSource(f, dhost) == [Forwardable(f) EXCEPT !.dhost = dhost]
Addressed(f, dhost) ==
    [Forwardable(f) EXCEPT !.dhost = dhost,
                           !.shost = Iface(CheckRoute(Forwardable(f).dst)).mac]

ForwardKnownEarlyLookup(f) ==
    /\ Take(f) /\ ToForward(f) /\ ~Locked
    /\ known[f.dst] # Null
    /\ out' = TimeExceeded(f)
                \o <<Send(Addressed(f, known[f.dst]),
                         CheckRoute(Forwardable(f).dst))>>
    /\ UNCHANGED resolver

\* forward_ip_packet, the address is cached.
ForwardKnown(f) ==
    LET dst == Forwardable(f).dst IN
    /\ Take(f) /\ ToForward(f) /\ ~Locked
    /\ known[dst] # Null
    /\ out' = TimeExceeded(f)
                \o <<Send(Addressed(f, known[dst]), CheckRoute(dst))>>
    /\ UNCHANGED resolver

\* forward_ip_packet, the address is not cached: the datagram is queued and
\* handle_arpreq called.  A new request is asked for at once; an old one if
\* it was last asked a second ago or more (ask).
ForwardUnknown(f, ask) ==
    LET dst == Forwardable(f).dst
        q == [frame |-> Addressed(f, Zero), iface |-> CheckRoute(dst)]
        giveup == ask /\ tries[dst] >= MAX_TRIES
    IN
    /\ Take(f) /\ ToForward(f) /\ ~Locked
    /\ known[dst] = Null
    /\ Len(waiting[dst]) < MaxQueue
    /\ waiting[dst] = <<>> => ask
    /\ waiting' = [waiting EXCEPT ![dst] = <<q>> \o @]
    /\ loop' = IF giveup THEN [loop EXCEPT !["main"] = dst] ELSE loop
    /\ tries' = IF ask /\ ~giveup THEN [tries EXCEPT ![dst] = @ + 1] ELSE tries
    /\ out' = TimeExceeded(f)
                \o IF ask /\ ~giveup THEN <<ArpRequest(q)>> ELSE <<>>
    /\ UNCHANGED <<known, blocked>>

-----------------------------------------------------------------------------
(* ARP replies.                                                            *)

IsReply(f) == Handed(f) /\ f.kind = "arp" /\ f.op = "reply"

\* The address is cached: deal_arp passes the reply itself on, unchanged,
\* through an interface that check_route picks by reading the ARP body as an
\* IP header.
ArpReplyKnown(f) ==
    /\ Take(f) /\ IsReply(f) /\ ~Locked
    /\ known[f.sip] # Null
    /\ \E dst \in IP : out' = <<Send(f, CheckRoute(dst))>>
    /\ UNCHANGED resolver

\* The address is not cached: it is inserted if the table has room, the
\* request for it leaves the list and the packet at its head is sent to the
\* source of the reply.
ArpReplyNew(f, room) ==
    LET q == waiting[f.sip] IN
    /\ Take(f) /\ IsReply(f) /\ ~Locked
    /\ known[f.sip] = Null
    /\ known' = IF room THEN [known EXCEPT ![f.sip] = f.sha] ELSE known
    /\ waiting' = [waiting EXCEPT ![f.sip] = <<>>]
    /\ tries' = [tries EXCEPT ![f.sip] = 0]
    /\ out' = IF q = <<>> THEN <<>>
                ELSE <<Send([q[1].frame EXCEPT !.dhost = f.shost], q[1].iface)>>
    /\ UNCHANGED <<loop, blocked>>

\* The sweeper loops holding the mutex: a frame that needs the cache stops
\* the packet loop, after a time-exceeded message it may have to send first.
Block(f) ==
    /\ Take(f) /\ Locked
    /\ ToForward(f) \/ IsReply(f)
    /\ blocked' = TRUE
    /\ out' = IF ToForward(f) THEN TimeExceeded(f) ELSE <<>>
    /\ UNCHANGED <<known, waiting, tries, loop>>

-----------------------------------------------------------------------------
(* The sweeper, and the loop of handle_arpreq.                             *)

Expire(a) ==
    /\ ~Locked
    /\ known[a] # Null
    /\ known' = [known EXCEPT ![a] = Null]
    /\ in' = Null /\ out' = <<>>
    /\ UNCHANGED <<waiting, tries, loop, blocked>>

SweepAsk(a) ==
    /\ ~Locked
    /\ waiting[a] # <<>>
    /\ tries[a] < MAX_TRIES
    /\ tries' = [tries EXCEPT ![a] = @ + 1]
    /\ in' = Null
    /\ out' = <<ArpRequest(waiting[a][1])>>
    /\ UNCHANGED <<known, waiting, loop, blocked>>

SweepGiveUp(a) ==
    /\ ~Locked
    /\ waiting[a] # <<>>
    /\ tries[a] >= MAX_TRIES
    /\ loop' = [loop EXCEPT !["sweeper"] = a]
    /\ in' = Null /\ out' = <<>>
    /\ UNCHANGED <<known, waiting, tries, blocked>>

\* One turn of while (walker) send_icmp_error(walker->buf): it reports the
\* packet at the head and rewrites its header for the next turn.
HostUnreachable(t) ==
    LET q == waiting[loop[t]][1] IN
    /\ loop[t] # Null
    /\ out' = <<Send(IcmpError(q.frame, q.iface, "host_unreachable"),
                     q.iface)>>
    /\ waiting' = [waiting EXCEPT ![loop[t]] =
                     <<[q EXCEPT !.frame = Rewritten(@, q.iface)]>> \o Tail(@)]
    /\ in' = Null
    /\ UNCHANGED <<known, tries, loop, blocked>>

-----------------------------------------------------------------------------
HandleFrame(f) ==
    \/ DealArpRequest(f) \/ DealIpLocal(f) \/ Drop(f)
    \/ ForwardKnown(f)
    \/ \E ask \in BOOLEAN : ForwardUnknown(f, ask)
    \/ ArpReplyKnown(f)
    \/ \E room \in BOOLEAN : ArpReplyNew(f, room)
    \/ Block(f)

Sweep(a) == Expire(a) \/ SweepAsk(a) \/ SweepGiveUp(a)

Next ==
    \/ \E f \in Frame : HandleFrame(f)
    \/ \E a \in IP : Sweep(a)
    \/ \E t \in {"main", "sweeper"} : HostUnreachable(t)

Spec == Init /\ [][Next]_vars

-----------------------------------------------------------------------------
(* Properties.                                                             *)

Outputs == {out[k] : k \in DOMAIN out}

\* The types of the state; what waits can be sent, and a thread reports only
\* addresses somebody waits for.
TypeOK ==
    /\ known \in [IP -> {Null} \cup {HostMac[h] : h \in HostIps}]
    /\ waiting \in [IP -> Seq([frame : IpFrame, iface : Names])]
    /\ \A a \in IP : Len(waiting[a]) <= MaxQueue
    /\ tries \in [IP -> 0 .. MAX_TRIES]
    /\ loop \in [{"main", "sweeper"} -> IP \cup {Null}]
    /\ \A t \in {"main", "sweeper"} :
          loop[t] # Null => waiting[loop[t]] # <<>>
    /\ blocked \in BOOLEAN
    /\ in \in Frame \cup {Null}
    /\ \A o \in Outputs : o.iface \in Names /\ o.accepted \in BOOLEAN

\* The source check of sr_send_packet refuses none of the frames forwarding
\* produces: datagrams, whether sent at once or queued first, ARP requests
\* and replies, ICMP errors.  What it refuses is an echo reply or an ARP
\* reply passed on.
RefusedIsReply ==
    \A o \in Outputs :
        \/ o.accepted
        \/ o.frame.kind = "arp" /\ o.frame = in
        \/ o.frame.kind = "ip" /\ o.frame.body = "echo_reply"

\* The ICMP errors about the frame being handled go back to the host that
\* sent it: same interface, its MAC, its address, from the address of the
\* interface.
ErrorsReachSender ==
    \A o \in Outputs :
        o.frame.kind = "ip"
          /\ o.frame.body \in {"time_exceeded", "port_unreachable"} =>
        /\ o.accepted /\ o.iface = InboundIf(in)
        /\ o.frame.dhost = in.shost /\ o.frame.dst = in.src
        /\ o.frame.src = Iface(InboundIf(in)).ip

\* The cache holds no address but a host's, and for it that host's MAC.
CachedIsOwner ==
    \A a \in IP : known[a] # Null => a \in HostIps /\ known[a] = HostMac[a]

SentToOwner ==
    \A o \in Outputs :
        o.frame.kind = "ip" /\ o.accepted /\ o.frame.dhost \notin RouterMacs =>
        /\ o.frame.dst \in HostIps
        /\ o.frame.dhost = HostMac[o.frame.dst]

\* Through any history of queueing, replies and expiry a datagram leaves for
\* the MAC of the host that owns its destination address, and the cache
\* forward_ip_packet reads that MAC from names no other host's.
DeliveredToOwner == CachedIsOwner /\ SentToOwner

\* A datagram waits in the list of its own destination, for the interface its
\* destination is routed to, already carrying that interface's MAC, until a
\* thread gives up on it.
QueuedReady ==
    \A a \in IP : \A k \in DOMAIN waiting[a] :
        LET q == waiting[a][k] IN
        /\ q.frame.shost = Iface(q.iface).mac
        /\ q.iface = CheckRoute(a)
        /\ a \notin {loop["main"], loop["sweeper"]} => q.frame.dst = a

\* Every frame the router keeps or produces can leave: forward_ip_packet and
\* send_arp_request give it the MAC of the interface it is for, and only the
\* two kinds of reply named in RefusedIsReply fail sr_send_packet's check.
FramesReady == TypeOK /\ RefusedIsReply /\ QueuedReady

\* The interface of the entry with the longest mask that covers the address.
LongestMatch(dst) ==
    LET S == {i \in DOMAIN RT : dst \in RT[i].covers}
    IN  RT[CHOOSE i \in S : \A j \in S :
             Cardinality(RT[i].covers) <= Cardinality(RT[j].covers)].iface

\* Tables as the repository ships them: host routes, one interface for each
\* destination, and default routes through the interface check_route falls
\* back to.
HostRoutes ==
    /\ \A i \in DOMAIN RT :
          \/ RT[i].covers = {RT[i].dest}
          \/ /\ RT[i].covers = IP /\ RT[i].dest \notin IP
             /\ RT[i].iface = DefaultIf
    /\ \A i, j \in DOMAIN RT :
          RT[i].dest = RT[j].dest => RT[i].iface = RT[j].iface
    /\ \E i \in DOMAIN RT : RT[i].covers = IP
    /\ IsFiniteSet(IP) /\ Cardinality(IP) > 1

\* "Look up longest match interface in routing table": datagrams are queued
\* for, and sent through, the interface of the longest match.
RouteIsLongestMatch ==
    /\ \A a \in IP : \A k \in DOMAIN waiting[a] :
          waiting[a][k].iface = LongestMatch(a)
    /\ \A o \in Outputs :
          o.frame.kind = "ip" /\ o.frame.body = "data" =>
             o.iface = LongestMatch(o.frame.dst)

-----------------------------------------------------------------------------
(* What comments and documentation say and the code does not do.           *)

\* "that means we need to forward it to the next hop": what is forwarded is
\* still addressed to the destination it came with.
ForwardsToDestination ==
    \A o \in Outputs :
        in # Null /\ o.frame.kind = "ip" /\ o.frame.body = "data"
          /\ in.kind = "ip" => o.frame.dst = in.dst

=============================================================================
