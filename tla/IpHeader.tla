------------------------------ MODULE IpHeader ------------------------------
(***************************************************************************)
(* The arithmetic of IP and ICMP headers in the simple router: cksum       *)
(* (router/sr_utils.c), validate_ip and every place of router/sr_router.c  *)
(* that changes a header and computes a checksum again.  A datagram        *)
(* travels from router to router, each running this code, until one of     *)
(* them rejects it or it leaves the network.                               *)
(*                                                                         *)
(* A checksum depends only on the sum of the 16-bit words it covers, so a  *)
(* header keeps the fields the router reads or writes and, for all other   *)
(* words, their sum: rest for those never written, addr for the addresses. *)
(* len and sum are as on the wire; the router is little-endian.            *)
(***************************************************************************)
EXTENDS Integers

CONSTANTS
    Lens,       \* values of ip_len
    Ttls,       \* values of ip_ttl at the sender
    Rests,      \* sums of the words the router leaves alone
    Addrs,      \* sums of the words of the two addresses
    Payloads,   \* sums of the words of an ICMP payload
    MaxHops,    \* bound: routers on the way
    NoDatagram

W == 65536
ASSUME HeaderAssumption ==
    /\ Lens \subseteq 0 .. W - 1 /\ Ttls \subseteq 0 .. 255
    /\ Rests \subseteq 0 .. 4 * W /\ Addrs \subseteq 0 .. 4 * W
    /\ Payloads \subseteq 1 .. W - 1
    /\ MaxHops \in Nat

VARIABLES
    at,     \* the datagram on its way to a router, or NoDatagram
    got,    \* the datagram as the last router received it, or NoDatagram
    icmp,   \* the ICMP message that router wrote, or NoDatagram
    did,    \* what that router did
    hops    \* routers so far

headerVars == <<at, got, icmp, did, hops>>

ICMP == 1
UDP == 17   \* stands for TCP too
IP_HDR_SIZE == 20
ERROR_LEN == 56  \* IP_HDR_SIZE + ICMP_ERROR_HDR_SIZE

-----------------------------------------------------------------------------
(* Checksums.                                                              *)

\* while (sum > 0xffff) sum = (sum >> 16) + (sum & 0xffff): the sum of up
\* to eighteen words needs at most two turns; a turn too many changes nothing.
Carry(s) == (s \div W) + (s % W)
Folded(s) == Carry(Carry(s))

\* cksum: the complement, except that 0 is returned as 0xffff.
Cksum(s) == LET c == (W - 1) - Folded(s) IN IF c = 0 THEN W - 1 ELSE c

\* The Internet checksum as a host computes and verifies it (external).
HostCksum(s) == (W - 1) - Folded(s)
Verifies(s, sum) == Folded(s + sum) = W - 1

\* The words of a header other than ip_sum.
Words(h) == h.len + h.ttl * 256 + h.p + h.addr + h.rest

-----------------------------------------------------------------------------
(* Headers.                                                                *)

\* What a host sends, and the same with a damaged checksum.
HostHeader(l, t, p, a, r) ==
    LET h == [len |-> l, ttl |-> t, p |-> p, addr |-> a, rest |-> r, sum |-> 0]
    IN  [h EXCEPT !.sum = HostCksum(Words(h))]
Damaged(h) == [h EXCEPT !.sum = (@ + 1) % W]

\* A 16-bit word of the wire as a little-endian host reads it without ntohs.
HostOrder(w) == (w % 256) * 256 + (w \div 256)

ValidateIpSizeOnly(h) == HostOrder(h.len) >= IP_HDR_SIZE

\* validate_ip
ValidateIp(h) ==
    /\ HostOrder(h.len) >= IP_HDR_SIZE
    /\ h.sum = Cksum(Words(h))

\* ip_sum = 0; ip_sum = cksum(...)
Resummed(h) == [h EXCEPT !.sum = Cksum(Words(h))]

\* forward_ip_packet decrements the uint8_t ip_ttl.
AgedHeader(h) == Resummed([h EXCEPT !.ttl = (@ + 255) % 256])

RewrittenStale(h, a) ==
    [h EXCEPT !.ttl = 64, !.p = ICMP, !.addr = a, !.len = ERROR_LEN]

\* send_icmp_error rewrites the header of the datagram it reports ...
RewrittenHeader(h, a) ==
    Resummed([h EXCEPT !.ttl = 64, !.p = ICMP, !.addr = a, !.len = ERROR_LEN])

\* ... after copying it, and the 8 octets behind it (d), into the message.
ErrorMessage(type, code, h, d) ==
    LET m == [head |-> type * 256 + code, data |-> Words(h) + h.sum + d]
    IN  [head |-> m.head, data |-> m.data, sum |-> Cksum(m.head + m.data)]

\* reply_to_icmp_request sets icmp_type and leaves icmp_sum as it came.
EchoRequest(d) == [head |-> 8 * 256, data |-> d, sum |-> HostCksum(8 * 256 + d)]
EchoedMessage(m) == [m EXCEPT !.head = 0]

-----------------------------------------------------------------------------
HeaderInit ==
    /\ at = NoDatagram /\ got = NoDatagram /\ icmp = NoDatagram
    /\ did = "nothing" /\ hops = 0

\* A host sends a datagram; the first link may damage it.
Originate(h) ==
    /\ did = "nothing"
    /\ at' \in {h, Damaged(h)}
    /\ did' = "sent"
    /\ UNCHANGED <<got, icmp, hops>>

\* A router receives it.
Arrive ==
    /\ at # NoDatagram /\ hops < MaxHops
    /\ got' = at /\ hops' = hops + 1

\* deal_ip drops what validate_ip rejects.
Reject ==
    /\ Arrive /\ ~ValidateIp(at)
    /\ at' = NoDatagram /\ icmp' = NoDatagram /\ did' = "rejected"

\* forward_ip_packet: the datagram goes on with one hop less.
Forward ==
    /\ Arrive /\ ValidateIp(at)
    /\ AgedHeader(at).ttl # 0
    /\ at' = AgedHeader(at) /\ icmp' = NoDatagram /\ did' = "forwarded"

\* The TTL has run out: the datagram is reported, and goes on rewritten.
RunOut(a, d) ==
    /\ Arrive /\ ValidateIp(at)
    /\ AgedHeader(at).ttl = 0
    /\ icmp' = ErrorMessage(11, 0, AgedHeader(at), d)
    /\ at' = RewrittenHeader(AgedHeader(at), a)
    /\ did' = "expired"

\* A datagram for the router: ICMP is answered as an echo request, UDP and
\* TCP with port unreachable.  The echo reply exchanges the addresses, which
\* changes no sum; the error leaves with the rewritten header.
Answer(a, d) ==
    /\ Arrive /\ ValidateIp(at)
    /\ IF at.p = ICMP
         THEN /\ icmp' = EchoedMessage(EchoRequest(d))
              /\ at' = Resummed(at)
              /\ did' = "echoed"
         ELSE /\ icmp' = ErrorMessage(3, 3, at, d)
              /\ at' = RewrittenHeader(at, a)
              /\ did' = "unreachable"

HeaderNext ==
    \/ \E l \in Lens, t \in Ttls, p \in {ICMP, UDP}, a \in Addrs, r \in Rests :
          Originate(HostHeader(l, t, p, a, r))
    \/ Reject \/ Forward
    \/ \E a \in Addrs, d \in Payloads : RunOut(a, d) \/ Answer(a, d)

HeaderSpec == HeaderInit /\ [][HeaderNext]_headerVars

-----------------------------------------------------------------------------
(* Properties.                                                             *)

Header == [len : 0 .. W - 1, ttl : 0 .. 255, p : {ICMP, UDP}, addr : Addrs,
           rest : Rests, sum : 0 .. W - 1]
Left == {"forwarded", "expired", "echoed", "unreachable"}

\* The types of the state; ip_ttl stays an octet and ip_sum a 16-bit word
\* through every change of the header.
HeadersTyped ==
    /\ at = NoDatagram \/ at \in Header
    /\ got = NoDatagram \/ got \in Header
    /\ icmp = NoDatagram \/ icmp.sum \in 0 .. W - 1
    /\ did \in Left \cup {"nothing", "sent", "rejected"}
    /\ hops \in 0 .. MaxHops

\* Whatever a router lets through or writes has a header checksum that
\* verifies by the Internet rules, although cksum returns 0xffff where the
\* rules have 0, and the next router of this kind accepts it: only the first
\* router on the way ever rejects a datagram.
OutputVerifies ==
    did \in Left => Verifies(Words(at), at.sum) /\ ValidateIp(at)

\* No router acts on a datagram whose header checksum does not verify.
DamageStopped == did \in Left => Verifies(Words(got), got.sum)

\* The checksum of every ICMP error message verifies: it covers the copy of
\* the datagram as it was before the header was rewritten.
ErrorVerifies ==
    did \in {"expired", "unreachable"} => Verifies(icmp.head + icmp.data, icmp.sum)

\* "Is the checksum correct?": comparing with a recomputed sum rejects no
\* header that verifies, except one whose checksum is 0: the value that cksum
\* replaces by 0xffff.
GoodChecksumAccepted ==
    did = "rejected" /\ Verifies(Words(got), got.sum) =>
        got.sum = 0 \/ HostOrder(got.len) < IP_HDR_SIZE

\* The two questions the checksums raise.  cksum and validate_ip together let
\* exactly the intact headers through, 0 and 0xffff apart ...
ChecksumsDecide == DamageStopped /\ GoodChecksumAccepted
\* ... and what the router itself writes is never at fault: fields keep their
\* width, headers and ICMP errors verify, at this router and the next.
WrittenVerifies == HeadersTyped /\ OutputVerifies /\ ErrorVerifies

-----------------------------------------------------------------------------
(* What a comment says and the code does not do.                           *)

\* "Is the packet big enough?": an ip_len of 20 or more is not rejected when
\* the checksum is the one cksum computes.
BigEnoughAccepted ==
    did = "rejected" /\ got.sum = Cksum(Words(got)) => got.len < IP_HDR_SIZE

=============================================================================
