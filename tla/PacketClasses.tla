--------------------------- MODULE PacketClasses ---------------------------
(***************************************************************************)
(* The classes of pox/lib/packet, each with what its parse method makes of *)
(* the octets it is handed and what its hdr method writes back.            *)
(*                                                                         *)
(* A layer of a frame is [cls, octets, is, tlvs]: its class, the octets of *)
(* its header with options, a set of traits (what about its content the    *)
(* code tells apart) and, for LLDP, its TLVs.  Values of fields are not    *)
(* modelled: what counts is which octets an object keeps.                  *)
(***************************************************************************)
EXTENDS Integers, Sequences, FiniteSets, SequencesExt

\* What parse did: parsed is the attribute, "yes", "no", or "unset" (where
\* __init__ of packet_base is not called and parse returned early); next is an
\* object made from so many octets, raw octets, or None; raises says that an
\* exception left the constructor.
Outcome(parsed, next, rest) ==
    [parsed |-> parsed, next |-> next, rest |-> rest, raises |-> FALSE]
Raised == [parsed |-> "no", next |-> "none", rest |-> 0, raises |-> TRUE]

\* A class that gives up on fewer than m octets.
AtLeast(m, n, empty, o) == IF n < m THEN Outcome("no", empty, 0) ELSE o

\* What hdr wrote: so many octets, equal or not to those parsed.
Wrote(octets, same) == [octets |-> octets, same |-> same, raises |-> FALSE]
HdrRaised == [octets |-> 0, same |-> FALSE, raises |-> TRUE]

Sum(s) == FoldLeft(LAMBDA a, x : a + x, 0, s)

-----------------------------------------------------------------------------
(* Ethernet and what it carries directly.  up is the class of the next     *)
(* layer of the frame ("data" for a type with no parser).                  *)

ethernet_parse(f, up, n) ==
    AtLeast(14, n, "raw", Outcome("yes", IF up = "data" THEN "raw" ELSE "object", n - 14))
ethernet_hdr(f, o) == Wrote(14, o.parsed = "yes")

\* The payload of a tagged frame of unknown type is not kept.  A second tag is
\* refused by an assertion (where assertions are compiled in); self.c is set by
\* parse only, and not shifted.
vlan_parse(f, up, n, debug) ==
    AtLeast(4, n, "none",
            CASE up = "vlan" /\ debug -> Raised
              [] up = "data" -> Outcome("yes", "none", n - 4)
              [] OTHER       -> Outcome("yes", "object", n - 4))
vlan_hdr(f, o) ==
    IF o.parsed = "yes" /\ "cfi" \notin f.is THEN Wrote(4, TRUE) ELSE HdrRaised

mpls_parse(f, n) == AtLeast(4, n, "none", Outcome("yes", "raw", n - 4))
mpls_hdr(f, o) == Wrote(4, o.parsed = "yes")

\* Hardware addresses of another length are not taken over.
arp_parse_no_rest(f, n) == AtLeast(28, n, "raw", Outcome("yes", "none", n - 28))
arp_parse(f, n) == AtLeast(28, n, "raw", Outcome("yes", "raw", n - 28))
arp_hdr(f, o) == Wrote(28, o.parsed = "yes" /\ "hwlen" \notin f.is)

-----------------------------------------------------------------------------
(* IPv4 and ICMP.  iplen is the length in the header.                      *)

ipv4_parse_whole_only(f, up, iplen, n) ==
    IF n < 20 \/ "version" \in f.is \/ f.octets >= iplen \/ iplen > n
      THEN Outcome("no", "raw", 0)
      ELSE Outcome("yes", IF up \in {"udp", "tcp", "icmp"} THEN "object" ELSE "raw", iplen - f.octets)
ipv4_parse(f, up, iplen, n) ==
    LET upto == IF iplen > n THEN n ELSE iplen IN
    IF n < 20 \/ "version" \in f.is \/ f.octets >= iplen \/ f.octets > n
      THEN Outcome("no", "raw", 0)
      ELSE CASE up \in {"udp", "tcp", "icmp"} -> Outcome("yes", "object", upto - f.octets)
             [] n < iplen -> Outcome("yes", "raw", 0)
             [] OTHER     -> Outcome("yes", "raw", upto - f.octets)

\* hdr writes 20 octets whatever hl says, and computes the length and the
\* checksum anew.  The addresses of an object that gave up after reading the
\* header are integers, on which toUnsigned fails.
ipv4_hdr(f, o, iplen, n, payload) ==
    IF o.parsed = "no"
      THEN IF n < 20 THEN Wrote(20, FALSE) ELSE HdrRaised
      ELSE Wrote(20, f.octets = 20 /\ payload + 20 = iplen)

\* Neither icmp nor unreach calls the __init__ of packet_base.
Unset(m, n, o) == IF n < m THEN Outcome("unset", "none", 0) ELSE o
icmp_parse(f, up, n) ==
    Unset(4, n, Outcome("yes", IF up \in {"echo", "unreach"} THEN "object" ELSE "raw", n - 4))
echo_parse(f, n) == AtLeast(4, n, "none", Outcome("yes", "raw", n - 4))
unreach_parse(f, n) == Unset(4, n, Outcome("yes", IF n >= 28 THEN "object" ELSE "raw", n - 4))
\* The checksum of icmp covers its payload: whole says that is as it was.
icmp_hdr(f, o, whole) == Wrote(4, whole)
echo_hdr(f, o) == Wrote(4, o.parsed = "yes")
unreach_hdr(f, o) == IF o.parsed = "unset" THEN HdrRaised ELSE Wrote(4, TRUE)

-----------------------------------------------------------------------------
(* UDP, TCP and what UDP carries.  len is the length in the UDP header.    *)

udp_parse(f, up, len, n) ==
    AtLeast(8, n, "none",
            CASE "len" \in f.is       -> Outcome("yes", "none", n - 8)
              [] up \in {"dhcp", "dns"} -> Outcome("yes", "object", n - 8)
              [] n < len              -> Outcome("yes", "none", n - 8)
              [] OTHER                -> Outcome("yes", "raw", n - 8))
\* A checksum of 0 (none) is replaced by a computed one.
udp_hdr(f, o, len, payload, whole) ==
    Wrote(8, o.parsed = "yes" /\ "nocsum" \notin f.is /\ "len" \notin f.is /\ payload + 8 = len /\ whole)

\* parse_options: the options run to hdr_len or to an EOL; a SACK option is
\* unpacked from everything behind it, which must be no more than its blocks.
parse_options(f, n) == ~ ("sack" \in f.is /\ n > f.octets) /\ "badopt" \notin f.is
\* tcp_opt.to_bytes: nothing for an unknown option and for the padding behind
\* an EOL, and no type and length for a SACK.
tcp_opt_lost(f) ==
    CASE "sack" \in f.is  -> 2
      [] "eol" \in f.is \/ "unknown" \in f.is -> 4
      [] OTHER -> 0
tcp_parse_unchecked(f, n) ==
    IF n < 20 THEN Outcome("no", "raw", 0)
    ELSE IF f.octets > n \/ ~ parse_options(f, n) THEN Raised
    ELSE Outcome("yes", "raw", n - f.octets)
tcp_parse(f, n) ==
    IF n < 20 \/ f.octets > n \/ ~ parse_options(f, n)
      THEN Outcome("no", "raw", 0)
      ELSE Outcome("yes", "raw", n - f.octets)
tcp_hdr(f, o, whole) == Wrote(f.octets - tcp_opt_lost(f), tcp_opt_lost(f) = 0 /\ whole)

\* Options are parsed only behind a good magic number; the overload option is
\* looked at as an integer, and the text about its length cannot be formatted.
dhcp_parse(f, n) ==
    AtLeast(240, n, "none",
            IF "overload" \in f.is /\ n >= f.octets THEN Raised ELSE Outcome("yes", "none", 0))
\* struct.pack is given IPAddr objects, and options may be unset.
dhcp_hdr(f, o) == HdrRaised

\* Every question and record must be there; a name read past the end, or one
\* whose pointers form a circle, is an exception that parse turns into a
\* failure.  A pointer's offset is cut to ten bits.
read_dns_name(f, n) == n >= f.octets /\ "circle" \notin f.is
dns_parse(f, n) ==
    AtLeast(12, n, "none", Outcome(IF read_dns_name(f, n) THEN "yes" ELSE "no", "none", 0))
\* hdr returns None (or fails in putName).
dns_hdr(f, o) == HdrRaised

-----------------------------------------------------------------------------
(* EAP over LAN.                                                           *)

eapol_parse(f, up, n) ==
    AtLeast(4, n, "none", Outcome("yes", IF up = "eap" THEN "object" ELSE "none", n - 4))
eapol_hdr(f, o) == Wrote(4, o.parsed = "yes")

\* Requests and responses have a type, which hdr does not write.
eap_parse(f, n) ==
    AtLeast(4, n, "none",
            IF "typed" \in f.is /\ n < 5 THEN Raised ELSE Outcome("yes", "none", n - 4))
eap_hdr(f, o) == Wrote(4, o.parsed = "yes")

-----------------------------------------------------------------------------
(* LLDP: m octets are left for a TLV of the given length (without its own  *)
(* two octets).  pox.py runs Python with -O, which drops assertions;       *)
(* debug-pox.py does not.                                                  *)

chassis_id(len, m, debug) == IF (debug /\ len < 2) \/ m < 3 \/ len < 1 THEN "raises" ELSE "ok"
port_id(len, m, debug) ==
    IF (debug /\ (len < 2 \/ m < 2 + len)) \/ m < 3 \/ len < 1 THEN "raises" ELSE "ok"
ttl(len, m) == IF len = 2 /\ m < 4 THEN "raises" ELSE "ok"
end_tlv(len, m) == "ok"
basic_tlv(len, m) == "ok"
\* An address with no object identifier behind it.
management_address(len, m) == IF m < 2 + len THEN "raises" ELSE "ok"
organizationally_specific(len, m) == IF len < 4 \/ m < 6 THEN "raises" ELSE "ok"
system_capabilities(len, m) == IF len # 4 \/ m < 6 THEN "raises" ELSE "ok"

\* next_tlv compares what is left with the length, not with length + 2.
next_tlv(t, m, debug) ==
    IF m < 2 \/ m < t.len
      THEN "short"
      ELSE CASE t.type = "chassis_id" -> chassis_id(t.len, m, debug)
             [] t.type = "port_id"    -> port_id(t.len, m, debug)
             [] t.type = "ttl"        -> ttl(t.len, m)
             [] t.type = "end"        -> end_tlv(t.len, m)
             [] t.type = "mgmt"       -> management_address(t.len, m)
             [] t.type = "org"        -> organizationally_specific(t.len, m)
             [] t.type = "caps"       -> system_capabilities(t.len, m)
             [] OTHER                 -> basic_tlv(t.len, m)

\* The first three TLVs are fixed; the loop over the others ends at the END
\* TLV, and fails at the first one that cannot be read or that ends the data.
TlvStart(f, i) == Sum([j \in 1..(i - 1) |-> 2 + f.tlvs[j].len])
TlvGot(f, i, n, debug) == next_tlv(f.tlvs[i], n - TlvStart(f, i), debug)
LastTlv(f, n, debug) ==
    LET Expected(i) == i > 3 \/ f.tlvs[i].type = <<"chassis_id", "port_id", "ttl">>[i]
        GoesOn(i) == /\ TlvGot(f, i, n, debug) = "ok" /\ Expected(i)
                     /\ i > 3 => f.tlvs[i].type # "end" /\ TlvStart(f, i + 1) < n IN
    CHOOSE i \in DOMAIN f.tlvs : /\ ~ GoesOn(i) \/ i = Len(f.tlvs)
                                 /\ \A j \in 1..(i - 1) : GoesOn(j)
lldp_parse(f, n, debug) ==
    LET last == LastTlv(f, n, debug)
        got == TlvGot(f, last, n, debug) IN
    IF n < 14
      THEN Outcome("no", "none", 0)
      ELSE CASE got = "raises" -> Raised
             [] got = "ok" /\ last > 3 /\ f.tlvs[last].type = "end" ->
                  Outcome("yes", "none", n - TlvStart(f, last + 1))
             [] OTHER -> Outcome("no", "none", 0)
\* The TLVs that were read are written.  system_capabilities keeps "any bit
\* set" for every bit.
lldp_hdr(f, o, debug) ==
    LET last == LastTlv(f, o.got, debug)
        count == IF TlvGot(f, last, o.got, debug) = "ok" THEN last ELSE last - 1
        end == TlvStart(f, count + 1) IN
    IF o.got < 14
      THEN Wrote(0, TRUE)
      ELSE Wrote(IF end > o.got THEN o.got ELSE end,
                 end <= o.got /\ \A j \in 1..count : f.tlvs[j].type # "caps")
=============================================================================
