------------------------------ MODULE Packets ------------------------------
(***************************************************************************)
(* A frame in the hands of the controller (pox/lib/packet): the switch     *)
(* sends its first octets (miss_send_len of them), the constructor         *)
(* ethernet(raw) parses them layer by layer, every class making the object *)
(* for the layer inside, applications look for a layer with find, and pack *)
(* writes the packet again, from the innermost layer outwards.             *)
(***************************************************************************)
EXTENDS PacketClasses

CONSTANTS
    Frames,     \* the frames that are tried, each a sequence of layers
    Cuts        \* bound: the lengths that frames are cut to

VARIABLES
    frame, cut, \* the frame on the wire, and how many octets of it arrived
    debug,      \* assertions are compiled in
    phase,      \* "down", "up" (constructors called, returning), "use",
                \* "pack", "done", or where an exception was raised:
                \* "bad_parse", "bad_find", "bad_pack"
    objs,       \* the objects made, outermost first: what parse did, with the
                \* octets the object was handed (got)
    at,         \* the layer at work
    out         \* what pack has written of the layers from at + 1 on

vars == <<frame, cut, debug, phase, objs, at, out>>

-----------------------------------------------------------------------------
Layers == Len(frame)
Class(i) == IF i <= Layers THEN frame[i].cls ELSE "data"
\* The octets of the frame from layer i on, with and without what pads it.
Octets(i) == Sum([j \in 1..(Layers - i + 1) |-> frame[i + j - 1].octets])
Unpadded(i) == IF frame[Layers].cls = "padding" THEN Octets(i) - frame[Layers].octets
                                                ELSE Octets(i)

parse(i, n) ==
    LET f == frame[i]
        up == Class(i + 1) IN
    CASE f.cls = "ethernet" -> ethernet_parse(f, up, n)
      [] f.cls = "vlan"     -> vlan_parse(f, up, n, debug)
      [] f.cls = "mpls"     -> mpls_parse(f, n)
      [] f.cls = "arp"      -> arp_parse(f, n)
      [] f.cls = "ipv4"     -> ipv4_parse(f, up, Unpadded(i), n)
      [] f.cls = "icmp"     -> icmp_parse(f, up, n)
      [] f.cls = "echo"     -> echo_parse(f, n)
      [] f.cls = "unreach"  -> unreach_parse(f, n)
      [] f.cls = "udp"      -> udp_parse(f, up, Unpadded(i), n)
      [] f.cls = "tcp"      -> tcp_parse(f, n)
      [] f.cls = "dhcp"     -> dhcp_parse(f, n)
      [] f.cls = "dns"      -> dns_parse(f, n)
      [] f.cls = "eapol"    -> eapol_parse(f, up, n)
      [] f.cls = "eap"      -> eap_parse(f, n)
      [] f.cls = "lldp"     -> lldp_parse(f, n, debug)

\* whole: the layers inside were written as they were parsed, up to the length
\* that was to be.
hdr(i, payload, same) ==
    LET f == frame[i]
        o == objs[i]
        whole == same /\ f.octets + payload = Unpadded(i) IN
    CASE f.cls = "ethernet" -> ethernet_hdr(f, o)
      [] f.cls = "vlan"     -> vlan_hdr(f, o)
      [] f.cls = "mpls"     -> mpls_hdr(f, o)
      [] f.cls = "arp"      -> arp_hdr(f, o)
      [] f.cls = "ipv4"     -> ipv4_hdr(f, o, Unpadded(i), o.got, payload)
      [] f.cls = "icmp"     -> icmp_hdr(f, o, whole)
      [] f.cls = "echo"     -> echo_hdr(f, o)
      [] f.cls = "unreach"  -> unreach_hdr(f, o)
      [] f.cls = "udp"      -> udp_hdr(f, o, Unpadded(i), payload, whole)
      [] f.cls = "tcp"      -> tcp_hdr(f, o, whole)
      [] f.cls = "dhcp"     -> dhcp_hdr(f, o)
      [] f.cls = "dns"      -> dns_hdr(f, o)
      [] f.cls = "eapol"    -> eapol_hdr(f, o)
      [] f.cls = "eap"      -> eap_hdr(f, o)
      [] f.cls = "lldp"     -> lldp_hdr(f, o, debug)

-----------------------------------------------------------------------------
Init ==
    /\ frame \in Frames
    /\ cut \in {c \in Cuts : c < Octets(1)} \cup {Octets(1)}
    /\ debug \in BOOLEAN
    /\ phase = "down"
    /\ objs = <<>>
    /\ at = 1
    /\ out = [octets |-> 0, same |-> TRUE]

\* A constructor runs its parse method, which calls the next constructor.
Descend ==
    /\ phase = "down"
    /\ LET n == IF at = 1 THEN cut ELSE objs[at - 1].rest
           o == parse(at, n) IN
       /\ objs' = Append(objs, [parsed |-> o.parsed, next |-> o.next, rest |-> o.rest, got |-> n])
       /\ phase' = CASE o.raises -> "bad_parse"
                     [] o.next = "object" -> "down"
                     [] OTHER -> "up"
       /\ at' = IF o.next = "object" /\ ~ o.raises THEN at + 1 ELSE at
    /\ UNCHANGED <<frame, cut, debug, out>>

\* The constructors return.  ipv4 keeps the octets of a layer that was not
\* parsed instead of the object, and asks an icmp for an attribute it may lack.
Return ==
    /\ phase = "up"
    /\ IF at = 1
         THEN phase' = "use" /\ UNCHANGED <<objs, at>>
         ELSE LET replaces == Class(at - 1) = "ipv4" /\ objs[at].parsed = "no" IN
              /\ phase' = IF Class(at - 1) = "ipv4" /\ objs[at].parsed = "unset"
                            THEN "bad_parse" ELSE "up"
              /\ objs' = IF replaces
                           THEN [SubSeq(objs, 1, at - 1) EXCEPT ![at - 1].next = "raw"]
                           ELSE objs
              /\ at' = at - 1
    /\ UNCHANGED <<frame, cut, debug, out>>

\* find follows next as long as the objects are parsed (packet_base is true
\* when parsed is), and takes the first of the class; an object without the
\* attribute raises when it is reached.
Finds(c) == {i \in DOMAIN objs : /\ Class(i) = c /\ objs[i].parsed = "yes"
                                 /\ \A j \in 2..i : objs[j].parsed = "yes"}
FindRaises(c) == Finds(c) = {} /\ \E i \in DOMAIN objs : objs[i].parsed = "unset"
find ==
    /\ phase = "use"
    /\ \E c \in {"ipv4", "tcp", "unreach"} : phase' = IF FindRaises(c) THEN "bad_find" ELSE "pack"
    /\ at' = Len(objs)
    /\ UNCHANGED <<frame, cut, debug, objs, out>>

\* pack: hdr(rest) + rest.
pack ==
    /\ phase = "pack"
    /\ LET o == objs[at]
           payload == CASE o.next = "raw"  -> o.rest
                        [] o.next = "none" -> 0
                        [] OTHER           -> out.octets
           h == hdr(at, payload, out.same) IN
       /\ out' = [octets |-> h.octets + payload, same |-> h.same /\ out.same]
       /\ phase' = CASE h.raises -> "bad_pack"
                     [] at = 1   -> "done"
                     [] OTHER    -> "pack"
    /\ at' = IF phase' = "pack" THEN at - 1 ELSE at
    /\ UNCHANGED <<frame, cut, debug, objs>>

Next == Descend \/ Return \/ find \/ pack
Spec == Init /\ [][Next]_vars

-----------------------------------------------------------------------------
(* Properties.                                                             *)

Is(i, c, traits) == frame[i].cls = c /\ traits \subseteq frame[i].is
\* The octets of layer i and what follows it that arrived.
Left(i) == cut - (Octets(1) - Octets(i))

\* Whatever the switch cuts off, the constructor makes a packet of what is left
\* and raises nothing (packet_base.py:38-57: parse leaves parsed at False), but
\* for what these classes overlook: an icmp of less than its four octets, an eap
\* request cut before its type, a DHCP overload option, an LLDP TLV that lacks
\* one or two octets, and, with assertions, a second VLAN tag.
ConstructorContained ==
    phase = "bad_parse" =>
        \E i \in 1..Layers :
            \/ Is(i, "icmp", {}) /\ Left(i) < 4
            \/ Is(i, "eap", {"typed"}) /\ Left(i) = 4
            \/ Is(i, "dhcp", {"overload"}) /\ Left(i) >= frame[i].octets
            \/ Is(i, "lldp", {}) /\ \E k \in DOMAIN frame[i].tlvs :
                  LET end == Sum([j \in 1..k |-> 2 + frame[i].tlvs[j].len]) IN
                  Left(i) \in (end - 2)..(end - 1)
            \/ Is(i, "vlan", {}) /\ Class(i + 1) = "vlan" /\ debug

\* What a class does not write back: see the hdr operators.
Lossy(i) ==
    \/ Is(i, "vlan", {"cfi"})
    \/ Is(i, "vlan", {}) /\ Class(i + 1) \in {"data", "vlan"}
    \/ Is(i, "arp", {"hwlen"})
    \/ Is(i, "ipv4", {"version"})
    \/ Is(i, "ipv4", {}) /\ (frame[i].octets > 20 \/ Unpadded(i) = 20)
    \/ Is(i, "udp", {"nocsum"}) \/ Is(i, "udp", {"len"})
    \/ Is(i, "tcp", {"eol"}) \/ Is(i, "tcp", {"unknown"})
    \/ Is(i, "tcp", {"sack"}) /\ Octets(i) = frame[i].octets
    \/ Class(i) \in {"dhcp", "dns", "eap"}
    \/ Is(i, "eapol", {}) /\ Class(i + 1) = "data"
    \/ Is(i, "lldp", {"wrong"})
    \/ Is(i, "lldp", {}) /\ \E k \in DOMAIN frame[i].tlvs : frame[i].tlvs[k].type = "caps"
    \/ Is(i, "padding", {}) /\ \E j \in 1..i : Class(j) \in {"ipv4", "lldp", "eapol"}
\* A frame that arrived whole is the same when it is packed again, octet by
\* octet with its lengths and checksums, unless it has one of those layers
\* (pack, packet_base.py:159-172).
RepackedAsParsed ==
    (phase \in {"done", "bad_pack"} /\ cut = Octets(1) /\ \A i \in 1..Layers : ~ Lossy(i))
        => phase = "done" /\ out = [octets |-> cut, same |-> TRUE]

\* Cutting a frame hides no layer whose own header arrived: find gives it, also
\* where the lengths in outer headers say more than there is (find,
\* packet_base.py:84-96).  DNS, DHCP and LLDP need all of their message; an IP
\* header that came with nothing behind it in an ICMP error counts as data.
CutHidesNothing ==
    phase = "use" =>
        \A i \in 1..Layers :
            \/ i \in Finds(Class(i))
            \/ Left(i) < frame[i].octets
            \/ Class(i) \in {"data", "padding"} \/ Is(i, "dns", {"circle"})
            \/ Is(i, "tcp", {"badopt"})
            \/ Is(i, "tcp", {"sack"}) /\ Left(i) > frame[i].octets
            \/ Is(i, "lldp", {"wrong"})
            \/ \E j \in 1..i : Is(j, "ipv4", {"version"}) \/ (Is(j, "ipv4", {}) /\ Unpadded(j) = frame[j].octets)
            \/ \E j \in 1..(i - 1) : \/ Is(j, "vlan", {}) /\ Class(j + 1) = "vlan"
                                     \/ Is(j, "udp", {"len"})
                                     \/ Is(j, "unreach", {}) /\ Left(j) < 28
=============================================================================
