-------------------------------- MODULE Hosts -------------------------------
(***************************************************************************)
(* Where the hosts are, on top of Discovery: the learning and the paths of *)
(* pox/forwarding/l2_multi.py, and pox/host_tracker/host_tracker.py.       *)
(*                                                                         *)
(* A frame of a host that no flow matches may come in at any port: at the  *)
(* one the host is plugged into, at another when it was moved, or at a     *)
(* port between two switches.  Of flows only the messages that install     *)
(* them are modelled, as these may find a closed socket.  A setup follows  *)
(* one of the two components (app), with some hosts and the ports they are *)
(* plugged into; its bound of one fault means that at most one closed      *)
(* socket is found at a time.                                              *)
(***************************************************************************)
EXTENDS Discovery

CONSTANTS
    Mac,         \* hosts
    Ip,          \* addresses of a host
    pingLim      \* PingCtrl.pingLim

ASSUME HostsAssumption ==
    /\ pingLim \in Nat /\ IsFiniteSet(Ip)
    /\ \A s \in Setups : s.hosts \subseteq Mac /\ (s.hosts # {} => s.faults <= 1)

VARIABLES
    mac_map,     \* l2_multi.mac_map: where each host was seen
    entryByMAC,  \* host_tracker's entries: switch and port, how long ago the host was heard
                 \* of ("recent": less than entryMove, "quiet", "expired") and its addresses
    checking     \* does the timer of _check_timeouts still run?

hostVars == <<mac_map, entryByMAC, checking>>
allVars == <<vars, hostVars>>

Nowhere == <<0, 0>>

HInit ==
    /\ Init
    /\ mac_map = [h \in Mac |-> Nowhere]
    /\ entryByMAC = [h \in Mac |-> None]
    /\ checking = TRUE

\* A packet-in of a switch that Discovery knows; its socket may be closed by now.
Arrives(e) == Idle /\ e[1] \in _dps /\ e \in Ends \cup setup.plugs

\* A message to d: a closed socket is found and the switch disconnected.
Sent(d) == IF con[d] = "closed" THEN Disconnect(d, stack) ELSE UNCHANGED <<con, packets, stack>>

(***************************************************************************)
(* l2_multi.                                                               *)
(***************************************************************************)
\* A new place counts unless l2_multi reaches a switch over it.  The first place counts
\* in any case.
Learned(h, e) ==
    IF mac_map[h] # Nowhere /\ (\E l \in ports : Source(l) = e) THEN mac_map[h] ELSE e

\* Multicast, and hosts never heard of.
Flood(h, e) ==
    /\ setup.app = "l2_multi" /\ Arrives(e)
    /\ mac_map' = [mac_map EXCEPT ![h] = Learned(h, e)]
    /\ Sent(e[1])
    /\ UNCHANGED <<netVars, lldp, adjacency, expiring, prev, ports, path_map,
                   entryByMAC, checking>>

\* install_path: a flow to every switch of the path, or, when there is none, an ICMP
\* error back to the host.
InstallPath(h, e, dst) ==
    LET learned == [mac_map EXCEPT ![h] = Learned(h, e)]
        there == learned[dst]
        map == IF path_map = <<>> /\ e[1] # there[1] THEN _calc_paths ELSE path_map
    IN  /\ setup.app = "l2_multi" /\ Arrives(e) /\ there # Nowhere
        /\ mac_map' = learned
        /\ path_map' = map
        /\ LET known == e[1] = there[1] \/ <<e[1], there[1]>> \in DOMAIN map
               told == {d \in Dpids : con[d] = "closed" /\ d \in
                          (IF known THEN ToSet(_get_path(map, e[1], there[1])) ELSE {e[1]})}
           IN  IF told = {} THEN UNCHANGED <<con, packets, stack>>
                            ELSE \E d \in told : Disconnect(d, stack)
        /\ UNCHANGED <<netVars, lldp, adjacency, expiring, prev, ports,
                       entryByMAC, checking>>

UnlearnedAtSource(l) ==         \* mutant: looks at one end only
    [h \in Mac |-> IF mac_map[h] = Source(l) THEN Nowhere ELSE mac_map[h]]

\* Hosts seen at either end of a link that has come.
Unlearned(l) ==
    [h \in Mac |-> IF mac_map[h] \in {Source(l), Target(l)} THEN Nowhere ELSE mac_map[h]]

LinkEventHandled ==
    /\ HandleLinkEvent
    /\ mac_map' = IF Head(stack).for = "add" THEN Unlearned(Head(stack).cur) ELSE mac_map
    /\ UNCHANGED <<entryByMAC, checking>>

(***************************************************************************)
(* host_tracker.  Intervals: arpAware (2 minutes) for a host and for an    *)
(* address learned from ARP, arpSilent (20 minutes) for one from IP.       *)
(***************************************************************************)
Set(h, entry) ==
    /\ entryByMAC' = [entryByMAC EXCEPT ![h] = entry]
    /\ UNCHANGED mac_map

MacEntry(e) == [dpid |-> e[1], port |-> e[2], heard |-> "recent", ips |-> <<>>]
IpEntry(hasARP) == [hasARP |-> hasARP, expired |-> FALSE, pending |-> 0]

updateIPInfo(ips, ip, hasARP) ==
    LET old == IF ip \in DOMAIN ips THEN ips[ip] ELSE IpEntry(hasARP)
        new == [hasARP |-> old.hasARP, expired |-> FALSE,
                pending |-> IF hasARP THEN 0 ELSE old.pending]
    IN  [i \in DOMAIN ips \cup {ip} |-> IF i = ip THEN new ELSE ips[i]]

\* The address in a frame, if there is one, and whether it comes from ARP.
getSrcIPandARP == {<<None, FALSE>>} \cup (Ip \X BOOLEAN)

\* A frame at a port where no switch is known to be, with or without an address.
\* The warning of a possible duplicate calls a number: a host heard of within entryMove
\* is not moved, and not refreshed either.  A move sets the switch and an attribute
\* inport that nothing reads: the port stays.
HostSeen(h, e, info) ==
    LET old == entryByMAC[h]
        entry == IF old = None THEN MacEntry(e)
                 ELSE [dpid |-> e[1], port |-> old.port, heard |-> "recent", ips |-> old.ips]
    IN  /\ setup.app = "host_tracker" /\ Arrives(e)
        /\ ~isSwitchOnlyPort(adjacency, e)
        /\ old # None => <<old.dpid, old.port>> = e \/ old.heard # "recent"
        /\ Set(h, IF info[1] = None THEN entry
                  ELSE [entry EXCEPT !.ips = updateIPInfo(@, info[1], info[2])])
        /\ UNCHANGED <<vars, checking>>

ExpiredAtOnce(hasARP) == FALSE      \* mutant: every address gets the interval arpSilent

\* The addresses whose interval is over with that of the host: they were refreshed no
\* later than it was.
ExpiresWithHost(hasARP) == hasARP

\* Time passes: a host has not been heard of for a while ...
Quiet(h) ==
    LET old == entryByMAC[h] IN
    /\ Idle /\ old # None /\ old.heard # "expired"
    /\ LET over(ip) == [ip EXCEPT !.expired = @ \/ ExpiresWithHost(ip.hasARP)]
           ips == [i \in DOMAIN old.ips |-> over(old.ips[i])]
       IN  Set(h, IF old.heard = "recent" THEN [old EXCEPT !.heard = "quiet"]
                  ELSE [dpid |-> old.dpid, port |-> old.port, heard |-> "expired", ips |-> ips])
    /\ UNCHANGED <<vars, checking>>

\* ... or one of its addresses has not.
IpQuiet(h, ip) ==
    /\ Idle /\ entryByMAC[h] # None /\ ip \in DOMAIN entryByMAC[h].ips
    /\ ~entryByMAC[h].ips[ip].expired
    /\ Set(h, [entryByMAC[h] EXCEPT !.ips[ip].expired = TRUE])
    /\ UNCHANGED <<vars, checking>>

\* PingCtrl.failed; sendPing and its caller both count a ping.
failed(entry) == entry.pending > pingLim
sent(entry) == [entry EXCEPT !.pending = @ + 2]

Without(ips, gone) == [i \in DOMAIN ips \ gone |-> ips[i]]

\* The loop over the addresses: those that did not answer go, the other expired ones are
\* pinged.  sendToDPID fails when the switch is not connected, and the address goes; when
\* the first ping finds a closed socket, the others fail.
Pinged(entry) == {i \in DOMAIN entry.ips : entry.ips[i].expired /\ ~failed(entry.ips[i])}
Failed(entry) == {i \in DOMAIN entry.ips : entry.ips[i].expired /\ failed(entry.ips[i])}
Reached(entry) ==
    CASE con[entry.dpid] = "open" -> {Pinged(entry)}
      [] con[entry.dpid] = "closed" /\ Pinged(entry) # {} -> {{i} : i \in Pinged(entry)}
      [] OTHER -> {{}}
AfterPings(entry, reached) ==
    LET kept == Without(entry.ips, Failed(entry) \cup (Pinged(entry) \ reached)) IN
    [i \in DOMAIN kept |-> IF i \in reached THEN sent(kept[i]) ELSE kept[i]]

\* One host in _check_timeouts.  An expired one that was not pinged goes; the loop that
\* is to delete what addresses it has left deletes the address `last' of the loop before
\* again and again: a KeyError, unless that is the only one left.  It ends the timer.
_check_timeouts(h) ==
    LET entry == entryByMAC[h] IN
    /\ setup.app = "host_tracker" /\ Idle /\ checking /\ entry # None
    /\ \E reached \in Reached(entry) :
         LET ips == AfterPings(entry, reached)
             goes == entry.heard = "expired" /\ Pinged(entry) = {} IN
         /\ \E last \in DOMAIN entry.ips \cup {None} :
              /\ last = None <=> DOMAIN entry.ips = {}
              /\ IF goes /\ DOMAIN ips \in {{}, {last}}
                 THEN Set(h, None) /\ UNCHANGED checking
                 ELSE /\ Set(h, [entry EXCEPT !.ips = IF goes THEN Without(ips, {last}) ELSE ips])
                      /\ checking' = ~goes
         /\ IF reached # {} THEN Sent(entry.dpid) ELSE UNCHANGED <<con, packets, stack>>
    /\ UNCHANGED <<netVars, lldp, adjacency, expiring, prev, ports, path_map>>

-----------------------------------------------------------------------------
HNext ==
    \/ LinkEventHandled
    \/ Elsewhere /\ UNCHANGED hostVars
    \/ setup.hosts = {} /\ CalcPaths /\ UNCHANGED hostVars
    \/ \E h \in setup.hosts, e \in Ends \cup setup.plugs :
         \/ Flood(h, e)
         \/ \E dst \in setup.hosts \ {h} : InstallPath(h, e, dst)
         \/ \E info \in getSrcIPandARP : HostSeen(h, e, info)
    \/ \E h \in setup.hosts : Quiet(h) \/ _check_timeouts(h) \/ \E ip \in Ip : IpQuiet(h, ip)

HSpec == HInit /\ [][HNext]_allVars

(***************************************************************************)
(* Properties.                                                             *)
(***************************************************************************)
Behind(e, links) == \E l \in links : Source(l) = e

\* The handler under way looks for a link in the place of one that has gone, which was
\* not at the port of h.
Replacing(h) ==
    /\ ~Idle /\ Head(stack).for # "add"
    /\ mac_map[h] \notin {Source(Head(stack).cur), Target(Head(stack).cur)}

StaysOutside(h) ==
    mac_map[h] # Nowhere /\ mac_map'[h] # Nowhere /\ Behind(mac_map'[h], ports')
        => Behind(mac_map[h], ports) \/ Replacing(h)

\* No host that l2_multi knows slips behind a link: not by a frame that came in between
\* two switches, and not by a link being found at the port where it was seen
\* (l2_multi.py:248-258 and 362-376).  Only a host that is not known at all can be
\* learned at such a port, and one that was seen at the port of a parallel cable is
\* behind it when that cable takes the place of a link that has gone (337-350).
HostsStayOutside == [][\A h \in Mac : StaysOutside(h)]_allVars

\* The loop over the addresses of a host can end the timer.
EndsTimer(entry) ==
    /\ entry # None
    /\ Cardinality(DOMAIN entry.ips) > 1
    /\ \E i \in DOMAIN entry.ips : ~entry.ips[i].hasARP

\* The timer that forgets silent hosts dies only over a host with two addresses at least,
\* one of which it never saw in ARP: addresses from ARP have all expired when their host
\* has (host_tracker.py:295-316).
TimerOutlivesArpHosts ==
    [][checking /\ ~checking' => \E h \in Mac : EndsTimer(entryByMAC[h])]_allVars

\* "No host should be right behind a switch-only port."
NoneBehindSwitchPort ==
    \A h \in Mac : entryByMAC[h] # None =>
        ~isSwitchOnlyPort(adjacency, <<entryByMAC[h].dpid, entryByMAC[h].port>>)
=============================================================================
