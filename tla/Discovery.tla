----------------------------- MODULE Discovery ------------------------------
(***************************************************************************)
(* How the controller learns the links between switches and what it does   *)
(* with them: Discovery and LLDPSender (pox/openflow/discovery.py), the    *)
(* spanning tree on which frames are flooded                               *)
(* (pox/openflow/spanning_tree.py) and the adjacency and shortest paths of *)
(* pox/forwarding/l2_multi.py, which both listen to LinkEvent.             *)
(*                                                                         *)
(* All of it runs in the scheduler's thread, but not one handler after the *)
(* other: a message to a connection whose socket is closed disconnects it  *)
(* there and then, and ConnectionDown is handled inside the handler that   *)
(* was sending.  `stack' holds the loops of _deleteLinks that are under    *)
(* way, the innermost first, each with the LinkEvent it is raising.        *)
(*                                                                         *)
(* Time is not modelled: any links may be overdue, as nothing bounds how   *)
(* long an LLDP packet takes.  A switch connects again only when the       *)
(* controller has noticed that its connection is gone.  Hosts are in the   *)
(* module Hosts.                                                           *)
(***************************************************************************)
EXTENDS Integers, Sequences, FiniteSets, SequencesExt, FiniteSetsExt

CONSTANTS
    Setups,      \* the networks: sets of cables, each a link in one of its directions, with
                 \* bounds on the connections closed, cables cut and ports deleted (faults)
                 \* and on the links that expire together (overdue)
    MaxFlight    \* bound: LLDP packets under way

Link(d1, p1, d2, p2) == [dpid1 |-> d1, port1 |-> p1, dpid2 |-> d2, port2 |-> p2]
flip(l) == Link(l.dpid2, l.port2, l.dpid1, l.port1)
Source(l) == <<l.dpid1, l.port1>>
Target(l) == <<l.dpid2, l.port2>>

ASSUME DiscoveryAssumption ==
    /\ \A s \in Setups :
        /\ s.faults \in Nat /\ s.overdue \in Nat
        /\ \A l \in s.cables : /\ l = Link(l.dpid1, l.port1, l.dpid2, l.port2)
                              /\ l.dpid1 \in Nat \ {0} /\ l.dpid2 \in Nat \ {0} /\ l.dpid1 # l.dpid2
        /\ \A l, k \in s.cables : {Source(l), Target(l)} \cap {Source(k), Target(k)} # {} => l = k
    /\ MaxFlight \in Nat \ {0}

VARIABLES
    setup,      \* the network of this run
    cut,        \* those that carry nothing at present
    faults,     \* how many more may happen
    con,        \* of each switch: "never" connected, "open", "closed" (its socket is, and
                \* nobody has noticed), "down"; Discovery's _dps are the middle two
    packets,    \* LLDPSender._packets: the ports it goes round
    lldp,       \* LLDP packet-ins that are under way to the controller
    adjacency,  \* Discovery.adjacency: the links
    stack,      \* see above: the links left, the present one, why ("add", "expire" or "down"),
                \* and the spanning tree with the switches that have not been told
    expiring,   \* does the timer of _expireLinks still run?
    prev,       \* spanning_tree._prev: the ports told not to flood (all others do)
    ports,      \* l2_multi.adjacency: one link, in both directions, per connected pair
    path_map    \* l2_multi.path_map: the known pairs; empty when it is to be computed

netVars == <<setup, cut, faults>>
discoveryVars == <<packets, lldp, adjacency, stack, expiring, prev>>
vars == <<netVars, con, discoveryVars, ports, path_map>>

topology == setup.cables
Cables == topology \cup {flip(l) : l \in topology}
Dpids == {l.dpid1 : l \in Cables}
Ends == {Source(l) : l \in Cables}
_dps == {d \in Dpids : con[d] \in {"open", "closed"}}
switches == {d \in Dpids : con[d] # "never"}
Carries(l) == {l, flip(l)} \cap cut = {}
None == [none |-> TRUE]

Idle == stack = <<>>

Init ==
    /\ setup \in Setups /\ faults = setup.faults
    /\ cut = {}
    /\ con = [d \in Dpids |-> "never"]
    /\ packets = {} /\ lldp = {} /\ adjacency = {} /\ stack = <<>>
    /\ expiring = TRUE /\ prev = {} /\ ports = {} /\ path_map = <<>>

(***************************************************************************)
(* The spanning tree.                                                      *)
(***************************************************************************)
BothWays(links) == {l \in links : flip(l) \in links}

\* The culled links: of every connected pair one link that goes both ways.  Which one
\* depends on the order of a dictionary.
Culled(links) ==
    LET good == BothWays(links)
        pairs == {{l.dpid1, l.dpid2} : l \in good}
        between == {{l \in good : {l.dpid1, l.dpid2} = p /\ l.dpid1 < l.dpid2} : p \in pairs}
    IN  {c \cup {flip(l) : l \in c} : c \in Choices(between)}

TakenUnvisited(adj, v, done, tree) ==   \* mutant: asks whether the neighbour was visited
    {l \in adj : l.dpid1 = v /\ l.dpid2 \notin done}

\* The links over which a visited switch takes its neighbours into the tree.
Taken(adj, v, done, tree) ==
    {l \in adj : l.dpid1 = v /\ l.dpid2 \notin {k.dpid1 : k \in tree}}

\* Switches are taken from the front of q until none is left.
_calc_spanning_tree(adj) ==
    LET all == {l.dpid1 : l \in adj}
        grow[q \in Seq(all), done \in SUBSET all, tree \in SUBSET adj] ==
            IF q = <<>> THEN tree
            ELSE LET v == Head(q)
                     new == Taken(adj, v, done, tree)
                 IN  IF v \in done THEN grow[Tail(q), done, tree]
                     ELSE grow[SetToSortSeq({l.dpid2 : l \in new}, <) \o Tail(q), done \cup {v},
                               tree \cup new \cup {flip(l) : l \in new}]
    IN  grow[SetToSortSeq(all, <), {}, {}]

isSwitchOnlyPort(links, e) == \E l \in links : e \in {Source(l), Target(l)}

\* Every port of the told switches floods, unless it leads to a switch over a link that
\* is not in the tree.
Told(now, tree) ==
    LET said == {e \in Ends : e[1] \in now /\ e[1] \in _dps} IN
    (prev \ said) \cup {e \in said : isSwitchOnlyPort(adjacency, e) /\ \A l \in tree : Source(l) # e}

(***************************************************************************)
(* The paths of l2_multi.                                                  *)
(***************************************************************************)
\* Paths from i to j over k, where they are shorter.
Via(map, k) ==
    LET over == {ij \in switches \X switches : {<<ij[1], k>>, <<k, ij[2]>>} \subseteq DOMAIN map}
        length(ij) == map[<<ij[1], k>>].dist + map[<<k, ij[2]>>].dist
        better == {ij \in over : ij \notin DOMAIN map \/ length(ij) < map[ij].dist}
    IN  [ij \in DOMAIN map \cup better |->
            IF ij \in better THEN [dist |-> length(ij), via |-> k] ELSE map[ij]]

\* via is 0 for neighbours and for the switch itself.
_calc_paths ==
    LET near == {<<l.dpid1, l.dpid2>> : l \in ports}
        self == {<<d, d>> : d \in switches}
        direct == [ij \in near \cup self |-> [dist |-> IF ij \in self THEN 0 ELSE 1, via |-> 0]]
    IN  FoldLeft(Via, direct, SetToSortSeq(switches, <))

_get_raw_path(map, src, dst) ==
    LET raw[ij \in DOMAIN map] ==
            LET k == map[ij].via IN
            IF ij[1] = ij[2] \/ k = 0 THEN <<>>
            ELSE raw[<<ij[1], k>>] \o <<k>> \o raw[<<k, ij[2]>>]
    IN  raw[<<src, dst>>]

_get_path(map, src, dst) ==
    IF src = dst THEN <<src>> ELSE <<src>> \o _get_raw_path(map, src, dst) \o <<dst>>

_check_path(p) ==
    \A i \in 1..(Len(p) - 1) : \E l \in ports : l.dpid1 = p[i] /\ l.dpid2 = p[i + 1]

\* A packet for a known address needs a path, and there are none yet.
CalcPaths ==
    /\ Idle /\ path_map = <<>> /\ switches # {}
    /\ path_map' = _calc_paths
    /\ UNCHANGED <<netVars, con, discoveryVars, ports>>

(***************************************************************************)
(* LinkEvents.  The spanning tree is pushed first; then l2_multi tells all *)
(* its switches to forget their flows.  Each of the messages may find a    *)
(* closed socket.                                                          *)
(***************************************************************************)
Frame(links, why) == [left |-> links, cur |-> None, for |-> why, tree |-> {}, untold |-> {}]

Raising(f, l, links) ==
    {[left |-> f.left \ {l}, cur |-> l, for |-> f.for,
      tree |-> t, untold |-> {k.dpid1 : k \in t}] :
        t \in {_calc_spanning_tree(adj) : adj \in Culled(links)}}

\* A link of _deleteLinks goes.  The loop ends with a KeyError when a ConnectionDown
\* inside it has deleted the link before; that also ends the timer that called it.
DeleteLink ==
    /\ ~Idle /\ Head(stack).cur = None
    /\ \E l \in Head(stack).left :
        IF l \in adjacency
        THEN /\ adjacency' = adjacency \ {l}
             /\ \E f \in Raising(Head(stack), l, adjacency') : stack' = <<f>> \o Tail(stack)
             /\ UNCHANGED expiring
        ELSE /\ stack' = Tail(stack)
             /\ expiring' = (expiring /\ Head(stack).for # "expire")
             /\ UNCHANGED adjacency
    /\ UNCHANGED <<netVars, con, packets, lldp, prev, ports, path_map>>

\* Connection.disconnect, and Discovery's handler of the ConnectionDown it raises.
Disconnect(d, below) ==
    LET links == {l \in adjacency : d \in {l.dpid1, l.dpid2}} IN
    /\ con' = [con EXCEPT ![d] = "down"]
    /\ packets' = {e \in packets : e[1] # d}
    /\ stack' = IF links = {} THEN below ELSE <<Frame(links, "down")>> \o below

\* The switches are told what changes for them; the first closed socket that this finds
\* comes in between.
PushTree ==
    /\ ~Idle /\ Head(stack).untold # {}
    /\ \E now \in SUBSET Head(stack).untold \ {{}} :
        LET tree == Head(stack).tree
            below == <<[Head(stack) EXCEPT !.untold = @ \ now]>> \o Tail(stack)
            found == {d \in now : con[d] = "closed" /\ Told({d}, tree) # prev}
        IN  /\ prev' = Told(now, tree)
            /\ \/ found = {} /\ now = Head(stack).untold /\ stack' = below /\ UNCHANGED <<con, packets>>
               \/ \E d \in Dpids : found = {d} /\ Disconnect(d, below)
    /\ UNCHANGED <<netVars, lldp, adjacency, expiring, ports, path_map>>

NoticeClosed ==
    /\ ~Idle /\ Head(stack).cur # None /\ Head(stack).untold = {}
    /\ \E d \in switches : con[d] = "closed" /\ Disconnect(d, stack)
    /\ UNCHANGED <<netVars, lldp, adjacency, expiring, prev, ports, path_map>>

Others(l) == {k \in ports : {k.dpid1, k.dpid2} # {l.dpid1, l.dpid2}}

\* Another link that goes both ways takes its place.
LinkRemoved(l) ==
    LET same == {k \in BothWays(adjacency) : k.dpid1 = l.dpid1 /\ k.dpid2 = l.dpid2} IN
    IF same = {} THEN ports' = Others(l)
    ELSE \E k \in same : ports' = Others(l) \cup {k, flip(k)}

LinkAdded(l) ==
    ports' = IF Others(l) = ports /\ flip(l) \in adjacency THEN ports \cup {l, flip(l)} ELSE ports

KeptPathsWhenAdded(why) ==      \* mutant: a new link breaks no path
    IF why = "add" THEN path_map ELSE <<>>

KeptPaths(why) == <<>>

\* The rest of l2_multi's handler.
HandleLinkEvent ==
    /\ ~Idle /\ Head(stack).cur # None /\ Head(stack).untold = {}
    /\ \A d \in switches : con[d] # "closed"
    /\ path_map' = KeptPaths(Head(stack).for)
    /\ LET f == Head(stack) IN
        /\ IF f.for = "add" THEN LinkAdded(f.cur) ELSE LinkRemoved(f.cur)
        /\ stack' = IF f.left = {} THEN Tail(stack)
                    ELSE <<Frame(f.left, f.for)>> \o Tail(stack)
    /\ UNCHANGED <<netVars, con, packets, lldp, adjacency, expiring, prev>>

(***************************************************************************)
(* Discovery.                                                              *)
(***************************************************************************)
ConnectionUp(d) ==
    /\ Idle /\ con[d] \in {"never", "down"}
    /\ con' = [con EXCEPT ![d] = "open"]
    /\ packets' = {e \in packets : e[1] # d} \cup {e \in Ends : e[1] = d}
    /\ UNCHANGED <<netVars, lldp, adjacency, stack, expiring, prev, ports, path_map>>

\* The packet of a port goes out; a closed socket is found here at the latest.
TimerHandler(e) ==
    /\ Idle /\ e \in packets
    /\ IF con[e[1]] = "closed"
       THEN Disconnect(e[1], <<>>) /\ UNCHANGED lldp
       ELSE /\ lldp' = lldp \cup {l \in Cables : Source(l) = e /\ Carries(l) /\ con[l.dpid2] = "open"}
            /\ Cardinality(lldp') <= MaxFlight
            /\ UNCHANGED <<con, packets, stack>>
    /\ UNCHANGED <<netVars, adjacency, expiring, prev, ports, path_map>>

PacketIn ==
    /\ Idle
    /\ \E l \in lldp :
        /\ lldp' = lldp \ {l}
        /\ IF l.dpid1 \in _dps /\ l \notin adjacency
           THEN /\ adjacency' = adjacency \cup {l}
                /\ \E f \in Raising(Frame({}, "add"), l, adjacency') : stack' = <<f>>
           ELSE UNCHANGED <<adjacency, stack>>
    /\ UNCHANGED <<netVars, con, packets, expiring, prev, ports, path_map>>

Expire(links) ==
    /\ Idle /\ expiring /\ links # {}
    /\ stack' = <<Frame(links, "expire")>>
    /\ UNCHANGED <<netVars, con, packets, lldp, adjacency, expiring, prev, ports, path_map>>

PortAdded(e) ==
    /\ Idle /\ con[e[1]] = "open" /\ e \notin packets
    /\ packets' = packets \cup {e}
    /\ UNCHANGED <<netVars, con, lldp, adjacency, stack, expiring, prev, ports, path_map>>

PortDeleted(e) ==
    /\ Idle /\ faults > 0 /\ con[e[1]] = "open" /\ e \in packets
    /\ packets' = packets \ {e}
    /\ cut' = cut \cup {l \in topology : e \in {Source(l), Target(l)}}
    /\ faults' = faults - 1
    /\ UNCHANGED <<setup, con, lldp, adjacency, stack, expiring, prev, ports, path_map>>

(***************************************************************************)
(* The network.                                                            *)
(***************************************************************************)
Close(d) ==
    /\ Idle /\ faults > 0 /\ con[d] = "open"
    /\ con' = [con EXCEPT ![d] = "closed"]
    /\ faults' = faults - 1
    /\ UNCHANGED <<setup, cut, discoveryVars, ports, path_map>>

Cut(l) ==
    /\ Idle /\ faults > 0 /\ l \notin cut
    /\ cut' = cut \cup {l}
    /\ faults' = faults - 1
    /\ UNCHANGED <<setup, con, discoveryVars, ports, path_map>>

Mend(l) ==
    /\ Idle /\ l \in cut
    /\ \A e \in {Source(l), Target(l)} : con[e[1]] = "open" => e \in packets
    /\ cut' = cut \ {l}
    /\ UNCHANGED <<setup, faults, con, discoveryVars, ports, path_map>>

\* The steps that learned hosts have no part in.
Elsewhere ==
    \/ DeleteLink \/ PushTree \/ NoticeClosed
    \/ PacketIn
    \/ \E links \in SUBSET adjacency : Cardinality(links) <= setup.overdue /\ Expire(links)
    \/ \E d \in Dpids : ConnectionUp(d) \/ Close(d)
    \/ \E e \in Ends : TimerHandler(e) \/ PortAdded(e) \/ PortDeleted(e)
    \/ \E l \in topology : Cut(l) \/ Mend(l)

Next == HandleLinkEvent \/ CalcPaths \/ Elsewhere

Spec == Init /\ [][Next]_vars

(***************************************************************************)
(* Properties.                                                             *)
(***************************************************************************)
\* The switches at most n links from s.
Within(links, s, n) ==
    LET within[k \in 0..n] ==
            IF k = 0 THEN {s}
            ELSE LET near == within[k - 1] IN
                 near \cup {l.dpid2 : l \in {j \in links : j.dpid1 \in near}}
    IN  within[n]

\* What l2_multi takes for the neighbours of a switch is what Discovery knows once all
\* handlers are done: two switches for which a link goes both ways are neighbours, over
\* one link, and all neighbours are linked, in one direction at least.
NeighboursAgree ==
    Idle =>
        /\ \A l \in ports : flip(l) \in ports /\ {l, flip(l)} \cap adjacency # {}
        /\ \A l, k \in ports : l.dpid1 = k.dpid1 /\ l.dpid2 = k.dpid2 => l = k
        /\ \A l \in BothWays(adjacency) :
               \E k \in ports : k.dpid1 = l.dpid1 /\ k.dpid2 = l.dpid2

\* However the links come and go, no frame can be flooded in circles: the links that go
\* both ways and have a flooding port at each end, as far as the ports have heard what
\* they were told, are a forest.
FloodsEnd ==
    Idle => LET open == {l \in BothWays(adjacency) : {Source(l), Target(l)} \cap prev = {}} IN
    \A l \in open : l.dpid2 \notin Within(open \ {l, flip(l)}, l.dpid1, Cardinality(Dpids))

\* The paths that are kept are paths of the present network, and the shortest: they are
\* forgotten with every change of a link.
PathsShortest ==
    Idle /\ path_map # <<>> =>
        \A s, t \in switches :
            LET near(n) == Within(ports, s, n) IN
            IF t \in near(Cardinality(Dpids))
            THEN (s = t \/ <<s, t>> \in DOMAIN path_map) /\ LET p == _get_path(path_map, s, t) IN
                 /\ _check_path(p) /\ t \in near(Len(p) - 1)
                 /\ Len(p) > 1 => t \notin near(Len(p) - 2)
            ELSE <<s, t>> \notin DOMAIN path_map

\* What l2_multi sends over its paths goes where Discovery has seen links: the neighbours
\* are right, and the paths between them.
PathsFollowLinks == NeighboursAgree /\ PathsShortest

\* When a switch has left, its links are forgotten ("On datapath leave, delete all
\* associated links").
LeavingForgets == Idle => \A l \in adjacency : l.dpid1 \in _dps

\* Neighbours are linked in both directions ("If the link exists in both directions, we
\* consider them connected now").
LinkedBothWays == Idle => ports \subseteq adjacency

\* The timer that expires links goes on for ever ("Called periodially by a timer").
ExpiryGoesOn == expiring
=============================================================================
