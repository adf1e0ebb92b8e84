------------------------------- MODULE Switch -------------------------------
(***************************************************************************)
(* The software switch for several controllers (SwitchImpl and             *)
(* ControllerConnection of pox/openflow/switch_impl.py, NXSwitchImpl of    *)
(* pox/openflow/nx_switch_impl.py) with the learning switch application of *)
(* pox/forwarding/l2_learning.py behind each of its connections.           *)
(*                                                                         *)
(* A packet is [src, dst, next]: two addresses and what the Ethernet       *)
(* header is followed by.  The entries of the table never expire: nothing  *)
(* calls remove_expired_entries.                                           *)
(***************************************************************************)
EXTENDS FlowTable

CONSTANTS
    Conns,          \* controller connections, in the order they are made
    Hosts,          \* addresses of hosts
    Group,          \* a multicast address
    Filtered,       \* a bridge-filtered address (or an LLDP packet's)
    Ports,          \* port numbers
    Home,           \* host |-> the port it is attached to at first
    Requests,       \* other messages the controllers send
    MaxEvents       \* bound: packets and requests sent, hosts and ports that change

OFPP_MAX == 1000    \* ports have smaller numbers
FLOOD == 1001   CONTROLLER == 1002   IN_PORT == 1003

ASSUME SwitchAssumption ==
    /\ Conns \subseteq Nat \ {0} /\ IsFiniteSet(Conns) /\ Ports \subseteq 1 .. OFPP_MAX - 1
    /\ Home \in [Hosts -> Ports] /\ Wild \notin Hosts
    /\ MaxEvents \in Nat
\* Only a flow_mod and a packet_out name a buffer.  The other messages have no packet
\* and no actions either, of which nothing is asked but their form.
ASSUME RequestAssumption ==
    \A m \in Requests :
        /\ m.buffer_id \in Nat
        /\ m.type \notin {"flow_mod", "packet_out"} => m.buffer_id = 0
        /\ m.pkt = [src |-> m.pkt.src, dst |-> m.pkt.dst, next |-> m.pkt.next]
        /\ Len(m.actions) \in Nat /\ m.actions = [i \in 1..Len(m.actions) |-> m.actions[i]]

VARIABLES
    table, buffer, ports,           \* SwitchImpl
    role, connection_in_action,     \* NXSwitchImpl; DOMAIN role is connections
    next_other,
    toSwitch, waiting, reading,     \* messages to the switch; in its receive buffer;
                                    \* the connection whose read is running
    toCtl,                          \* packet_ins on their way to a controller
    macToPort, settled,             \* LearningSwitch; connected longer than FLOOD_DELAY
    at,                             \* host |-> the port it is attached to
    out,                            \* what the last step sent on ports
    stuck,                          \* buffers that no answer can free any more
    seen,                           \* <<host, port>>: the host has sent from the port
    faulty,                         \* did a handler raise after the last one that did not?
    events

switchVars == <<table, buffer, ports, role, connection_in_action, next_other>>
wireVars == <<toSwitch, waiting, reading, toCtl>>
appVars == <<macToPort, settled>>
ghosts == <<out, stuck, seen, faulty>>
vars == <<switchVars, wireVars, appVars, at, ghosts, events>>

None == 0                               \* connections are numbered from 1

Packet(s, d) == [src |-> s, dst |-> d, next |-> "ip"]
Free == [pkt |-> Packet("nobody", "nobody"), in_port |-> 0]

Act(t, v) == [type |-> t, arg |-> v]
Output(p) == Act("output", p)
\* Messages to the switch.
Msg(t, id, pkt, acts) == [type |-> t, buffer_id |-> id, pkt |-> pkt, actions |-> acts]
\* No list of actions sends to the controller twice.  (The switch would buffer and
\* announce the packet each time; output_packet keeps the last.)
ASSUME OneToController ==
    \A m \in Requests : \A i, j \in 1..Len(m.actions) :
        m.actions[i] = Output(CONTROLLER) /\ m.actions[j] = Output(CONTROLLER) => i = j
flow_mod(id, pkt, acts) == Msg("flow_mod", id, pkt, acts)
packet_out(id, acts) == Msg("packet_out", id, Free.pkt, acts)

Init ==
    /\ table = <<>> /\ buffer = <<>> /\ ports = Ports
    /\ role = <<>> /\ connection_in_action = None /\ next_other = 0
    /\ toSwitch = [c \in Conns |-> <<>>] /\ waiting = [c \in Conns |-> <<>>] /\ reading = None
    /\ toCtl = [c \in Conns |-> <<>>]
    /\ macToPort = [c \in Conns |-> <<>>] /\ settled = {}
    /\ at = Home
    /\ out = <<>> /\ stuck = {} /\ seen = {} /\ faulty = FALSE
    /\ events = 0

-----------------------------------------------------------------------------
(* _process_actions_for_packet: r is [pkt, outs, ctl, raised], where ctl   *)
(* is what is sent to the controller, at most one packet                   *)
(* (OneToController).                                                      *)

\* FLOOD sends on every port but in_port.
OutPorts(p, in_port) ==
    CASE p = FLOOD -> ports \ {in_port}
      [] p = IN_PORT -> {in_port}
      [] p = CONTROLLER -> {}
      [] OTHER -> {p}

output_packet(r, a, in_port) ==
    LET to == OutPorts(a.arg, in_port) IN
    IF to \subseteq ports
      THEN [r EXCEPT !.outs = Append(@, [pkt |-> r.pkt, to |-> to, port |-> a.arg]),
                     !.ctl = IF a.arg = CONTROLLER THEN <<r.pkt>> ELSE @]
      ELSE [r EXCEPT !.raised = TRUE]

\* The other handlers.  set_vlan_vid reads action.vlan_id and enqueue reads
\* action.tp_port, which do not exist; set_nw_* and set_tp_* assign attributes
\* that no header is packed from; a pushed label has no payload, which pop_mpls
\* tries to pack.
rewrite(r, a) ==
    CASE a.type = "set_dl_src" -> [r EXCEPT !.pkt.src = a.arg]
      [] a.type = "set_dl_dst" -> [r EXCEPT !.pkt.dst = a.arg]
      [] a.type = "set_vlan_pcp" -> [r EXCEPT !.pkt.next = "vlan"]
      [] a.type = "set_vlan_vid" -> [r EXCEPT !.pkt.next = "vlan", !.raised = TRUE]
      [] a.type = "strip_vlan" -> IF r.pkt.next = "vlan" THEN [r EXCEPT !.pkt.next = "nothing"] ELSE r
      [] a.type \in {"push_mpls", "set_mpls_label", "set_mpls_tc", "set_mpls_ttl"} ->
           [r EXCEPT !.pkt.next = "mpls"]
      [] a.type = "pop_mpls" -> [r EXCEPT !.raised = r.pkt.next = "mpls"]
      [] a.type \in {"set_nw_src", "set_nw_dst", "set_nw_tos", "set_tp_src", "set_tp_dst",
                     "dec_mpls_ttl"} -> r
      [] OTHER -> [r EXCEPT !.raised = TRUE]

act(r, a, in_port) ==
    IF r.raised THEN r
    ELSE IF a.type = "output" THEN output_packet(r, a, in_port)
    ELSE rewrite(r, a)

\* One action after the other; one that raises is the last.
process_actions(acts, pkt, in_port) ==
    LET r[n \in 0..Len(acts)] ==
          IF n = 0 THEN [pkt |-> pkt, outs |-> <<>>, ctl |-> <<>>, raised |-> FALSE]
          ELSE act(r[n - 1], acts[n], in_port)
    IN r[Len(acts)]

\* _buffer_packet: the first free slot, or a new one; there is no upper limit.
SlotFor(b) == SelectInSeq(b, LAMBDA s : s = Free)
buffer_packet(b, pkt, in_port) ==
    LET s == [pkt |-> pkt, in_port |-> in_port] IN
    IF SlotFor(b) = 0 THEN Append(b, s) ELSE [b EXCEPT ![SlotFor(b)] = s]
buffer_id(b) == IF SlotFor(b) = 0 THEN Len(b) + 1 ELSE SlotFor(b)

-----------------------------------------------------------------------------
(* NXSwitchImpl.send: to the connection whose message is being handled,    *)
(* else to the master, else to the others in turn.                         *)

connections == DOMAIN role
WithRole(r) == {c \in connections : role[c] = r}

Receiver(active) ==
    IF active # None THEN active
    ELSE IF WithRole("master") # {} THEN Nth(WithRole("master"), 0)
    ELSE IF WithRole("other") # {}
      THEN Nth(WithRole("other"), next_other % Cardinality(WithRole("other")))
    ELSE None

InTurn(active) == active = None /\ WithRole("master") = {} /\ WithRole("other") # {}

send_packet_in(c, id, pkt, in_port) ==
    toCtl' = IF c = None THEN toCtl
             ELSE [toCtl EXCEPT ![c] = Append(@, [id |-> id, pkt |-> pkt, in_port |-> in_port])]

\* Output to the controller keeps the packet itself, with all that is done to it.
Kept(r, in_port) == IF r.ctl = <<>> THEN buffer ELSE buffer_packet(buffer, r.pkt, in_port)

Emit(r, in_port, active) ==
    /\ out' = r.outs
    /\ IF r.ctl = <<>> THEN UNCHANGED <<toCtl, next_other>>
       ELSE /\ send_packet_in(Receiver(active), buffer_id(buffer), r.ctl[1], in_port)
            /\ next_other' = IF InTurn(active)
                               THEN (next_other % Cardinality(WithRole("other"))) + 1
                             ELSE next_other

-----------------------------------------------------------------------------
(* The data plane.                                                         *)

process_packet(pkt, in_port) ==
    LET e == entry_for_packet(table, Match(in_port, pkt.src, pkt.dst, AnyNw))
        r == process_actions(IF e = NoEntry THEN <<Output(CONTROLLER)>> ELSE e.actions, pkt, in_port) IN
    Emit(r, in_port, connection_in_action) /\ buffer' = Kept(r, in_port)

HostSends(h) ==
    /\ reading = None /\ at[h] \in ports
    /\ events < MaxEvents /\ events' = events + 1
    /\ \E d \in (Hosts \ {h}) \cup {Group, Filtered} : process_packet(Packet(h, d), at[h])
    /\ seen' = seen \cup {<<h, at[h]>>}
    /\ stuck' = IF buffer' # buffer /\ Receiver(connection_in_action) = None
                  THEN stuck \cup {buffer_id(buffer)} ELSE stuck
    /\ UNCHANGED <<table, ports, role, connection_in_action, toSwitch, waiting, reading, appVars, at,
                   faulty>>

HostMoves(h) ==
    /\ reading = None /\ events < MaxEvents /\ events' = events + 1
    /\ \E p \in Ports \ {at[h]} : at' = [at EXCEPT ![h] = p]
    /\ out' = <<>>
    /\ UNCHANGED <<switchVars, wireVars, appVars, stuck, seen, faulty>>

\* take_port_down and bring_port_up; the controllers' application ignores the
\* port_status that all of them are sent.
PortChanges(p) ==
    /\ reading = None /\ events < MaxEvents /\ events' = events + 1
    /\ ports' = IF p \in ports THEN ports \ {p} ELSE ports \cup {p}
    /\ out' = <<>>
    /\ UNCHANGED <<table, buffer, role, connection_in_action, next_other, wireVars, appVars, at,
                   stuck, seen, faulty>>

-----------------------------------------------------------------------------
(* The controllers: LearningSwitch._handle_PacketIn.                       *)

Flooded(c, m) == packet_out(m.id, IF c \in settled THEN <<Output(FLOOD)>> ELSE <<>>)

\* The address is where its packet came in.
Learn(f, m) ==
    [h \in DOMAIN f \cup {m.pkt.src} |-> IF h = m.pkt.src THEN m.in_port ELSE f[h]]

AnswerUnbuffered(c, m, known) == packet_out(0, <<Output(FLOOD)>>)
Answer(c, m, known) ==
    CASE m.pkt.dst = Filtered -> packet_out(m.id, <<>>)
      [] m.pkt.dst # Filtered /\ (m.pkt.dst = Group \/ m.pkt.dst \notin DOMAIN known) -> Flooded(c, m)
      [] OTHER ->
           flow_mod(m.id, m.pkt, IF known[m.pkt.dst] = m.in_port THEN <<>>
                                 ELSE <<Output(known[m.pkt.dst])>>)

handle_PacketIn(c) ==
    /\ toCtl[c] # <<>>
    /\ LET m == Head(toCtl[c])
           known == Learn(macToPort[c], m) IN
       /\ macToPort' = [macToPort EXCEPT ![c] = known]
       /\ toSwitch' = [toSwitch EXCEPT ![c] = Append(@, Answer(c, m, known))]
    /\ toCtl' = [toCtl EXCEPT ![c] = Tail(@)]
    /\ out' = <<>>
    /\ UNCHANGED <<switchVars, waiting, reading, settled, at, stuck, seen, faulty, events>>

\* FLOOD_DELAY seconds pass.
Settle ==
    /\ DOMAIN role \ settled # {} /\ settled' = DOMAIN role
    /\ out' = <<>>
    /\ UNCHANGED <<switchVars, wireVars, macToPort, at, stuck, seen, faulty, events>>

\* Another component of the controller sends a message of its own.
Request(c) ==
    /\ c \in DOMAIN role /\ events < MaxEvents /\ events' = events + 1
    /\ \E m \in Requests : toSwitch' = [toSwitch EXCEPT ![c] = Append(@, m)]
    /\ out' = <<>>
    /\ UNCHANGED <<switchVars, waiting, reading, toCtl, appVars, at, stuck, seen, faulty>>

-----------------------------------------------------------------------------
(* The switch's side of a connection.                                      *)

add_connection(c) ==
    /\ reading = None /\ c \notin DOMAIN role
    /\ \A d \in Conns : d < c => d \in DOMAIN role
    /\ role' = [d \in DOMAIN role \cup {c} |-> IF d = c THEN "other" ELSE role[d]]
    /\ out' = <<>>
    /\ UNCHANGED <<table, buffer, ports, connection_in_action, next_other, wireVars, appVars, at,
                   stuck, seen, faulty, events>>

\* The I/O worker appends what arrived to the receive buffer and calls read.
ReadBegins(c) ==
    /\ reading = None /\ toSwitch[c] # <<>>
    /\ \E n \in 1..Len(toSwitch[c]) :
         /\ waiting' = [waiting EXCEPT ![c] = @ \o SubSeq(toSwitch[c], 1, n)]
         /\ toSwitch' = [toSwitch EXCEPT ![c] = SubSeq(@, n + 1, Len(@))]
    /\ reading' = c
    /\ out' = <<>>
    /\ UNCHANGED <<switchVars, toCtl, appVars, at, stuck, seen, faulty, events>>

blacklist_without_packet_out == {"flow_mod", "port_mod", "barrier"}
slave_blacklist == {"flow_mod", "packet_out", "port_mod", "barrier"}
check_rights(c, m) == role[c] # "slave" \/ m.type \notin slave_blacklist

\* The messages whose handlers only reply, and those whose handlers raise
\* whatever is asked.
Answered == {"hello", "echo", "features", "barrier", "get_config", "set_config", "desc_stats",
             "echo_reply", "vendor"}
Raising == {"flow_stats", "port_stats", "aggregate_stats", "table_stats", "queue_stats"}

set_role(c, r) ==
    role' = [d \in DOMAIN role |-> IF d = c THEN r ELSE IF r = "master" THEN "slave" ELSE role[d]]

\* What a handler ends with: connection_in_action is reset unless it raised,
\* and read goes on with the next message unless it raised.
Ends(c, raised) ==
    /\ connection_in_action' = IF raised THEN c ELSE None
    /\ reading' = IF raised \/ Len(waiting[c]) = 1 THEN None ELSE c
    /\ faulty' = raised

\* Actions for the packet in a buffer, which is free afterwards unless they raise.
FromBuffer(c, m, id) ==
    IF id \notin 1..Len(buffer) \/ buffer[id] = Free
      THEN /\ Ends(c, id = Len(buffer) + 1)
           /\ out' = <<>> /\ UNCHANGED <<buffer, toCtl, next_other, stuck>>
      ELSE LET s == buffer[id]
               r == process_actions(m.actions, s.pkt, s.in_port) IN
           /\ Ends(c, r.raised) /\ Emit(r, s.in_port, c)
           /\ buffer' = [Kept(r, s.in_port) EXCEPT ![id] = IF r.raised THEN [s EXCEPT !.pkt = r.pkt] ELSE Free]
           /\ stuck' = IF r.raised THEN stuck \cup {id} ELSE stuck

receive_flow_mod(c, m) ==
    /\ m.type = "flow_mod"
    /\ table' = process_flow_mod(table, [command |-> "add",
                  entry |-> Entry(2^15, from_packet_any_port(Match(0, m.pkt.src, m.pkt.dst, AnyNw)),
                                  m.actions)])
    /\ IF m.buffer_id > 0 THEN FromBuffer(c, m, m.buffer_id)
       ELSE Ends(c, FALSE) /\ out' = <<>> /\ UNCHANGED <<buffer, toCtl, next_other, stuck>>
    /\ UNCHANGED role

receive_packet_out(c, m) ==
    /\ m.type = "packet_out"
    /\ IF m.buffer_id > 0 THEN FromBuffer(c, m, m.buffer_id)
       ELSE LET r == process_actions(m.actions, m.pkt, 0) IN
            Ends(c, r.raised) /\ Emit(r, 0, c) /\ buffer' = Kept(r, 0) /\ UNCHANGED stuck
    /\ UNCHANGED <<table, role>>

receive_role_request(c, m) ==
    /\ m.type \in {"master", "slave", "other"}
    /\ set_role(c, m.type)
    /\ Ends(c, FALSE) /\ out' = <<>>
    /\ UNCHANGED <<table, buffer, next_other, toCtl, stuck>>

receive_other(c, m) ==
    /\ m.type \in Answered \cup Raising
    /\ Ends(c, m.type \in Raising) /\ out' = <<>>
    /\ UNCHANGED <<table, buffer, role, next_other, toCtl, stuck>>

\* A slave's attempt is answered with an error.
RefuseSlave(c, m) ==
    /\ Ends(c, FALSE) /\ out' = <<>>
    /\ stuck' = IF m.buffer_id > 0 THEN stuck \cup {m.buffer_id} ELSE stuck
    /\ UNCHANGED <<table, buffer, role, next_other, toCtl>>

\* read finds no handler for a port_mod and gives up as after an exception.
NoHandler(c, m) ==
    /\ reading' = None /\ out' = <<>>
    /\ UNCHANGED <<table, buffer, role, connection_in_action, next_other, toCtl, stuck, seen, faulty>>

Handle(c) ==
    /\ reading = c /\ waiting[c] # <<>>
    /\ waiting' = [waiting EXCEPT ![c] = Tail(@)]
    /\ LET m == Head(waiting[c]) IN
       IF m.type = "port_mod" THEN NoHandler(c, m)
       ELSE IF ~ check_rights(c, m) THEN RefuseSlave(c, m)
       ELSE \/ receive_flow_mod(c, m) \/ receive_packet_out(c, m)
            \/ receive_role_request(c, m) \/ receive_other(c, m)
    /\ UNCHANGED <<ports, toSwitch, appVars, at, seen, events>>

Next ==
    \/ \E h \in Hosts : HostSends(h) \/ HostMoves(h)
    \/ \E p \in Ports : PortChanges(p)
    \/ Settle
    \/ \E c \in Conns : \/ add_connection(c) \/ ReadBegins(c) \/ Handle(c)
                        \/ handle_PacketIn(c) \/ Request(c)

Spec == Init /\ [][Next]_vars

-----------------------------------------------------------------------------
Masters == {c \in DOMAIN role : role[c] = "master"}
Asked(id) == \E c \in Conns :
    \/ \E m \in Range(toCtl[c]) : m.id = id
    \/ \E m \in Range(toSwitch[c]) \cup Range(waiting[c]) : m.buffer_id = id

\* Every packet that waits in a buffer still has an answer coming: its packet_in
\* or the answer with its buffer_id is on the way, so that the slot will be freed
\* (_buffer_packet keeps no other limit).  Only three things leave a packet behind:
\* the actions for it raised, its answer came from a controller that had become a
\* slave, or there was no controller to tell of it.
BufferHasAnswer ==
    \A id \in DOMAIN buffer : buffer[id] # Free => Asked(id) \/ id \in stuck

\* There is one master at most, whatever roles the controllers ask for.  A packet_in
\* answers the message that is being handled, or goes to the master when there is one;
\* after a handler raised, connection_in_action still names its connection and attracts
\* the packet_ins until another message is handled.  What a slave sends never changes the
\* flow table, frees a buffer or sends a packet (NXSwitchImpl).
KeepsRoles ==
    /\ Cardinality(Masters') <= 1
    /\ \A c \in Conns : Len(toCtl'[c]) > Len(toCtl[c]) =>
         c = reading \/ faulty \/ Masters \in {{}, {c}}
    /\ \A c \in DOMAIN role : role[c] = "slave" /\ reading = c =>
         table' = table /\ buffer' = buffer /\ out' = <<>>
RolesKept == [][KeepsRoles]_vars

\* The requests leave the sending to the learning switches: they name no buffer, send
\* on no port of a number, forge no source address, and readdress no packet that they
\* have sent to the controller (the buffer would hold it under its new address).
LeavesHosts(acts) ==
    /\ \A i \in DOMAIN acts :
         /\ acts[i].type # "set_dl_src"
         /\ acts[i].type = "output" => acts[i].arg \notin Ports
    /\ \A i, j \in DOMAIN acts :
         i < j /\ acts[i].type = "output" /\ acts[i].arg = CONTROLLER => acts[j].type # "set_dl_dst"
RequestsApart ==
    \A m \in Requests :
        /\ m.buffer_id = 0 /\ LeavesHosts(m.actions)
        /\ m.type = "packet_out" => m.pkt.src \notin {Wild, Free.pkt.src}

\* A packet for a host is sent to a port of its own only if that host has sent
\* from that port before: a controller learned it there, and no entry of another
\* flow catches the packet.
SentWhereSeen ==
    \A i \in DOMAIN out :
      out[i].port \in Ports /\ out[i].pkt.dst \in Hosts => <<out[i].pkt.dst, out[i].port>> \in seen

\* "all other messages are distributed to the master controller".
MasterGetsAsync ==
    [][\A c \in Conns : Len(toCtl'[c]) > Len(toCtl[c]) =>
         c = reading \/ Masters \in {{}, {c}}]_vars
=============================================================================
