----------------------------- MODULE VnsSession -----------------------------
(***************************************************************************)
(* The session between sr processes (router/sr_vns_comm.c, sr_main.c) and  *)
(* the bridge in the POX controller (pox_module/cs561/srhandler.py and     *)
(* ofhandler.py, the side towards the switch).                             *)
(*                                                                         *)
(* The bridge runs in two threads: Twisted's reactor accepts connections   *)
(* and answers messages; POX's own thread delivers OpenFlow events and     *)
(* broadcasts a packet by walking srclients.  A connection is a pair of    *)
(* FIFO queues of messages (TCP; Twisted and ltprotocol are external).  A  *)
(* Session is one run of sr with its connection; a restart is another.     *)
(***************************************************************************)
EXTENDS Integers, Sequences, SequencesExt

CONSTANTS
    Session,      \* runs of sr
    Interface,    \* the names the bridge has addresses for (ROUTER_IP); the
                  \* port of a switch that is named so stands for it too
    Announced,    \* the sets of interfaces that a switch may have ports for
    MaxPackets,   \* bound: packets the switch sends up
    MaxSwitch,    \* bound: times the switch connects
    KeyFile,      \* the runs that find a readable file auth_key
    RTable        \* the interfaces that the routing table of a run names

ASSUME BoundAssumption == MaxPackets \in Nat /\ MaxSwitch \in Nat
ASSUME ConfigAssumption == KeyFile \subseteq Session
                           /\ Announced \subseteq SUBSET Interface
                           /\ RTable \in [Session -> SUBSET Interface]

VARIABLES
    pc,          \* what each sr process expects, or how it ended
    if_list,     \* sr->if_list: the interfaces VNSHWINFO has brought
    toSr,        \* messages on their way to sr
    toPox,       \* messages on their way to the bridge
    srv,         \* the bridge's side of each connection
    srclients,   \* SRServerListener.srclients
    ofhandlers,  \* the OFHandlers ever made, each with its connection; all of
                 \* them listen to SRPacketOut: TRUE while its switch is there
    interfaces,  \* self.interfaces, which exists once there is an OFHandler
    ports,       \* the keys of intfname_to_port and port_to_intfname
    walk,        \* next index of broadcast's loop, 0 when there is none
    message,     \* the packet it broadcasts
    packets,     \* packets broadcast so far
    down         \* the controller process has ended

pox == <<ofhandlers, interfaces, ports, walk, message, packets, down>>
vars == <<pc, if_list, toSr, toPox, srv, srclients, pox>>

Handshake == {"expect_auth_request", "expect_auth_status"}
Ended == {"failed", "aborted", "exited", "killed"}
Reading(s) == pc[s] \in Handshake \cup {"main"}

\* A message: its type, the interfaces it names, and its size as sr sees it: a
\* frame shorter than an ARP packet, a whole one, or a message of more than
\* 10000 octets (the bridge has the switch send up to 20000 of a packet).
Message(types) ==
    [type : types, about : SUBSET Interface, size : {"short", "whole", "long"}]
SrMessage == Message({"auth_request", "auth_status", "hwinfo", "packet"})
PoxMessage == Message({"auth_reply", "open", "packet"})
Plain(type) == [type |-> type, about |-> {}, size |-> "short"]
Hwinfo(names) == [type |-> "hwinfo", about |-> names, size |-> "short"]
Packet(name, size) == [type |-> "packet", about |-> {name}, size |-> size]

Init ==
    /\ pc = [s \in Session |-> "off"]
    /\ if_list = [s \in Session |-> {}]
    /\ toSr = [s \in Session |-> <<>>]
    /\ toPox = [s \in Session |-> <<>>]
    /\ srv = [s \in Session |-> "none"]
    /\ srclients = <<>>
    /\ ofhandlers = <<>>
    /\ interfaces = {} /\ ports = {}
    /\ walk = 0 /\ message = Plain("packet")
    /\ packets = 0
    /\ down = FALSE

ToSr(s, m) == toSr' = [toSr EXCEPT ![s] = Append(@, m)]
ToPox(s, m) == toPox' = [toPox EXCEPT ![s] = Append(@, m)]

-----------------------------------------------------------------------------
(* The sr process.                                                         *)

\* sr_connect_to_server: connect(), then wait for the authentication.
Connect(s) ==
    /\ pc[s] = "off" /\ ~down
    /\ pc' = [pc EXCEPT ![s] = "expect_auth_request"]
    /\ srv' = [srv EXCEPT ![s] = "connecting"]
    /\ UNCHANGED <<if_list, toSr, toPox, srclients, pox>>

\* sr_read_from_server_expect has a whole message of a type, takes it and goes
\* on; or the process ends, and what it has not read is lost.
Comes(s, type) == /\ toSr[s] # <<>> /\ Head(toSr[s]).type = type
                  /\ Head(toSr[s]).size # "long"
GoesOn(s, to) == /\ pc' = [pc EXCEPT ![s] = to]
                 /\ toSr' = [toSr EXCEPT ![s] = Tail(@)]
Ends(s, how) == /\ pc' = [pc EXCEPT ![s] = how]
                /\ toSr' = [toSr EXCEPT ![s] = <<>>]

\* sr_handle_auth_request answers with the salted key, or fails without one.
ReadAuthRequest(s) ==
    /\ pc[s] = "expect_auth_request"
    /\ Comes(s, "auth_request")
    /\ IF s \in KeyFile
         THEN ToPox(s, Plain("auth_reply")) /\ GoesOn(s, "expect_auth_status")
         ELSE Ends(s, "failed") /\ UNCHANGED toPox
    /\ UNCHANGED <<if_list, srv, srclients, pox>>

\* sr_handle_auth_status, then VNSOPEN; sr_init and the main loop follow
\* without waiting for an answer.
ReadAuthStatus(s) ==
    /\ pc[s] = "expect_auth_status"
    /\ Comes(s, "auth_status")
    /\ ToPox(s, Plain("open"))
    /\ GoesOn(s, "main")
    /\ UNCHANGED <<if_list, srv, srclients, pox>>

\* Any other command than the expected one, or one that is too long:
\* connecting fails.
ReadUnexpected(s) ==
    /\ pc[s] \in Handshake
    /\ toSr[s] # <<>>
    /\ Head(toSr[s]).type # (IF pc[s] = "expect_auth_request" THEN "auth_request"
                                                              ELSE "auth_status")
    /\ Ends(s, "failed")
    /\ UNCHANGED <<if_list, toPox, srv, srclients, pox>>

\* sr_verify_routing_table: there are interfaces and routes, and every route
\* uses an interface that is there.
Verified(s, list) == list # {} /\ RTable[s] # {} /\ RTable[s] \subseteq list

\* sr_handle_hwinfo appends the interfaces to if_list; a routing table that
\* does not fit ends the main loop.
ReadHwinfo(s) ==
    /\ pc[s] = "main"
    /\ Comes(s, "hwinfo")
    /\ if_list' = [if_list EXCEPT ![s] = @ \cup Head(toSr[s]).about]
    /\ IF Verified(s, if_list'[s]) THEN GoesOn(s, "main") ELSE Ends(s, "exited")
    /\ UNCHANGED <<toPox, srv, srclients, pox>>

\* The process aborts: assert(iface) of sr_arp_req_not_for_us, which looks at
\* frames that could be ARP, or assert(my_ifs) of check_ethernet.
Aborts(m, list) == list = {} \/ (m.size = "whole" /\ ~(m.about \subseteq list))

ReadPacketDropEnds(s, reply) ==
    /\ pc[s] = "main"
    /\ Comes(s, "packet")
    /\ IF Aborts(Head(toSr[s]), if_list[s]) THEN Ends(s, "aborted") /\ UNCHANGED toPox
       ELSE IF reply THEN GoesOn(s, "main") /\ ToPox(s, Plain("packet"))
       ELSE Ends(s, "exited") /\ UNCHANGED toPox
    /\ UNCHANGED <<if_list, srv, srclients, pox>>

\* A packet goes to the router, which may send one (reply), through an
\* interface of its list; a write to a closed connection may kill the process
\* (SIGPIPE).
ReadPacket(s, reply) ==
    /\ pc[s] = "main"
    /\ Comes(s, "packet")
    /\ IF Aborts(Head(toSr[s]), if_list[s])
         THEN Ends(s, "aborted") /\ UNCHANGED toPox
         ELSE /\ GoesOn(s, "main") \/ (reply /\ down /\ Ends(s, "killed"))
              /\ IF reply THEN ToPox(s, Plain("packet")) ELSE UNCHANGED toPox
    /\ UNCHANGED <<if_list, srv, srclients, pox>>

\* A message of more than 10000 octets: the socket is closed, the main loop
\* ends.
ReadTooLong(s) ==
    /\ pc[s] = "main"
    /\ toSr[s] # <<>> /\ Head(toSr[s]).size = "long"
    /\ Ends(s, "exited")
    /\ UNCHANGED <<if_list, toPox, srv, srclients, pox>>

\* The process is stopped from outside.
Kill(s) ==
    /\ Reading(s)
    /\ Ends(s, "killed")
    /\ UNCHANGED <<if_list, toPox, srv, srclients, pox>>

-----------------------------------------------------------------------------
(* The reactor thread of the bridge.                                       *)

\* _handle_new_client: the client is listed first ...
NewClient(s) ==
    /\ ~down /\ srv[s] = "connecting"
    /\ srclients' = Append(srclients, s)
    /\ srv' = [srv EXCEPT ![s] = "listed"]
    /\ UNCHANGED <<pc, if_list, toSr, toPox, pox>>

\* ... and then asked to authenticate.
SendAuthRequest(s) ==
    /\ ~down /\ srv[s] = "listed"
    /\ ToSr(s, Plain("auth_request"))
    /\ srv' = [srv EXCEPT ![s] = "open"]
    /\ UNCHANGED <<pc, if_list, toPox, srclients, pox>>

OnMessage(s, type) ==
    /\ ~down /\ srv[s] = "open"
    /\ toPox[s] # <<>> /\ Head(toPox[s]).type = type
    /\ toPox' = [toPox EXCEPT ![s] = Tail(@)]

\* A write to a transport whose peer is gone has no effect.
Deliver(s, m) == IF pc[s] \in Ended THEN UNCHANGED toSr ELSE ToSr(s, m)

\* _handle_auth_reply: everybody is authenticated.
HandleAuthReply(s) ==
    /\ OnMessage(s, "auth_reply")
    /\ Deliver(s, Plain("auth_status"))
    /\ UNCHANGED <<pc, if_list, srv, srclients, pox>>

HandleOpenLate(s) ==
    /\ OnMessage(s, "open")
    /\ UNCHANGED <<pc, if_list, toSr, srv, srclients, pox>>

\* _handle_open_msg: before the first RouterInfo self.interfaces does not
\* exist; the exception is swallowed and nothing is sent.
HandleOpen(s) ==
    /\ OnMessage(s, "open")
    /\ IF ofhandlers # <<>> THEN Deliver(s, Hwinfo(interfaces))
                            ELSE UNCHANGED toSr
    /\ UNCHANGED <<pc, if_list, srv, srclients, pox>>

\* _handle_packet_msg finds the port of the interface (NamesKnown) and raises
\* SRPacketOut: every OFHandler there ever was hands the packet to its
\* connection, in this thread; those whose switch has gone send nothing
\* (Connection.send returns at once).
HandlePacket(s) ==
    /\ OnMessage(s, "packet")
    /\ UNCHANGED <<pc, if_list, toSr, srv, srclients, pox>>

\* _handle_client_disconnected: the client stays on srclients.
Disconnected(s) ==
    /\ ~down /\ srv[s] = "open"
    /\ pc[s] \in Ended /\ toPox[s] = <<>>
    /\ srv' = [srv EXCEPT ![s] = "lost"]
    /\ UNCHANGED <<pc, if_list, toSr, toPox, srclients, pox>>

-----------------------------------------------------------------------------
(* POX's own thread.                                                       *)

RouterInfoAnnouncing(names) ==
    /\ interfaces' = names /\ ports' = ports \cup names
    /\ toSr' = [s \in Session |-> IF s \in ToSet(srclients) /\ Reading(s)
                                    THEN Append(toSr[s], Hwinfo(names)) ELSE toSr[s]]

\* _handle_RouterInfo: the interfaces are replaced and the two port maps added
\* to; the sessions that are already there are not told.
RouterInfo(names) ==
    /\ interfaces' = names /\ ports' = ports \cup names
    /\ UNCHANGED toSr

\* A new OFHandler names the interfaces from the ports of the switch, listens to
\* the connection and to SRPacketOut, and raises RouterInfo.
OFHandler(names) == ofhandlers' = Append(ofhandlers, TRUE) /\ RouterInfo(names)

\* _handle_ConnectionUp.  The switch connects once more after it has gone, with
\* the ports it has then.
SwitchConnects ==
    /\ ~down /\ walk = 0
    /\ Len(ofhandlers) < MaxSwitch
    /\ \A i \in DOMAIN ofhandlers : ~ofhandlers[i]
    /\ \E names \in Announced : OFHandler(names)
    /\ UNCHANGED <<pc, if_list, toPox, srv, srclients, walk, message, packets, down>>

\* The connection is closed; the OFHandler goes on listening.
SwitchLeaves ==
    /\ ~down /\ walk = 0
    /\ \E i \in DOMAIN ofhandlers :
         ofhandlers[i] /\ ofhandlers' = [ofhandlers EXCEPT ![i] = FALSE]
    /\ UNCHANGED <<pc, if_list, toSr, toPox, srv, srclients, interfaces, ports,
                   walk, message, packets, down>>

\* _handle_SRPacketIn returns when no switch ever announced the port, and
\* starts to broadcast else.
SRPacketIn(name, size) ==
    IF name \in ports THEN walk' = 1 /\ message' = Packet(name, size)
                      ELSE UNCHANGED <<walk, message>>

\* OFHandler._handle_PacketIn: the switch sends a packet up.
PacketIn ==
    /\ ~down /\ walk = 0
    /\ \E i \in DOMAIN ofhandlers : ofhandlers[i]
    /\ packets < MaxPackets
    /\ packets' = packets + 1
    /\ \E name \in Interface, size \in {"short", "whole", "long"} :
          SRPacketIn(name, size)
    /\ UNCHANGED <<pc, if_list, toSr, toPox, srv, srclients, ofhandlers, interfaces,
                   ports, down>>

\* for client in self.srclients: client.send(message); the other thread may
\* append to the list meanwhile.  At the end _handle_PacketIn sends the switch
\* an empty packet-out, which frees the buffer the packet was kept in.
BroadcastStep ==
    /\ ~down /\ walk # 0
    /\ IF walk <= Len(srclients)
         THEN /\ Deliver(srclients[walk], message)
              /\ walk' = walk + 1 /\ UNCHANGED message
         ELSE /\ walk' = 0 /\ message' = Plain("packet")
              /\ UNCHANGED toSr
    /\ UNCHANGED <<pc, if_list, toPox, srv, srclients, ofhandlers, interfaces, ports,
                   packets, down>>

\* The controller ends: what was sent is still read, then recv returns 0.
GoingDown ==
    /\ ~down
    /\ down' = TRUE
    /\ UNCHANGED <<pc, if_list, toSr, toPox, srv, srclients, ofhandlers, interfaces,
                   ports, walk, message, packets>>

-----------------------------------------------------------------------------
\* At the end of the stream recv returns 0 and the loops of
\* sr_read_from_server_expect go round for ever.
Spinning(s) == Reading(s) /\ down /\ toSr[s] = <<>>
Spin(s) == Spinning(s) /\ UNCHANGED vars

Read(s) ==
    \/ ReadAuthRequest(s) \/ ReadAuthStatus(s) \/ ReadUnexpected(s)
    \/ ReadHwinfo(s) \/ ReadTooLong(s)
    \/ \E reply \in BOOLEAN : ReadPacket(s, reply)

Reactor(s) ==
    \/ NewClient(s) \/ SendAuthRequest(s)
    \/ HandleAuthReply(s) \/ HandleOpen(s) \/ HandlePacket(s)
    \/ Disconnected(s)

Next ==
    \/ \E s \in Session : Connect(s) \/ Read(s) \/ Spin(s) \/ Kill(s)
    \/ \E s \in Session : Reactor(s)
    \/ SwitchConnects \/ SwitchLeaves
    \/ PacketIn \/ BroadcastStep
    \/ GoingDown

Spec == Init /\ [][Next]_vars

\* Both programs run.  Nothing makes a switch connect, a packet come or a
\* process be stopped.
Fairness ==
    /\ \A s \in Session : WF_vars(Read(s)) /\ WF_vars(Reactor(s))
    /\ WF_vars(BroadcastStep)

FairSpec == Spec /\ Fairness

-----------------------------------------------------------------------------
(* Properties.                                                             *)

\* The types of the state; a connection the bridge has accepted is on
\* srclients, once.
TypeOK ==
    /\ pc \in [Session -> Handshake \cup Ended \cup {"off", "main"}]
    /\ if_list \in [Session -> SUBSET Interface]
    /\ toSr \in [Session -> Seq(SrMessage)]
    /\ toPox \in [Session -> Seq(PoxMessage)]
    /\ srv \in [Session -> {"none", "connecting", "listed", "open", "lost"}]
    /\ srclients \in Seq(Session)
    /\ \A i, j \in DOMAIN srclients : srclients[i] = srclients[j] => i = j
    /\ ToSet(srclients) =
          {s \in Session : srv[s] \in {"listed", "open", "lost"}}
    /\ ofhandlers \in Seq(BOOLEAN) /\ Len(ofhandlers) <= MaxSwitch
    /\ interfaces \subseteq Interface /\ ports \subseteq Interface
    /\ message \in SrMessage /\ message.type = "packet"
    /\ down \in BOOLEAN
    /\ walk \in 0 .. Len(srclients) + 1
    /\ packets \in 0 .. MaxPackets

\* A message of type m is in the queue to sr; it is there no more than once.
Holds(m, q) == \E i \in DOMAIN q : q[i].type = m
AtMostOnce(m, q) == \A i, j \in DOMAIN q : q[i].type = m /\ q[j].type = m => i = j

\* sr_handle_hwinfo appends to if_list without looking at what is there: a
\* second VNSHWINFO would list every interface twice.  A session gets at most
\* one, and only after its VNSOPEN.
HwinfoOnce ==
    \A s \in Session :
        /\ AtMostOnce("hwinfo", toSr[s]) /\ AtMostOnce("open", toPox[s])
        /\ Holds("hwinfo", toSr[s]) => if_list[s] = {}
        /\ Holds("open", toPox[s]) => if_list[s] = {} /\ ~Holds("hwinfo", toSr[s])
        /\ pc[s] \in Handshake => /\ if_list[s] = {} /\ ~Holds("hwinfo", toSr[s])
                                 /\ ~Holds("open", toPox[s])

\* What the start of session s is waiting for: the message that was sent and not
\* yet handled, or "interfaces" once they have come.
Outstanding(s) ==
    {m \in {"auth_request", "auth_status", "hwinfo"} : Holds(m, toSr[s])}
      \cup {m \in {"auth_reply", "open"} : Holds(m, toPox[s])}
      \cup {m \in {"interfaces"} : if_list[s] # {}}

\* The two sides take turns: there is one thing outstanding at a time, once,
\* and it is one that the process in its state, and the connection in its, can
\* be waiting for.  (The strengthening that HwinfoOnce and QuietSessionsSucceed
\* need.)
InTurn(s) ==
    /\ \A m, n \in Outstanding(s) : m = n
    /\ \A m \in {"auth_request", "auth_status", "hwinfo"} : AtMostOnce(m, toSr[s])
    /\ \A m \in {"auth_reply", "open"} : AtMostOnce(m, toPox[s])
    /\ srv[s] \in {"none", "connecting", "listed"} => Outstanding(s) = {}
    /\ srv[s] = "none" <=> pc[s] = "off"
    /\ srv[s] \in {"connecting", "listed"} =>
          pc[s] \in {"expect_auth_request"} \cup Ended
    /\ pc[s] = "expect_auth_request" => Outstanding(s) \subseteq {"auth_request"}
    /\ pc[s] = "expect_auth_status" =>
          Outstanding(s) \subseteq {"auth_reply", "auth_status"}
    /\ pc[s] = "main" => Outstanding(s) \subseteq {"open", "hwinfo", "interfaces"}
TakingTurns == \A s \in Session : InTurn(s)

\* Packets apart, the bridge never sends a message that sr does not expect
\* next: without traffic no session fails or aborts, whatever the order in
\* which processes start, the switch connects and messages are handled.
QuietSessionsSucceed ==
    packets = 0 => /\ \A s \in KeyFile : pc[s] \notin {"failed", "aborted"}
                   /\ \A s \in Session : ~Holds("packet", toSr[s])
                   /\ walk = 0

\* A router that is not set up forwards nothing: without its key it stays out,
\* and it works only with interfaces that its routing table fits; it is sent
\* every packet like the others.
MisconfiguredSilent ==
    \A s \in Session :
        /\ s \notin KeyFile => pc[s] \notin {"expect_auth_status", "main"}
        /\ pc[s] = "main" /\ if_list[s] # {} => Verified(s, if_list[s])
        /\ Holds("packet", toPox[s]) => s \in KeyFile /\ Verified(s, if_list[s])

\* The bridge can name every port and every interface in use: what it told a
\* session, what sr may send through and what it broadcasts stay in its two
\* maps, whatever other ports the switch has when it connects again
\* (_handle_packet_msg raises for an interface that is not there).
NamesKnown ==
    /\ interfaces \subseteq ports /\ message.about \subseteq ports
    /\ \A s \in Session : /\ if_list[s] \subseteq ports
                         /\ \A i \in DOMAIN toSr[s] : toSr[s][i].about \subseteq ports

\* No order of starts, messages and switch events makes the bridge confuse a
\* session: interfaces are listed once (sr_handle_hwinfo), the handshake meets
\* no message it does not expect, a router that is not set up is silent, and
\* the names in use are known.
SessionsUnconfused ==
    /\ TypeOK /\ HwinfoOnce /\ TakingTurns /\ QuietSessionsSucceed
    /\ MisconfiguredSilent /\ NamesKnown

\* Session s ends by its next message: a message of more than 10000 octets, or
\* a whole frame from a port that some switch has announced, but not when the
\* session was told its interfaces.
EndedBy(s, m) ==
    /\ m.type = "packet"
    /\ \/ m.size = "long"
       \/ m.size = "whole" /\ \E i \in m.about : i \in ports /\ i \notin if_list[s]

\* A session that has its interfaces survives the start of others, restarts,
\* reconnecting switches and all traffic but two packets: as long as the
\* controller runs, it ends only when it is stopped from outside, when it takes
\* a message that is too long (sr_read_from_server_expect), or a frame from a
\* port it was not told of (sr_arp_req_not_for_us).
KeepsReady ==
    \A s \in Session :
        if_list[s] # {} /\ pc[s] = "main" /\ ~down =>
          \/ pc'[s] \in {"main", "killed"}
          \/ toSr[s] # <<>> /\ EndedBy(s, Head(toSr[s]))
ReadyIsSafe == [][KeepsReady]_vars

\* Session s waits for its interfaces and nobody is going to send them.
Unanswered(s) == pc[s] = "main" /\ Outstanding(s) = {}

\* A session that has begun ends, gets its interfaces or goes unanswered,
\* unless the controller goes down.
SessionsStart == \A s \in Session :
    pc[s] \in Handshake ~>
        if_list[s] # {} \/ pc[s] \in Ended \/ Unanswered(s) \/ down

\* It goes unanswered only when its VNSOPEN was handled before any switch had
\* connected.
OnlyEarlyUnanswered ==
    [][\A s \in Session : Unanswered(s)' => Unanswered(s) \/ ofhandlers = <<>>]_vars

\* sr_connect_to_server and _handle_open_msg make progress while the controller
\* runs.  One session waits in vain and this is exactly which: _handle_open_msg
\* swallowed the exception of its VNSOPEN.  (When the controller goes down, a
\* process that reads spins for ever: Spin.)
SessionsAdvance == SessionsStart /\ OnlyEarlyUnanswered

\* "assert(iface)" in sr_arp_req_not_for_us and "assert(my_ifs)" in
\* check_ethernet never fail.
AssertionsHold == \A s \in Session : pc[s] # "aborted"

\* "RETURN VALUES: 0 on success, something other than zero on error":
\* sr_connect_to_server returns.
ConnectReturns == \A s \in Session :
    pc[s] \in Handshake ~> pc[s] \notin Handshake

=============================================================================
