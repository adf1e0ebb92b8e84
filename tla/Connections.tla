---------------------------- MODULE Connections ----------------------------
(***************************************************************************)
(* The controller's connections to a switch: Connection, its message       *)
(* handlers, DeferredSender and OpenFlow_01_Task of pox/openflow/of_01.py, *)
(* OpenFlowNexus of pox/openflow/connection_arbiter.py, and the switch     *)
(* object that OpenFlowTopology of pox/openflow/topology.py keeps.         *)
(*                                                                         *)
(* One switch connects again and again; connections are numbered, and 0 is *)
(* no connection.  Three threads meet here: POX's thread runs the recoco   *)
(* tasks, the handlers and the components; the reactor's thread hands the  *)
(* packets of the routers to OFHandler of pox_module/cs561, which sends    *)
(* them with the same Connection.send; DeferredSender.run writes what      *)
(* could not be written at once.  A message stands for the bytes of one    *)
(* call of send; a write that is cut short leaves a "start" of it on the   *)
(* socket, and the "rest" is queued.                                       *)
(***************************************************************************)
EXTENDS Integers, Sequences, FiniteSets, SequencesExt

CONSTANTS
    MaxConns,   \* bound: connections the switch makes
    MaxEvents,  \* bound: messages the components send and news the switch reports, together
    PortNos     \* the ports the switch may have

ASSUME ConnectionsAssumption == MaxConns \in Nat /\ MaxEvents \in Nat

Conns == 1..MaxConns
Threads == {"pox", "reactor"}

VARIABLES
    con,        \* [Conns -> the Connection object], see NewCon
    nexus,      \* the connection in OpenFlowNexus._connections
    entity, listens, ports,  \* OpenFlowSwitch: _connection, connections it listens to, ports
    queue, sending,          \* DeferredSender: _dataForConnection, sending
    thread,                  \* its thread: "idle", "select" or "dead"
    watched,                 \* the connections it selects on
    hand,       \* [Threads -> the call of Connection.send a thread is in], see NoSend
    asked,      \* how many messages were handed to send, per connection
    wire,       \* what is on the socket
    toCtl,      \* messages from the switch
    peer, swPorts,           \* the switch: its connection, its ports
    taken,      \* how many messages of wire the switch has read
    fired,      \* the events raised for the components, each with the messages it carries
    missed,     \* did a port change while no one listened?
    made, sends, news

mainVars == <<con, nexus, entity, listens, ports, fired, missed>>
sendVars == <<queue, sending, wire, asked>>
threadVars == <<thread, watched>>
peerVars == <<peer, swPorts, taken, made, news>>
vars == <<mainVars, sendVars, threadVars, hand, toCtl, peerVars, sends>>

\* state: in the list of sockets ("open"), closed, or not there yet.
NewCon == [state |-> "none", disconnected |-> FALSE, dpid |-> FALSE, features |-> {},
           ups |-> 0, waits |-> FALSE, stats |-> <<>>]

\* A message that is sent is numbered in the order of the calls; beside is the
\* message of the same connection whose call had not returned then, 0 if none.
Said(t, n, b) == [type |-> t, arg |-> n, beside |-> b]

\* A thread in send is about to "write" to the socket or to "queue"; con 0 is idle.
NoSend == [con |-> 0, msg |-> Said("app", 0, 0), step |-> "write"]

Init ==
    /\ con = [c \in Conns |-> NewCon] /\ nexus = 0
    /\ entity = 0 /\ listens = {} /\ ports = {} /\ fired = <<>> /\ missed = FALSE
    /\ queue = [c \in Conns |-> <<>>] /\ sending = FALSE
    /\ asked = [c \in Conns |-> 0] /\ wire = [c \in Conns |-> <<>>]
    /\ thread = "idle" /\ watched = {} /\ hand = [t \in Threads |-> NoSend]
    /\ toCtl = [c \in Conns |-> <<>>]
    /\ peer = 0 /\ swPorts = PortNos /\ taken = [c \in Conns |-> 0]
    /\ made = 0 /\ sends = 0 /\ news = 0

Idle(t) == hand[t].con = 0
Msg(t, v) == [type |-> t, arg |-> v]

-----------------------------------------------------------------------------
(* Sending.  Writing can fail once the switch has left the connection.     *)

Broken(c) == peer # c \/ con[c].state = "closed"

\* Does send leave the writing to the sender's thread?
NeverDeferred == FALSE
Deferred == sending

\* DeferredSender.send
Queued(c, msgs) ==
    /\ queue' = [queue EXCEPT ![c] = @ \o msgs]
    /\ sending' = (sending \/ msgs # <<>>)

\* The message of c that the other thread is in the middle of sending.
Other(t) == IF t = "pox" THEN "reactor" ELSE "pox"
Beside(t, c) == IF hand[Other(t)].con = c THEN hand[Other(t)].msg.arg ELSE 0

\* Connection.send of several messages in a row, in one step: no component knows
\* the connection during its handshake, so the reactor's thread sends on others
\* only, and what it does between the messages it could as well do before or
\* after them.  With the sender at work they go to its queue; otherwise n are
\* written, and the rest is queued at EAGAIN.
SendAll(c, types) ==
    LET msgs == [i \in 1..Len(types) |-> Said(types[i], asked[c] + i, Beside("pox", c))] IN
    IF con[c].disconnected
      THEN UNCHANGED <<queue, sending, wire, asked>>
      ELSE /\ asked' = [asked EXCEPT ![c] = @ + Len(types)]
           /\ \E n \in IF Deferred THEN {0} ELSE 0..Len(msgs) :
                /\ wire' = [wire EXCEPT ![c] = @ \o SubSeq(msgs, 1, n)]
                /\ Queued(c, SubSeq(msgs, n + 1, Len(msgs)))

\* Connection.disconnect: the nexus forgets the switch, whichever connection it
\* has for it, and the topology marks it as not connected.  Nothing stops a
\* second call, and what is queued stays.
Disconnected(c) ==
    /\ con' = [con EXCEPT ![c].disconnected = TRUE]
    /\ nexus' = IF con[c].dpid THEN 0 ELSE nexus
    /\ entity' = IF con[c].dpid THEN 0 ELSE entity
    /\ UNCHANGED <<listens, ports, fired, missed>>

\* A write inside a handler fails.
SendError(c) == Broken(c) /\ ~ Deferred /\ ~ con[c].disconnected /\ UNCHANGED sendVars

\* A send begins: the thread looks whether the sender is at work, and only then
\* writes or queues.
Begins(t, c, type) ==
    /\ Idle(t) /\ ~ con[c].disconnected
    /\ asked' = [asked EXCEPT ![c] = @ + 1]
    /\ hand' = [hand EXCEPT ![t] =
                  [con |-> c, msg |-> Said(type, asked[c] + 1, Beside(t, c)),
                   step |-> IF Deferred THEN "queue" ELSE "write"]]
    /\ UNCHANGED <<queue, sending, wire>>

\* A component of POX's thread sends through the nexus or a connection it was told
\* of; a router's packet is sent by the reactor's thread, on the connection that
\* its OFHandler was made for by ConnectionUp.
SendBegins(t, c) ==
    /\ sends + news < MaxEvents /\ sends' = sends + 1
    /\ con[c].ups > 0 \/ (t = "pox" /\ c = nexus)
    /\ Begins(t, c, "app")
    /\ UNCHANGED <<mainVars, threadVars, toCtl, peerVars>>

\* The message is written, or what the socket does not take is queued; writing can
\* fail.  A socket that was disconnected is shut down.
Written(c, m) ==
    /\ con[c].state # "closed" /\ ~ con[c].disconnected
    /\ wire' = [wire EXCEPT ![c] = Append(@, m)]
    /\ UNCHANGED <<queue, sending, mainVars>>

SendEnds(t) ==
    LET c == hand[t].con
        m == hand[t].msg
    IN /\ ~ Idle(t)
       /\ \/ /\ hand[t].step = "write" /\ Written(c, m)
             /\ hand' = [hand EXCEPT ![t] = NoSend]
          \/ /\ hand[t].step = "write" /\ Written(c, [m EXCEPT !.type = "start"])
             /\ hand' = [hand EXCEPT ![t] =
                           [con |-> c, msg |-> [m EXCEPT !.type = "rest"], step |-> "queue"]]
          \/ /\ hand[t].step = "queue" \/ ~ Broken(c)
             /\ Queued(c, <<m>>) /\ UNCHANGED <<wire, mainVars>>
             /\ hand' = [hand EXCEPT ![t] = NoSend]
          \/ /\ hand[t].step = "write" /\ Broken(c)
             /\ Disconnected(c) /\ UNCHANGED <<queue, sending, wire>>
             /\ hand' = [hand EXCEPT ![t] = NoSend]
       /\ UNCHANGED <<asked, threadVars, toCtl, peerVars, sends>>

\* DeferredSender.run: the connections with data, then select, then writing.
\* Without data it only waits for the waker.
Snapshot ==
    /\ thread = "idle" /\ thread' = "select"
    /\ watched' = {c \in Conns : queue[c] # <<>>} /\ watched' # {}
    /\ UNCHANGED <<mainVars, sendVars, hand, toCtl, peerVars, sends>>

\* select raises when one of the sockets has been closed, and nothing catches it.
SelectRaises ==
    /\ thread = "select" /\ \E c \in watched : con[c].state = "closed"
    /\ thread' = "dead"
    /\ UNCHANGED <<mainVars, sendVars, watched, hand, toCtl, peerVars, sends>>

SelectReturns ==
    /\ thread = "select" /\ \A c \in watched : con[c].state # "closed"
    /\ thread' = "idle"

\* It writes as much as it can to one of the connections.
WriteQueued(c) ==
    /\ SelectReturns /\ c \in watched /\ ~ con[c].disconnected /\ queue[c] # <<>>
    /\ \E n \in 1..Len(queue[c]) :
         /\ wire' = [wire EXCEPT ![c] = @ \o SubSeq(queue[c], 1, n)]
         /\ queue' = [queue EXCEPT ![c] = SubSeq(@, n + 1, Len(@))]
    /\ sending' = \E d \in Conns : queue'[d] # <<>>
    /\ watched' = {}
    /\ UNCHANGED <<mainVars, asked, hand, toCtl, peerVars, sends>>

\* Writing fails: the connection is disconnected from this thread, perhaps again.
WriteFails(c) ==
    /\ SelectReturns /\ c \in watched /\ (Broken(c) \/ con[c].disconnected)
    /\ queue' = [queue EXCEPT ![c] = <<>>]
    /\ Disconnected(c) /\ watched' = {}
    /\ UNCHANGED <<sending, wire, asked, hand, toCtl, peerVars, sends>>

SelectTimesOut ==
    /\ SelectReturns /\ watched' = {}
    /\ UNCHANGED <<mainVars, sendVars, hand, toCtl, peerVars, sends>>

-----------------------------------------------------------------------------
(* OpenFlow_01_Task.run.                                                   *)

\* A connection that is accepted says hello at once.
Accept(c) ==
    /\ Idle("pox") /\ con[c].state = "none" /\ made >= c
    /\ \/ con' = [con EXCEPT ![c].state = "open"] /\ SendAll(c, <<"hello">>)
       \/ con' = [con EXCEPT ![c].state = "open", ![c].disconnected = TRUE] /\ SendError(c)
    /\ UNCHANGED <<nexus, entity, listens, ports, fired, missed, threadVars, hand, toCtl, peerVars, sends>>

\* What every Read of a message has in common.
Takes(c, t) ==
    /\ Idle("pox") /\ con[c].state = "open" /\ toCtl[c] # <<>> /\ toCtl[c][1].type = t
    /\ toCtl' = [toCtl EXCEPT ![c] = Tail(@)]
    /\ UNCHANGED <<threadVars, peerVars, sends>>
Take(c, t) == Takes(c, t) /\ UNCHANGED hand

handle_HELLO(c) ==
    /\ Take(c, "hello")
    /\ \/ SendAll(c, <<"features">>) /\ UNCHANGED mainVars
       \/ SendError(c) /\ Disconnected(c)

\* The nexus knows the connection from now on; ConnectionUp waits for a barrier,
\* sent behind the switch_config and the flow_mod that clears the table.
BarrierFirst == <<"barrier", "setup">>
Setup == <<"setup", "barrier">>
Connecting(c) == [con[c] EXCEPT !.dpid = TRUE, !.features = toCtl[c][1].arg, !.waits = TRUE]

handle_FEATURES_REPLY(c) ==
    /\ Take(c, "features")
    /\ \/ /\ con' = [con EXCEPT ![c] = Connecting(c)] /\ nexus' = c
          /\ SendAll(c, Setup) /\ UNCHANGED entity
       \/ /\ con' = [con EXCEPT ![c] = [Connecting(c) EXCEPT !.disconnected = TRUE]]
          /\ nexus' = 0 /\ entity' = 0 /\ SendError(c)
    /\ UNCHANGED <<listens, ports, fired, missed>>

\* _setConnection replaces the ports by those of the features reply.
PortsAdded(features) == ports \cup features
PortsFrom(features) == features

\* OpenFlowSwitch._setConnection leaves its listeners on the old connection when that
\* was marked down.
SetConnection(c) ==
    /\ entity' = c /\ ports' = PortsFrom(con[c].features)
    /\ listens' = (IF entity # 0 THEN listens \ {entity} ELSE listens) \cup {c}

\* finish_connecting: ConnectionUp is raised, and the topology's switch follows.
FinishConnecting(c) ==
    /\ con[c].waits
    /\ con' = [con EXCEPT ![c].waits = FALSE, ![c].ups = @ + 1]
    /\ SetConnection(c)
    /\ UNCHANGED <<nexus, fired, missed, sendVars>>

handle_BARRIER(c) == Take(c, "barrier") /\ FinishConnecting(c)

\* also_finish_connecting: an error that refuses the barrier is as good as its answer.
handle_ERROR_MSG(c) == Take(c, "refused") /\ FinishConnecting(c)

\* Packet-ins and removed flows only raise their events.
Raised(msgs) == fired' = Append(fired, msgs)

handle_PACKET_IN(c) ==
    /\ Take(c, "packet_in")
    /\ Raised(<<toCtl[c][1].arg>>)
    /\ UNCHANGED <<con, nexus, entity, listens, ports, missed, sendVars>>

\* The answer is a send like those of the components.
handle_ECHO_REQUEST(c) ==
    /\ Takes(c, "echo") /\ UNCHANGED mainVars
    /\ \/ Begins("pox", c, "echo_reply")
       \/ con[c].disconnected /\ UNCHANGED <<sendVars, hand>>

\* OpenFlowSwitch._handle_con_PortStatus; adding a port that is there fails an assertion and
\* changes nothing.
handle_PORT_STATUS(c) ==
    /\ Take(c, "port")
    /\ LET desc == toCtl[c][1].arg IN
       IF c \in listens
         THEN /\ ports' = IF desc.added THEN ports \cup {desc.port} ELSE ports \ {desc.port}
              /\ missed' = (missed \/ c # entity)
         ELSE UNCHANGED ports /\ missed' = TRUE
    /\ UNCHANGED <<con, nexus, entity, listens, fired, sendVars>>

\* _incoming_stats_reply: the parts [xid, more] of a reply are collected.  A part
\* of another reply raises AttributeError in the error message and is dropped.
Expected(c, ofp) == con[c].stats = <<>> \/ con[c].stats[1].xid = ofp.xid
Collected(c, ofp) == Append(con[c].stats, ofp)
StatsKept(c, ofp) == Collected(c, ofp)
StatsLeft(c, ofp) == IF ofp.more THEN Collected(c, ofp) ELSE <<>>

handle_STATS_REPLY(c) ==
    /\ Take(c, "stats")
    /\ LET ofp == toCtl[c][1].arg IN
       IF Expected(c, ofp)
         THEN /\ con' = [con EXCEPT ![c].stats = StatsLeft(c, ofp)]
              /\ IF ofp.more THEN UNCHANGED fired ELSE Raised(Collected(c, ofp))
         ELSE UNCHANGED <<con, fired>>
    /\ UNCHANGED <<nexus, entity, listens, ports, missed, sendVars>>

\* The end of the stream or an error: the socket is closed, and that is all.
Close(c) ==
    /\ Idle("pox") /\ con[c].state = "open"
    /\ \/ toCtl[c] # <<>> /\ toCtl[c][1].type = "eof"
       \/ toCtl[c] = <<>> /\ con[c].disconnected
    /\ toCtl' = [toCtl EXCEPT ![c] = <<>>]
    /\ con' = [con EXCEPT ![c].state = "closed"]
    /\ UNCHANGED <<nexus, entity, listens, ports, fired, missed, sendVars, threadVars, hand, peerVars, sends>>

-----------------------------------------------------------------------------
(* The switch (external): it answers in order, and reports news.           *)

Report(c, msgs) == toCtl' = [toCtl EXCEPT ![c] = @ \o msgs]

PeerConnects ==
    /\ peer = 0 /\ made < MaxConns /\ made' = made + 1 /\ peer' = made + 1
    /\ Report(made + 1, <<Msg("hello", 0)>>)
    /\ UNCHANGED <<mainVars, sendVars, threadVars, hand, swPorts, taken, news, sends>>

PeerLeaves ==
    /\ peer # 0 /\ peer' = 0 /\ Report(peer, <<Msg("eof", 0)>>)
    /\ UNCHANGED <<mainVars, sendVars, threadVars, hand, swPorts, taken, made, news, sends>>

Answers(t) == IF t = "barrier" THEN {"barrier", "refused"} ELSE {t}
PeerAnswers ==
    /\ peer # 0
    /\ \E i \in taken[peer] + 1 .. Len(wire[peer]) :
         /\ wire[peer][i].type \in {"features", "barrier"}
         /\ \A j \in taken[peer] + 1 .. i - 1 : wire[peer][j].type \notin {"features", "barrier"}
         /\ \E t \in Answers(wire[peer][i].type) : Report(peer, <<Msg(t, swPorts)>>)
         /\ taken' = [taken EXCEPT ![peer] = i]
    /\ UNCHANGED <<mainVars, sendVars, threadVars, hand, peer, swPorts, made, news, sends>>

\* Ports change; statistics come in two parts; the rest is packets and echo requests.
PeerReports ==
    /\ peer # 0 /\ sends + news < MaxEvents /\ news' = news + 1
    /\ \/ \E p \in PortNos :
            /\ swPorts' = IF p \in swPorts THEN swPorts \ {p} ELSE swPorts \cup {p}
            /\ Report(peer, <<Msg("port", [port |-> p, added |-> p \notin swPorts])>>)
       \/ /\ Report(peer, [i \in 1..2 |-> Msg("stats", [xid |-> news + 1, part |-> i, more |-> i = 1])])
          /\ UNCHANGED swPorts
       \/ \E t \in {"packet_in", "echo"} :
            /\ Report(peer, <<Msg(t, [xid |-> news + 1, part |-> 1, more |-> FALSE])>>)
            /\ UNCHANGED swPorts
    /\ UNCHANGED <<mainVars, sendVars, threadVars, hand, peer, taken, made, sends>>

Read(c) ==
    \/ handle_HELLO(c) \/ handle_FEATURES_REPLY(c) \/ handle_BARRIER(c)
    \/ handle_ERROR_MSG(c) \/ handle_PORT_STATUS(c) \/ handle_STATS_REPLY(c)
    \/ handle_PACKET_IN(c) \/ handle_ECHO_REQUEST(c) \/ Close(c)

Next ==
    \/ \E c \in Conns : Accept(c) \/ Read(c) \/ WriteQueued(c) \/ WriteFails(c)
    \/ \E t \in Threads : SendEnds(t) \/ \E c \in Conns : SendBegins(t, c)
    \/ Snapshot \/ SelectRaises \/ SelectTimesOut
    \/ PeerConnects \/ PeerLeaves \/ PeerAnswers \/ PeerReports

Spec == Init /\ [][Next]_vars

-----------------------------------------------------------------------------
(* Properties.                                                             *)

\* What the controller sends, and what the switch reports: statistics and packets
\* as parts [xid, part, more].
Sent == [type : {"hello", "features", "setup", "barrier", "echo_reply", "app", "start", "rest"},
         arg : Nat, beside : Nat]
Send == [con : 0..MaxConns, msg : {m \in Sent : m.type \in {"app", "echo_reply", "rest"}},
         step : {"write", "queue"}]
Part == [xid : Nat, part : 1..2, more : BOOLEAN]
Reported ==
    [type : {"hello", "eof"}, arg : {0}]
      \cup [type : {"features", "barrier", "refused"}, arg : SUBSET PortNos]
      \cup [type : {"port"}, arg : [port : PortNos, added : BOOLEAN]]
      \cup [type : {"stats", "packet_in", "echo"}, arg : Part]
Con == [state : {"none", "open", "closed"}, disconnected : BOOLEAN, dpid : BOOLEAN,
        features : SUBSET PortNos, ups : Nat, waits : BOOLEAN, stats : Seq(Part)]

\* The types of the state.
TypeOK ==
    /\ con \in [Conns -> Con] /\ nexus \in 0..MaxConns
    /\ entity \in 0..MaxConns /\ listens \subseteq Conns /\ ports \subseteq PortNos
    /\ fired \in Seq(Seq(Part)) /\ missed \in BOOLEAN
    /\ queue \in [Conns -> Seq(Sent)] /\ sending \in BOOLEAN
    /\ asked \in [Conns -> Nat] /\ wire \in [Conns -> Seq(Sent)]
    /\ thread \in {"idle", "select", "dead"} /\ watched \subseteq Conns
    /\ hand \in [Threads -> Send]
    /\ toCtl \in [Conns -> Seq(Reported)]
    /\ peer \in 0..made /\ swPorts \subseteq PortNos /\ taken \in [Conns -> Nat]
    /\ made \in 0..MaxConns /\ sends \in Nat /\ news \in Nat

Items(q) == {q[i] : i \in 1..Len(q)}
InHand(c) == {hand[t].msg : t \in {u \in Threads : hand[u].con = c}}
Carried(c) == Items(wire[c]) \cup Items(queue[c]) \cup InHand(c)

\* x may be ahead of y on the socket: x was handed over first, or while the send
\* of y was still going on; a message is there once, or its start and its rest.
MayPrecede(x, y) ==
    \/ x.arg < y.arg \/ x.beside = y.arg
    \/ x.arg = y.arg /\ x.type = "start" /\ y.type = "rest"

\* Whatever the three threads do, a message that is handed to Connection.send
\* after the send of another has returned never gets ahead of it, not even of
\* what the sender's thread still holds, and none is carried twice.  Only sends of
\* POX's and the reactor's thread that overlap may overtake one another
\* (Connection.send, DeferredSender.run, OFHandler._handle_SRPacketOut).
SentAsAsked ==
    \A c \in Conns : \A i, j \in DOMAIN wire[c] : i < j => MayPrecede(wire[c][i], wire[c][j])

\* While the connection lasts nothing that send was given is lost: what is not on
\* the socket is queued or in the hand of a thread that is still sending it.  And
\* as long as something is queued, every send finds the sender at work.
NothingLost ==
    /\ \A c \in Conns : ~ con[c].disconnected =>
          \A k \in 1..asked[c] : \E x \in Carried(c) : x.arg = k /\ x.type # "start"
    /\ \A c \in Conns : queue[c] # <<>> => sending

InOrder == TypeOK /\ NothingLost /\ SentAsAsked

\* "only fired when all data is available": each statistics event has all parts
\* of one reply, and a reply whose last part was read has been reported.
StatsWhole ==
    /\ \A i \in DOMAIN fired :
         /\ \A j \in DOMAIN fired[i] : fired[i][j].xid = fired[i][1].xid /\ fired[i][j].part = j
         /\ ~ Last(fired[i]).more
    /\ \A c \in Conns : con[c].state = "open" /\ toCtl[c] = <<>> => con[c].stats = <<>>

\* The ports of the topology's switch object are those of the switch once all it
\* said on its connection has been read, unless a port changed during a handshake
\* or a connection that was already given up still reported one.
PortsKnown ==
    peer # 0 /\ entity = peer /\ toCtl[peer] = <<>> /\ ~ missed => ports = swPorts

\* ConnectionUp is raised once per connection, and only when the switch has
\* carried out the setup of that connection (the cleared flow table): what a
\* component installs on ConnectionUp is not wiped out by it.
UpFollowsSetup ==
    \A c \in Conns : con'[c].ups > con[c].ups =>
        con[c].ups = 0 /\ \E i \in 1..taken[c] : wire[c][i].type = "setup"
UpAfterSetup == [][UpFollowsSetup]_vars

\* "handles sending when a socket write didn't complete": the sender is there as
\* long as an open connection has data queued.
SenderServes ==
    \A c \in Conns : queue[c] # <<>> /\ con[c].state = "open" => thread # "dead"
=============================================================================
