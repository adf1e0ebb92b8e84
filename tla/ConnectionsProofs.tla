------------------------- MODULE ConnectionsProofs -------------------------
(***************************************************************************)
(* Theorems about Connections, for every number of connections, of events  *)
(* and every set of ports.                                                 *)
(***************************************************************************)
EXTENDS Connections, TLAPS

-----------------------------------------------------------------------------
(* Sequences.                                                              *)

\* Two sequences with the same elements are the same.
LEMMA SameElements ==
    ASSUME NEW S, NEW s \in Seq(S), NEW t \in Seq(S), Len(s) = Len(t),
           \A i \in 1 .. Len(s) : s[i] = t[i]
    PROVE  s = t
OBVIOUS

\* Taking a sequence apart at n and putting it together again.
LEMMA Splitting ==
    ASSUME NEW S, NEW q \in Seq(S), NEW n \in 0 .. Len(q)
    PROVE  /\ SubSeq(q, 1, n) \in Seq(S) /\ SubSeq(q, n + 1, Len(q)) \in Seq(S)
           /\ SubSeq(q, 1, n) \o SubSeq(q, n + 1, Len(q)) = q
<1>1. /\ SubSeq(q, 1, n) \in Seq(S) /\ SubSeq(q, n + 1, Len(q)) \in Seq(S)
      /\ Len(SubSeq(q, 1, n)) = n /\ Len(SubSeq(q, n + 1, Len(q))) = Len(q) - n
      /\ \A i \in 1 .. n : SubSeq(q, 1, n)[i] = q[i]
      /\ \A i \in 1 .. Len(q) - n : SubSeq(q, n + 1, Len(q))[i] = q[n + i]
  OBVIOUS
<1>2. ASSUME NEW a \in Seq(S), NEW b \in Seq(S), Len(a) = n, Len(b) = Len(q) - n,
             \A i \in 1 .. n : a[i] = q[i], \A i \in 1 .. Len(q) - n : b[i] = q[n + i]
      PROVE  a \o b = q
  <2>0. Len(q) \in Nat /\ n \in Nat /\ n <= Len(q)
    OBVIOUS
  <2>1. a \o b \in Seq(S) /\ Len(a \o b) = Len(a) + Len(b)
    OBVIOUS
  <2>2. /\ \A i \in 1 .. Len(a) : (a \o b)[i] = a[i]
        /\ \A i \in Len(a) + 1 .. Len(a) + Len(b) : (a \o b)[i] = b[i - Len(a)]
    OBVIOUS
  <2>3. Len(a \o b) = Len(q)
    BY <1>2, <2>0, <2>1
  <2>4. ASSUME NEW i \in 1 .. Len(q) PROVE (a \o b)[i] = q[i]
    <3>1. CASE i <= n
      BY <1>2, <2>0, <2>2, <3>1
    <3>2. CASE i > n
      <4>1. i - n \in 1 .. Len(q) - n /\ n + (i - n) = i
        BY <2>0, <3>2
      <4>. QED
        BY <1>2, <2>0, <2>2, <3>2, <4>1
    <3>3. i <= n \/ i > n
      BY <2>0
    <3>. QED
      BY <3>1, <3>2, <3>3
  <2>. QED
    BY <2>1, <2>3, <2>4, SameElements
<1>. QED
  BY <1>1, <1>2

LEMMA ConcatsSent == \A s, t, u \in Seq(Sent) : (s \o t) \o u = s \o (t \o u)
OBVIOUS

-----------------------------------------------------------------------------
(* Types.                                                                  *)

\* The messages that are reported have their types.
LEMMA Messages ==
    /\ \A t \in {"hello", "eof"} : Msg(t, 0) \in Reported
    /\ \A t \in {"features", "barrier", "refused"}, P \in SUBSET PortNos : Msg(t, P) \in Reported
    /\ \A p \in PortNos, b \in BOOLEAN :
          Msg("port", [port |-> p, added |-> b]) \in Reported
    /\ \A t \in {"stats", "packet_in", "echo"}, a \in Part : Msg(t, a) \in Reported
<1>2. /\ \A t \in {"hello", "eof"} : Msg(t, 0) \in Reported
      /\ \A t \in {"features", "barrier", "refused"}, P \in SUBSET PortNos :
            Msg(t, P) \in Reported
  BY DEF Msg, Reported
<1>3. \A p \in PortNos, b \in BOOLEAN :
          Msg("port", [port |-> p, added |-> b]) \in Reported
  BY DEF Msg, Reported
<1>4. \A t \in {"stats", "packet_in", "echo"}, a \in Part : Msg(t, a) \in Reported
  BY DEF Msg, Reported
<1>. QED
  BY <1>2, <1>3, <1>4

\* A message that is sent, whole or in two pieces.
SentTypes == {"hello", "features", "setup", "barrier", "echo_reply", "app", "start", "rest"}
Requests == {"hello", "features", "setup", "barrier"}
LEMMA SaidType ==
    ASSUME NEW t \in SentTypes, NEW n \in Nat, NEW b \in Nat
    PROVE  /\ Said(t, n, b) \in Sent
           /\ Said(t, n, b).type = t /\ Said(t, n, b).arg = n /\ Said(t, n, b).beside = b
BY DEF Said, Sent, SentTypes

LEMMA Pieces ==
    ASSUME NEW m \in Sent, NEW t \in SentTypes
    PROVE  /\ [m EXCEPT !.type = t] \in Sent /\ [m EXCEPT !.type = t].type = t
           /\ [m EXCEPT !.type = t].arg = m.arg /\ [m EXCEPT !.type = t].beside = m.beside
BY DEF Sent, SentTypes

\* What a reported message carries depends on what it is.
LEMMA Arguments ==
    ASSUME NEW m \in Reported
    PROVE  /\ m.type = "features" => m.arg \in SUBSET PortNos
           /\ m.type = "port" => m.arg \in [port : PortNos, added : BOOLEAN]
           /\ m.type \in {"stats", "packet_in", "echo"} => m.arg \in Part
BY DEF Reported

\* Appending to one of several queues.
LEMMA Appending ==
    ASSUME NEW C, NEW S, NEW f \in [C -> Seq(S)], NEW c \in C, NEW u \in Seq(S)
    PROVE  [f EXCEPT ![c] = @ \o u] \in [C -> Seq(S)]
OBVIOUS

\* Updating a Connection object.
LEMMA Updates ==
    ASSUME NEW r \in Con
    PROVE  /\ \A b \in BOOLEAN : [r EXCEPT !.disconnected = b] \in Con
           /\ \A b \in {"none", "open", "closed"} : [r EXCEPT !.state = b] \in Con
           /\ \A b \in Seq(Part) : [r EXCEPT !.stats = b] \in Con
           /\ \A F \in SUBSET PortNos :
                [r EXCEPT !.dpid = TRUE, !.features = F, !.waits = TRUE] \in Con
           /\ [r EXCEPT !.waits = FALSE, !.ups = @ + 1] \in Con
<1>1. \A b \in BOOLEAN : [r EXCEPT !.disconnected = b] \in Con
  BY DEF Con
<1>2. \A b \in {"none", "open", "closed"} : [r EXCEPT !.state = b] \in Con
  BY DEF Con
<1>3. \A b \in Seq(Part) : [r EXCEPT !.stats = b] \in Con
  BY DEF Con
<1>4. \A F \in SUBSET PortNos :
        [r EXCEPT !.dpid = TRUE, !.features = F, !.waits = TRUE] \in Con
  BY DEF Con
<1>5. [r EXCEPT !.waits = FALSE, !.ups = @ + 1] \in Con
  <2>1. r.ups \in Nat /\ r.ups + 1 \in Nat
    BY DEF Con
  <2>2. \A n \in Nat : [r EXCEPT !.waits = FALSE, !.ups = n] \in Con
    BY DEF Con
  <2>. QED
    BY <2>1, <2>2
<1>. QED
  BY <1>1, <1>2, <1>3, <1>4, <1>5

LEMMA TypeInit == Init => TypeOK
<1>. SUFFICES ASSUME Init PROVE TypeOK
  OBVIOUS
<1>1. NewCon \in Con
  <2>1. <<>> \in Seq(Part)
    OBVIOUS
  <2>. QED
    BY <2>1 DEF NewCon, Con
<1>2. con \in [Conns -> Con]
  BY <1>1 DEF Init
<1>3. /\ queue \in [Conns -> Seq(Sent)] /\ wire \in [Conns -> Seq(Sent)]
      /\ asked \in [Conns -> Nat]
      /\ toCtl \in [Conns -> Seq(Reported)]
      /\ fired \in Seq(Seq(Part)) /\ taken \in [Conns -> Nat]
  BY DEF Init
<1>4. 0 \in 0 .. MaxConns /\ 0 \in 0 .. 0 /\ 0 \in Nat
  BY ConnectionsAssumption
<1>5. hand \in [Threads -> Send]
  <2>1. Said("app", 0, 0) \in Sent /\ Said("app", 0, 0).type = "app"
    BY SaidType DEF SentTypes
  <2>. QED
    BY <1>4, <2>1 DEF Init, NoSend, Send
<1>. QED
  BY <1>2, <1>3, <1>4, <1>5 DEF Init, TypeOK

LEMMA QueuedType ==
    ASSUME TypeOK, NEW c \in Conns, NEW u \in Seq(Sent), Queued(c, u)
    PROVE  queue' \in [Conns -> Seq(Sent)] /\ sending' \in BOOLEAN
<1>1. queue' \in [Conns -> Seq(Sent)]
  BY Appending DEF TypeOK, Queued
<1>2. sending' \in BOOLEAN
  BY Zenon DEF TypeOK, Queued
<1>. QED
  BY <1>1, <1>2

\* The messages that SendAll hands over.
Made(c, types) == [i \in 1..Len(types) |-> Said(types[i], asked[c] + i, Beside("pox", c))]

LEMMA BesideType ==
    ASSUME TypeOK, NEW t \in Threads, NEW c \in Conns
    PROVE  Beside(t, c) \in Nat /\ Other(t) \in Threads /\ Other(t) # t
<1>1. Other(t) \in Threads /\ Other(t) # t
  BY DEF Threads, Other
<1>2. hand[Other(t)] \in Send
  BY <1>1 DEF TypeOK
<1>3. hand[Other(t)].msg.arg \in Nat
  BY <1>2 DEF Send, Sent
<1>. QED
  BY <1>1, <1>3 DEF Beside

LEMMA MadeType ==
    ASSUME TypeOK, NEW c \in Conns, NEW types \in Seq(Requests)
    PROVE  /\ Made(c, types) \in Seq(Sent) /\ Len(Made(c, types)) = Len(types)
           /\ \A i \in 1 .. Len(types) :
                /\ Made(c, types)[i].type = types[i] /\ Made(c, types)[i].arg = asked[c] + i
                /\ Made(c, types)[i].beside = Beside("pox", c)
<1>. DEFINE S(i) == Said(types[i], asked[c] + i, Beside("pox", c))
<1>1. asked[c] \in Nat /\ Beside("pox", c) \in Nat /\ Len(types) \in Nat
  BY BesideType DEF TypeOK, Threads
<1>2. ASSUME NEW i \in 1 .. Len(types)
      PROVE  /\ S(i) \in Sent /\ S(i).type = types[i] /\ S(i).arg = asked[c] + i
             /\ S(i).beside = Beside("pox", c)
  <2>1. types[i] \in SentTypes /\ asked[c] + i \in Nat
    BY <1>1 DEF Requests, SentTypes
  <2>. QED
    BY <1>1, <2>1, SaidType
<1>. HIDE DEF S
<1>3. [i \in 1 .. Len(types) |-> S(i)] \in Seq(Sent)
  BY <1>1, <1>2
<1>4. Made(c, types) = [i \in 1 .. Len(types) |-> S(i)]
  BY DEF Made, S
<1>. QED
  BY <1>1, <1>2, <1>3, <1>4

\* Connection.send of several messages writes some of them and queues the others,
\* all of them when the sender is at work.
LEMMA SendAllParts ==
    ASSUME TypeOK, NEW c \in Conns, NEW types \in Seq(Requests), SendAll(c, types),
           ~ con[c].disconnected
    PROVE  /\ asked' = [asked EXCEPT ![c] = @ + Len(types)]
           /\ \E a, b \in Seq(Sent) :
                /\ a \o b = Made(c, types)
                /\ sending => a = <<>>
                /\ wire' = [wire EXCEPT ![c] = @ \o a]
                /\ Queued(c, b)
<1>1. asked' = [asked EXCEPT ![c] = @ + Len(types)]
  BY DEF SendAll
<1>. DEFINE msgs == Made(c, types)
<1>2. msgs \in Seq(Sent) /\ Len(msgs) = Len(types) /\ 0 \in 0 .. Len(msgs)
  BY MadeType
<1>3. \E n \in IF sending THEN {0} ELSE 0 .. Len(msgs) :
        /\ wire' = [wire EXCEPT ![c] = @ \o SubSeq(msgs, 1, n)]
        /\ Queued(c, SubSeq(msgs, n + 1, Len(msgs)))
  BY DEF SendAll, Deferred, Made
<1>. HIDE DEF msgs
<1>4. PICK n \in 0 .. Len(msgs) :
        /\ sending => n = 0
        /\ wire' = [wire EXCEPT ![c] = @ \o SubSeq(msgs, 1, n)]
        /\ Queued(c, SubSeq(msgs, n + 1, Len(msgs)))
  BY <1>2, <1>3
<1>5. /\ SubSeq(msgs, 1, n) \in Seq(Sent) /\ SubSeq(msgs, n + 1, Len(msgs)) \in Seq(Sent)
      /\ SubSeq(msgs, 1, n) \o SubSeq(msgs, n + 1, Len(msgs)) = msgs
  BY <1>2, Splitting
<1>6. n = 0 => SubSeq(msgs, 1, n) = <<>>
  BY <1>2
<1>. QED
  BY <1>1, <1>4, <1>5, <1>6 DEF msgs

LEMMA SendAllType ==
    ASSUME TypeOK, NEW c \in Conns, NEW types \in Seq(Requests), SendAll(c, types)
    PROVE  /\ queue' \in [Conns -> Seq(Sent)] /\ sending' \in BOOLEAN
           /\ asked' \in [Conns -> Nat] /\ wire' \in [Conns -> Seq(Sent)]
<1>1. CASE con[c].disconnected
  BY <1>1 DEF TypeOK, SendAll
<1>2. CASE ~ con[c].disconnected
  <2>1. PICK a, b \in Seq(Sent) :
          wire' = [wire EXCEPT ![c] = @ \o a] /\ Queued(c, b)
    BY <1>2, SendAllParts
  <2>2. asked' = [asked EXCEPT ![c] = @ + Len(types)]
    BY <1>2, SendAllParts
  <2>3. asked' \in [Conns -> Nat] /\ wire' \in [Conns -> Seq(Sent)]
    BY <2>1, <2>2, Appending DEF TypeOK
  <2>4. queue' \in [Conns -> Seq(Sent)] /\ sending' \in BOOLEAN
    BY <2>1, QueuedType
  <2>. QED
    BY <2>3, <2>4
<1>. QED
  BY <1>1, <1>2

\* What Connection.disconnect changes.
LEMMA DisconnectedType ==
    ASSUME TypeOK, NEW c \in Conns, Disconnected(c)
    PROVE  /\ con' \in [Conns -> Con] /\ nexus' \in 0..MaxConns
           /\ entity' \in 0..MaxConns /\ listens' \subseteq Conns /\ ports' \subseteq PortNos
           /\ fired' \in Seq(Seq(Part)) /\ missed' \in BOOLEAN
<1>1. con' \in [Conns -> Con]
  BY Updates DEF TypeOK, Disconnected
<1>2. nexus' \in 0..MaxConns /\ entity' \in 0..MaxConns
  BY ConnectionsAssumption DEF TypeOK, Disconnected
<1>. QED
  BY <1>1, <1>2 DEF TypeOK, Disconnected

\* What reading a message changes, whatever the message.
LEMMA TakeType ==
    ASSUME TypeOK, NEW c \in Conns, NEW t, Takes(c, t)
    PROVE  /\ toCtl' \in [Conns -> Seq(Reported)] /\ toCtl[c][1] \in Reported
           /\ toCtl[c][1].type = t
BY DEF TypeOK, Takes

\* The parts of TypeOK, by the group of variables they are about.
MainOK ==
    /\ con \in [Conns -> Con] /\ nexus \in 0..MaxConns
    /\ entity \in 0..MaxConns /\ listens \subseteq Conns /\ ports \subseteq PortNos
    /\ fired \in Seq(Seq(Part)) /\ missed \in BOOLEAN
SendOK ==
    /\ queue \in [Conns -> Seq(Sent)] /\ sending \in BOOLEAN
    /\ asked \in [Conns -> Nat] /\ wire \in [Conns -> Seq(Sent)]
ThreadOK == thread \in {"idle", "select", "dead"} /\ watched \subseteq Conns
PeerOK ==
    /\ peer \in 0..made /\ swPorts \subseteq PortNos /\ taken \in [Conns -> Nat]
    /\ made \in 0..MaxConns /\ news \in Nat
RestOK ==
    /\ hand \in [Threads -> Send]
    /\ sends \in Nat

LEMMA TypePartsNext ==
    TypeOK' <=> /\ MainOK' /\ SendOK' /\ ThreadOK' /\ PeerOK' /\ RestOK'
                /\ toCtl' \in [Conns -> Seq(Reported)]
BY DEF TypeOK, MainOK, SendOK, ThreadOK, PeerOK, RestOK

\* A group of variables that does not change keeps its types.
LEMMA TypeStays ==
    ASSUME TypeOK
    PROVE  /\ UNCHANGED mainVars => MainOK'
           /\ UNCHANGED sendVars => SendOK'
           /\ UNCHANGED threadVars => ThreadOK'
           /\ UNCHANGED peerVars => PeerOK'
           /\ UNCHANGED <<hand, sends>> => RestOK'
           /\ UNCHANGED toCtl => toCtl' \in [Conns -> Seq(Reported)]
<1>1. UNCHANGED mainVars => MainOK'
  BY DEF TypeOK, MainOK, mainVars
<1>2. UNCHANGED sendVars => SendOK'
  BY DEF TypeOK, SendOK, sendVars
<1>3. UNCHANGED threadVars => ThreadOK'
  BY DEF TypeOK, ThreadOK, threadVars
<1>4. UNCHANGED peerVars => PeerOK'
  BY DEF TypeOK, PeerOK, peerVars
<1>5. UNCHANGED <<hand, sends>> => RestOK'
  BY DEF TypeOK, RestOK
<1>6. UNCHANGED toCtl => toCtl' \in [Conns -> Seq(Reported)]
  BY DEF TypeOK
<1>. QED
  BY <1>1, <1>2, <1>3, <1>4, <1>5, <1>6

\* Reading a message: the handler decides about the rest of the state.
LEMMA TakeStays ==
    ASSUME TypeOK, NEW c \in Conns, NEW t, Take(c, t), MainOK', SendOK'
    PROVE  TypeOK'
<1>1. UNCHANGED threadVars /\ UNCHANGED <<hand, sends>> /\ UNCHANGED peerVars
  BY DEF Take, Takes
<1>2. toCtl' \in [Conns -> Seq(Reported)]
  BY TakeType DEF Take
<1>. QED
  BY <1>1, <1>2, TypeStays, TypePartsNext

\* A send inside a handler, or its failure.
LEMMA SendTypes ==
    ASSUME TypeOK, NEW c \in Conns
    PROVE  /\ \A types \in Seq(Requests) : SendAll(c, types) => SendOK'
           /\ SendError(c) => SendOK'
           /\ Disconnected(c) => MainOK'
<1>1. ASSUME NEW types \in Seq(Requests), SendAll(c, types) PROVE SendOK'
  BY <1>1, SendAllType DEF SendOK
<1>2. SendError(c) => SendOK'
  BY TypeStays DEF SendError
<1>3. Disconnected(c) => MainOK'
  BY DisconnectedType DEF MainOK
<1>. QED
  BY <1>1, <1>2, <1>3

\* The messages of the handshake.
LEMMA Sends ==
    /\ \A t \in {"hello", "features"} : <<t>> \in Seq(Requests)
    /\ Setup \in Seq(Requests)
BY DEF Setup, Requests

\* A send begins.
LEMMA BeginsType ==
    ASSUME TypeOK, NEW t \in Threads, NEW c \in Conns, NEW y \in {"app", "echo_reply"},
           Begins(t, c, y)
    PROVE  /\ SendOK' /\ hand' \in [Threads -> Send]
           /\ Said(y, asked[c] + 1, Beside(t, c)) \in Sent
<1>1. asked[c] \in Nat /\ asked[c] + 1 \in Nat /\ c \in 0 .. MaxConns
  BY ConnectionsAssumption DEF TypeOK, Conns
<1>2. y \in SentTypes /\ y \in {"app", "echo_reply", "rest"}
  BY DEF SentTypes
<1>3. /\ Said(y, asked[c] + 1, Beside(t, c)) \in Sent
      /\ Said(y, asked[c] + 1, Beside(t, c)).type = y
  BY <1>1, <1>2, BesideType, SaidType
<1>. DEFINE h == [con |-> c, msg |-> Said(y, asked[c] + 1, Beside(t, c)),
                  step |-> IF Deferred THEN "queue" ELSE "write"]
<1>4. h \in Send
  BY <1>1, <1>2, <1>3 DEF Send
<1>5. hand' = [hand EXCEPT ![t] = h] /\ asked' = [asked EXCEPT ![c] = @ + 1]
      /\ UNCHANGED <<queue, sending, wire>>
  BY DEF Begins
<1>. HIDE DEF h
<1>6. hand' \in [Threads -> Send]
  BY <1>4, <1>5 DEF TypeOK
<1>7. SendOK'
  BY <1>1, <1>5 DEF SendOK, TypeOK
<1>. QED
  BY <1>3, <1>6, <1>7

\* The steps of the main thread that read a message.
LEMMA TypeRead ==
    ASSUME TypeOK, NEW c \in Conns, Read(c)
    PROVE  TypeOK'
<1>1. CASE handle_HELLO(c)
  <2>1. MainOK' /\ SendOK'
    BY <1>1, Sends, SendTypes, TypeStays DEF handle_HELLO
  <2>. QED
    BY <1>1, <2>1, TakeStays DEF handle_HELLO
<1>2. CASE handle_FEATURES_REPLY(c)
  <2>1. Take(c, "features")
    BY <1>2 DEF handle_FEATURES_REPLY
  <2>2. toCtl[c][1].arg \in SUBSET PortNos
    BY <2>1, TakeType, Arguments DEF Take
  <2>3. con[c] \in Con
    BY DEF TypeOK
  <2>4. Connecting(c) \in Con /\ [Connecting(c) EXCEPT !.disconnected = TRUE] \in Con
    BY <2>2, <2>3, Updates DEF Connecting
  <2>5. SendOK'
    BY <1>2, Sends, SendTypes DEF handle_FEATURES_REPLY
  <2>6. con' \in [Conns -> Con]
    BY <1>2, <2>4 DEF handle_FEATURES_REPLY, TypeOK
  <2>7. nexus' \in 0 .. MaxConns /\ entity' \in 0 .. MaxConns
    BY <1>2, ConnectionsAssumption DEF handle_FEATURES_REPLY, TypeOK, Conns
  <2>8. MainOK'
    BY <1>2, <2>6, <2>7 DEF MainOK, handle_FEATURES_REPLY, TypeOK
  <2>. QED
    BY <2>1, <2>5, <2>8, TakeStays
<1>3. ASSUME NEW t, Take(c, t), FinishConnecting(c) PROVE TypeOK'
  <2>1. con[c] \in Con
    BY DEF TypeOK
  <2>2. con' = [con EXCEPT ![c] = [con[c] EXCEPT !.waits = FALSE, !.ups = @ + 1]]
    BY <1>3 DEF FinishConnecting, TypeOK
  <2>3. con' \in [Conns -> Con]
    BY <2>1, <2>2, Updates DEF TypeOK
  <2>4. entity' \in 0 .. MaxConns
    BY <1>3, ConnectionsAssumption DEF FinishConnecting, SetConnection, Conns
  <2>5. ports' \subseteq PortNos
    BY <1>3, <2>1 DEF FinishConnecting, SetConnection, PortsFrom, Con
  <2>6. listens' \subseteq Conns
    BY <1>3 DEF FinishConnecting, SetConnection, TypeOK
  <2>7. MainOK'
    BY <1>3, <2>3, <2>4, <2>5, <2>6 DEF MainOK, FinishConnecting, TypeOK
  <2>8. SendOK'
    BY <1>3, TypeStays DEF FinishConnecting
  <2>. QED
    BY <1>3, <2>7, <2>8, TakeStays
<1>4. CASE handle_BARRIER(c)
  BY <1>3, <1>4 DEF handle_BARRIER
<1>5. CASE handle_ERROR_MSG(c)
  BY <1>3, <1>5 DEF handle_ERROR_MSG
<1>6. CASE handle_PORT_STATUS(c)
  <2>1. Take(c, "port")
    BY <1>6 DEF handle_PORT_STATUS
  <2>2. toCtl[c][1].arg \in [port : PortNos, added : BOOLEAN]
    BY <2>1, TakeType, Arguments DEF Take
  <2>3. ports' \subseteq PortNos
    BY <1>6, <2>2 DEF handle_PORT_STATUS, TypeOK
  <2>4. missed' \in BOOLEAN
    BY <1>6, Zenon DEF handle_PORT_STATUS, TypeOK
  <2>5. MainOK'
    BY <1>6, <2>3, <2>4 DEF MainOK, handle_PORT_STATUS, TypeOK
  <2>6. SendOK'
    BY <1>6, TypeStays DEF handle_PORT_STATUS
  <2>. QED
    BY <2>1, <2>5, <2>6, TakeStays
<1>7. CASE handle_STATS_REPLY(c)
  <2>1. Take(c, "stats")
    BY <1>7 DEF handle_STATS_REPLY
  <2>2. toCtl[c][1].arg \in Part /\ con[c] \in Con /\ con[c].stats \in Seq(Part)
    BY <2>1, TakeType, Arguments DEF Take, TypeOK, Con
  <2>3. /\ Collected(c, toCtl[c][1].arg) \in Seq(Part)
        /\ StatsLeft(c, toCtl[c][1].arg) \in Seq(Part)
    BY <2>2 DEF Collected, StatsLeft
  <2>4. con' \in [Conns -> Con]
    <3>1. \/ con' = [con EXCEPT ![c].stats = StatsLeft(c, toCtl[c][1].arg)]
          \/ con' = con
      BY <1>7 DEF handle_STATS_REPLY
    <3>2. [con[c] EXCEPT !.stats = StatsLeft(c, toCtl[c][1].arg)] \in Con
      BY <2>2, <2>3, Updates
    <3>. QED
      BY <3>1, <3>2 DEF TypeOK
  <2>5. fired' \in Seq(Seq(Part))
    <3>1. fired' = fired \/ fired' = Append(fired, Collected(c, toCtl[c][1].arg))
      BY <1>7 DEF handle_STATS_REPLY, Raised
    <3>2. fired \in Seq(Seq(Part))
      BY DEF TypeOK
    <3>3. \A S, x, q : q \in Seq(S) /\ x \in S => Append(q, x) \in Seq(S)
      OBVIOUS
    <3>. QED
      BY <2>3, <3>1, <3>2, <3>3
  <2>6. MainOK'
    BY <1>7, <2>4, <2>5 DEF MainOK, handle_STATS_REPLY, TypeOK
  <2>7. SendOK'
    BY <1>7, TypeStays DEF handle_STATS_REPLY
  <2>. QED
    BY <2>1, <2>6, <2>7, TakeStays
<1>8. CASE handle_PACKET_IN(c)
  <2>1. Take(c, "packet_in")
    BY <1>8 DEF handle_PACKET_IN
  <2>2. toCtl[c][1].arg \in Part
    BY <2>1, TakeType, Arguments DEF Take
  <2>3. fired' \in Seq(Seq(Part))
    BY <1>8, <2>2 DEF handle_PACKET_IN, Raised, TypeOK
  <2>4. MainOK'
    BY <1>8, <2>3 DEF MainOK, handle_PACKET_IN, TypeOK
  <2>5. SendOK'
    BY <1>8, TypeStays DEF handle_PACKET_IN
  <2>. QED
    BY <2>1, <2>4, <2>5, TakeStays
<1>9. CASE handle_ECHO_REQUEST(c)
  <2>1. Takes(c, "echo") /\ UNCHANGED mainVars
    BY <1>9 DEF handle_ECHO_REQUEST
  <2>2. /\ UNCHANGED threadVars /\ UNCHANGED peerVars /\ UNCHANGED sends
        /\ toCtl' \in [Conns -> Seq(Reported)] /\ MainOK' /\ sends \in Nat
    BY <2>1, TakeType, TypeStays DEF Takes, TypeOK
  <2>3. SendOK' /\ RestOK'
    <3>1. CASE Begins("pox", c, "echo_reply")
      BY <2>2, <3>1, BeginsType DEF RestOK, Threads
    <3>2. CASE UNCHANGED <<sendVars, hand>>
      <4>1. UNCHANGED sendVars /\ UNCHANGED <<hand, sends>>
        BY <2>2, <3>2
      <4>. QED
        BY <4>1, TypeStays
    <3>. QED
      BY <1>9, <3>1, <3>2 DEF handle_ECHO_REQUEST
  <2>. QED
    BY <2>2, <2>3, TypeStays, TypePartsNext
<1>10. CASE Close(c)
  <2>1. con' \in [Conns -> Con]
    BY <1>10, Updates DEF Close, TypeOK
  <2>2. toCtl' \in [Conns -> Seq(Reported)]
    BY <1>10 DEF Close, TypeOK
  <2>3. MainOK'
    BY <1>10, <2>1 DEF Close, MainOK, TypeOK
  <2>4. UNCHANGED sendVars /\ UNCHANGED threadVars /\ UNCHANGED peerVars /\ UNCHANGED <<hand, sends>>
    BY <1>10 DEF Close
  <2>. QED
    BY <2>2, <2>3, <2>4, TypeStays, TypePartsNext
<1>. QED
  BY <1>1, <1>2, <1>4, <1>5, <1>6, <1>7, <1>8, <1>9, <1>10 DEF Read

\* A function on 1..2 is a sequence of two elements.
LEMMA PairOf ==
    ASSUME NEW S, NEW f \in [1..2 -> S]
    PROVE  f \in Seq(S) /\ f = <<f[1], f[2]>>
<1>1. /\ <<f[1], f[2]>> \in Seq(S) /\ Len(<<f[1], f[2]>>) = 2
      /\ <<f[1], f[2]>>[1] = f[1] /\ <<f[1], f[2]>>[2] = f[2]
      /\ DOMAIN <<f[1], f[2]>> = 1 .. 2
  OBVIOUS
<1>2. f = <<f[1], f[2]>>
  BY <1>1
<1>. QED
  BY <1>1, <1>2

\* The switch only adds to what it reports.
LEMMA ReportType ==
    ASSUME TypeOK, NEW c \in Conns, NEW u \in Seq(Reported), Report(c, u)
    PROVE  toCtl' \in [Conns -> Seq(Reported)]
BY Appending DEF Report, TypeOK

LEMMA TypePeer ==
    ASSUME TypeOK, PeerConnects \/ PeerLeaves \/ PeerAnswers \/ PeerReports
    PROVE  TypeOK'
<1>. USE DEF Conns
<1>1. UNCHANGED mainVars /\ UNCHANGED sendVars /\ UNCHANGED threadVars /\ UNCHANGED <<hand, sends>>
  BY DEF PeerConnects, PeerLeaves, PeerAnswers, PeerReports
<1>2. ASSUME PeerOK', toCtl' \in [Conns -> Seq(Reported)] PROVE TypeOK'
  BY <1>1, <1>2, TypeStays, TypePartsNext
<1>3. peer # 0 => peer \in Conns
  BY ConnectionsAssumption DEF TypeOK
<1>4. CASE PeerConnects
  <2>1. made + 1 \in Conns /\ made + 1 \in 0 .. MaxConns
    BY <1>4, ConnectionsAssumption DEF PeerConnects, TypeOK
  <2>2. <<Msg("hello", 0)>> \in Seq(Reported)
    BY Messages
  <2>3. toCtl' \in [Conns -> Seq(Reported)]
    BY <1>4, <2>1, <2>2, ReportType DEF PeerConnects
  <2>4. PeerOK'
    BY <1>4, <2>1 DEF PeerConnects, PeerOK, TypeOK
  <2>. QED
    BY <1>2, <2>3, <2>4
<1>5. CASE PeerLeaves
  <2>1. <<Msg("eof", 0)>> \in Seq(Reported)
    BY Messages
  <2>2. toCtl' \in [Conns -> Seq(Reported)]
    BY <1>3, <1>5, <2>1, ReportType DEF PeerLeaves
  <2>3. PeerOK'
    BY <1>5, ConnectionsAssumption DEF PeerLeaves, PeerOK, TypeOK
  <2>. QED
    BY <1>2, <2>2, <2>3
<1>6. CASE PeerAnswers
  <2>1. PICK i \in taken[peer] + 1 .. Len(wire[peer]) :
          /\ wire[peer][i].type \in {"features", "barrier"}
          /\ \E t \in Answers(wire[peer][i].type) : Report(peer, <<Msg(t, swPorts)>>)
          /\ taken' = [taken EXCEPT ![peer] = i]
    BY <1>6 DEF PeerAnswers
  <2>2. peer \in Conns /\ taken[peer] \in Nat /\ Len(wire[peer]) \in Nat /\ i \in Nat
    BY <1>3, <1>6 DEF PeerAnswers, TypeOK
  <2>3. PICK t \in {"features", "barrier", "refused"} : Report(peer, <<Msg(t, swPorts)>>)
    BY <2>1 DEF Answers
  <2>4. <<Msg(t, swPorts)>> \in Seq(Reported)
    BY Messages DEF TypeOK
  <2>5. toCtl' \in [Conns -> Seq(Reported)]
    BY <2>2, <2>3, <2>4, ReportType
  <2>6. PeerOK'
    BY <1>6, <2>1, <2>2 DEF PeerAnswers, PeerOK, TypeOK
  <2>. QED
    BY <1>2, <2>5, <2>6
<1>7. CASE PeerReports
  <2>1. peer \in Conns /\ news + 1 \in Nat
    BY <1>3, <1>7 DEF PeerReports, TypeOK
  <2>2. swPorts' \subseteq PortNos
    BY <1>7 DEF PeerReports, TypeOK
  <2>3. PeerOK'
    BY <1>7, <2>1, <2>2 DEF PeerReports, PeerOK, TypeOK
  <2>4. PICK u \in Seq(Reported) : Report(peer, u)
    <3>1. CASE \E p \in PortNos : Report(peer, <<Msg("port", [port |-> p, added |-> p \notin swPorts])>>)
      <4>1. PICK p \in PortNos : Report(peer, <<Msg("port", [port |-> p, added |-> p \notin swPorts])>>)
        BY <3>1
      <4>2. (p \notin swPorts) \in BOOLEAN
        OBVIOUS
      <4>3. Msg("port", [port |-> p, added |-> p \notin swPorts]) \in Reported
        BY <4>2, Messages
      <4>. QED
        BY <4>1, <4>3
    <3>2. CASE Report(peer, [i \in 1..2 |-> Msg("stats", [xid |-> news + 1, part |-> i, more |-> i = 1])])
      <4>1. \A i \in 1 .. 2 : [xid |-> news + 1, part |-> i, more |-> i = 1] \in Part
        BY <2>1 DEF Part
      <4>2. \A i \in 1 .. 2 :
              Msg("stats", [xid |-> news + 1, part |-> i, more |-> i = 1]) \in Reported
        BY <4>1, Messages
      <4>3. [i \in 1..2 |-> Msg("stats", [xid |-> news + 1, part |-> i, more |-> i = 1])]
              \in [1..2 -> Reported]
        BY <4>2, Zenon
      <4>. QED
        BY <3>2, <4>3, PairOf
    <3>3. CASE \E t \in {"packet_in", "echo"} :
                 Report(peer, <<Msg(t, [xid |-> news + 1, part |-> 1, more |-> FALSE])>>)
      <4>1. [xid |-> news + 1, part |-> 1, more |-> FALSE] \in Part
        BY <2>1 DEF Part
      <4>2. \A t \in {"packet_in", "echo"} :
              Msg(t, [xid |-> news + 1, part |-> 1, more |-> FALSE]) \in Reported
        BY <4>1, Messages
      <4>3. PICK t \in {"packet_in", "echo"} :
                 Report(peer, <<Msg(t, [xid |-> news + 1, part |-> 1, more |-> FALSE])>>)
        BY <3>3
      <4>4. \A m \in Reported : <<m>> \in Seq(Reported)
        OBVIOUS
      <4>. QED
        BY <4>2, <4>3, <4>4, Zenon
    <3>. QED
      BY <1>7, <3>1, <3>2, <3>3 DEF PeerReports
  <2>5. toCtl' \in [Conns -> Seq(Reported)]
    BY <2>1, <2>4, ReportType
  <2>. QED
    BY <1>2, <2>3, <2>5
<1>. QED
  BY <1>4, <1>5, <1>6, <1>7

\* The steps of the sender's thread.
LEMMA TypeThread ==
    ASSUME TypeOK,
           \/ \E c \in Conns : WriteQueued(c) \/ WriteFails(c)
           \/ Snapshot \/ SelectRaises \/ SelectTimesOut
    PROVE  TypeOK'
<1>1. /\ UNCHANGED peerVars /\ UNCHANGED <<hand, sends>> /\ UNCHANGED toCtl
  BY DEF WriteQueued, WriteFails, Snapshot, SelectRaises, SelectTimesOut
<1>2. ThreadOK'
  BY DEF WriteQueued, WriteFails, Snapshot, SelectRaises, SelectTimesOut, SelectReturns,
         ThreadOK, TypeOK, threadVars
<1>3. ASSUME MainOK', SendOK' PROVE TypeOK'
  BY <1>1, <1>2, <1>3, TypeStays, TypePartsNext
<1>4. ASSUME NEW c \in Conns, WriteQueued(c) PROVE TypeOK'
  <2>1. queue[c] \in Seq(Sent) /\ wire[c] \in Seq(Sent) /\ Len(queue[c]) \in Nat
    BY DEF TypeOK
  <2>2. PICK n \in 1 .. Len(queue[c]) :
          /\ wire' = [wire EXCEPT ![c] = @ \o SubSeq(queue[c], 1, n)]
          /\ queue' = [queue EXCEPT ![c] = SubSeq(queue[c], n + 1, Len(queue[c]))]
    BY <1>4 DEF WriteQueued, TypeOK
  <2>3. n \in 0 .. Len(queue[c])
    BY <2>1
  <2>4. /\ SubSeq(queue[c], 1, n) \in Seq(Sent)
        /\ SubSeq(queue[c], n + 1, Len(queue[c])) \in Seq(Sent)
    BY <2>1, <2>3, Splitting
  <2>5. wire' \in [Conns -> Seq(Sent)]
    BY <2>2, <2>4, Appending DEF TypeOK
  <2>6. queue' \in [Conns -> Seq(Sent)]
    BY <2>2, <2>4, Zenon DEF TypeOK
  <2>7. sending' \in BOOLEAN
    BY <1>4, Zenon DEF WriteQueued
  <2>8. SendOK'
    BY <1>4, <2>5, <2>6, <2>7 DEF SendOK, WriteQueued, TypeOK
  <2>9. MainOK'
    BY <1>4, TypeStays DEF WriteQueued
  <2>. QED
    BY <1>3, <2>8, <2>9
<1>5. ASSUME NEW c \in Conns, WriteFails(c) PROVE TypeOK'
  <2>1. queue' \in [Conns -> Seq(Sent)]
    BY <1>5 DEF WriteFails, TypeOK
  <2>2. SendOK'
    BY <1>5, <2>1 DEF WriteFails, SendOK, TypeOK
  <2>3. MainOK'
    BY <1>5, SendTypes DEF WriteFails
  <2>. QED
    BY <1>3, <2>2, <2>3
<1>6. CASE Snapshot \/ SelectRaises \/ SelectTimesOut
  <2>1. UNCHANGED mainVars /\ UNCHANGED sendVars
    BY <1>6 DEF Snapshot, SelectRaises, SelectTimesOut
  <2>. QED
    BY <1>3, <2>1, TypeStays
<1>. QED
  BY <1>4, <1>5, <1>6

\* Accepting a connection, and sending to it.
LEMMA TypeAccept ==
    ASSUME TypeOK, NEW c \in Conns, Accept(c)
    PROVE  TypeOK'
<1>1. [con[c] EXCEPT !.state = "open"] \in Con
  BY Updates DEF TypeOK
<1>2. [con[c] EXCEPT !.state = "open", !.disconnected = TRUE] \in Con
  BY <1>1, Updates
<1>3. \/ con' = [con EXCEPT ![c] = [con[c] EXCEPT !.state = "open"]]
      \/ con' = [con EXCEPT ![c] = [con[c] EXCEPT !.state = "open", !.disconnected = TRUE]]
  BY DEF Accept, TypeOK
<1>4. con' \in [Conns -> Con]
  BY <1>1, <1>2, <1>3 DEF TypeOK
<1>5. MainOK'
  BY <1>4 DEF Accept, MainOK, TypeOK
<1>6. SendOK'
  BY Sends, SendTypes DEF Accept
<1>7. UNCHANGED threadVars /\ UNCHANGED peerVars /\ UNCHANGED <<hand, sends>> /\ UNCHANGED toCtl
  BY DEF Accept
<1>. QED
  BY <1>5, <1>6, <1>7, TypeStays, TypePartsNext

LEMMA TypeSendBegins ==
    ASSUME TypeOK, NEW t \in Threads, NEW c \in Conns, SendBegins(t, c)
    PROVE  TypeOK'
<1>1. SendOK' /\ hand' \in [Threads -> Send]
  BY BeginsType DEF SendBegins
<1>2. RestOK'
  BY <1>1 DEF SendBegins, RestOK, TypeOK
<1>3. UNCHANGED mainVars /\ UNCHANGED threadVars /\ UNCHANGED peerVars /\ UNCHANGED toCtl
  BY DEF SendBegins
<1>. QED
  BY <1>1, <1>2, <1>3, TypeStays, TypePartsNext

\* How a send ends, with c its connection and m its message.
Ended(t) == hand' = [hand EXCEPT ![t] = NoSend]
Wrote(t, c, m) ==
    /\ hand[t].step = "write" /\ ~ con[c].disconnected
    /\ wire' = [wire EXCEPT ![c] = Append(@, m)] /\ UNCHANGED <<queue, sending>>
    /\ UNCHANGED mainVars /\ Ended(t)
Began(t, c, m) ==
    /\ hand[t].step = "write" /\ ~ con[c].disconnected
    /\ wire' = [wire EXCEPT ![c] = Append(@, [m EXCEPT !.type = "start"])]
    /\ UNCHANGED <<queue, sending>> /\ UNCHANGED mainVars
    /\ hand' = [hand EXCEPT ![t] =
                  [con |-> c, msg |-> [m EXCEPT !.type = "rest"], step |-> "queue"]]
LeftOver(t, c, m) == Queued(c, <<m>>) /\ UNCHANGED wire /\ UNCHANGED mainVars /\ Ended(t)
Failed(t, c) == Disconnected(c) /\ UNCHANGED <<queue, sending, wire>> /\ Ended(t)

LEMMA SendEndsCases ==
    ASSUME TypeOK, NEW t \in Threads, SendEnds(t)
    PROVE  /\ UNCHANGED <<asked, toCtl, sends>> /\ UNCHANGED threadVars /\ UNCHANGED peerVars
           /\ \E c \in Conns, m \in Sent :
                /\ hand[t].con = c /\ hand[t].msg = m /\ hand[t].step \in {"write", "queue"}
                /\ m.type \in {"app", "echo_reply", "rest"}
                /\ Wrote(t, c, m) \/ Began(t, c, m) \/ LeftOver(t, c, m) \/ Failed(t, c)
<1>1. hand[t] \in Send /\ hand[t].con # 0
  BY DEF SendEnds, Idle, TypeOK
<1>. DEFINE c == hand[t].con
            m == hand[t].msg
<1>2. /\ c \in Conns /\ m \in Sent /\ m.type \in {"app", "echo_reply", "rest"}
      /\ hand[t].step \in {"write", "queue"}
  BY <1>1, ConnectionsAssumption DEF Send, Conns
<1>3. UNCHANGED <<asked, toCtl, sends>> /\ UNCHANGED threadVars /\ UNCHANGED peerVars
  BY DEF SendEnds
<1>4. \/ /\ hand[t].step = "write" /\ Written(c, m) /\ Ended(t)
      \/ /\ hand[t].step = "write" /\ Written(c, [m EXCEPT !.type = "start"])
         /\ hand' = [hand EXCEPT ![t] =
                       [con |-> c, msg |-> [m EXCEPT !.type = "rest"], step |-> "queue"]]
      \/ LeftOver(t, c, m) \/ Failed(t, c)
  BY DEF SendEnds, Ended, LeftOver, Failed
<1>. HIDE DEF c, m
<1>5. Wrote(t, c, m) \/ Began(t, c, m) \/ LeftOver(t, c, m) \/ Failed(t, c)
  BY <1>4 DEF Written, Wrote, Began
<1>. QED
  BY <1>2, <1>3, <1>5 DEF c, m

LEMMA TypeSendEnds ==
    ASSUME TypeOK, NEW t \in Threads, SendEnds(t)
    PROVE  TypeOK'
<1>1. UNCHANGED <<asked, toCtl, sends>> /\ UNCHANGED threadVars /\ UNCHANGED peerVars
  BY SendEndsCases
<1>2. PICK c \in Conns, m \in Sent :
        /\ hand[t].con = c /\ m.type \in {"app", "echo_reply", "rest"}
        /\ Wrote(t, c, m) \/ Began(t, c, m) \/ LeftOver(t, c, m) \/ Failed(t, c)
  BY SendEndsCases
<1>3. /\ [m EXCEPT !.type = "start"] \in Sent /\ [m EXCEPT !.type = "rest"] \in Sent
      /\ [m EXCEPT !.type = "rest"].type = "rest" /\ <<m>> \in Seq(Sent)
  <2>1. "start" \in SentTypes /\ "rest" \in SentTypes
    BY DEF SentTypes
  <2>2. /\ [m EXCEPT !.type = "start"] \in Sent /\ [m EXCEPT !.type = "rest"] \in Sent
        /\ [m EXCEPT !.type = "rest"].type = "rest"
    BY <2>1, Pieces
  <2>. QED
    BY <2>2
<1>4. ASSUME NEW h \in Send, hand' = [hand EXCEPT ![t] = h] PROVE RestOK'
  BY <1>1, <1>4 DEF RestOK, TypeOK
<1>5. NoSend \in Send
  <2>1. Said("app", 0, 0) \in Sent /\ Said("app", 0, 0).type = "app"
    BY SaidType DEF SentTypes
  <2>. QED
    BY <2>1, ConnectionsAssumption DEF NoSend, Send
<1>6. Ended(t) => RestOK'
  BY <1>4, <1>5 DEF Ended
<1>7. ASSUME MainOK', SendOK', RestOK' PROVE TypeOK'
  BY <1>1, <1>7, TypeStays, TypePartsNext
<1>8. ASSUME NEW x \in Sent, wire' = [wire EXCEPT ![c] = Append(@, x)], UNCHANGED <<queue, sending>>
      PROVE  SendOK'
  <2>1. wire' \in [Conns -> Seq(Sent)]
    BY <1>8 DEF TypeOK
  <2>. QED
    BY <1>1, <1>8, <2>1 DEF SendOK, TypeOK
<1>9. CASE Wrote(t, c, m)
  BY <1>6, <1>7, <1>8, <1>9, TypeStays DEF Wrote
<1>10. CASE Began(t, c, m)
  <2>1. [con |-> c, msg |-> [m EXCEPT !.type = "rest"], step |-> "queue"] \in Send
    <3>1. c \in 0 .. MaxConns
      BY ConnectionsAssumption DEF Conns
    <3>. QED
      BY <1>3, <3>1 DEF Send
  <2>2. RestOK'
    BY <1>4, <1>10, <2>1 DEF Began
  <2>3. SendOK'
    BY <1>3, <1>8, <1>10 DEF Began
  <2>. QED
    BY <1>7, <1>10, <2>2, <2>3, TypeStays DEF Began
<1>11. CASE LeftOver(t, c, m)
  <2>1. SendOK'
    BY <1>1, <1>3, <1>11, QueuedType DEF SendOK, TypeOK, LeftOver
  <2>. QED
    BY <1>6, <1>7, <1>11, <2>1, TypeStays DEF LeftOver
<1>12. CASE Failed(t, c)
  <2>1. SendOK'
    BY <1>1, <1>12 DEF SendOK, TypeOK, Failed
  <2>. QED
    BY <1>6, <1>7, <1>12, <2>1, SendTypes DEF Failed
<1>. QED
  BY <1>2, <1>9, <1>10, <1>11, <1>12

LEMMA TypeStep == TypeOK /\ [Next]_vars => TypeOK'
<1>1. CASE UNCHANGED vars
  <2>1. /\ UNCHANGED mainVars /\ UNCHANGED sendVars /\ UNCHANGED threadVars /\ UNCHANGED peerVars
        /\ UNCHANGED <<hand, sends>> /\ UNCHANGED toCtl
    BY <1>1 DEF vars
  <2>. QED
    BY <2>1, TypeStays, TypePartsNext
<1>. QED
  BY <1>1, TypeAccept, TypeRead, TypeSendBegins, TypeSendEnds, TypeThread, TypePeer DEF Next

-----------------------------------------------------------------------------
(* The order of the messages on the socket.                                *)

Ordered(q) == \A i, j \in 1 .. Len(q) : i < j => MayPrecede(q[i], q[j])
Precede(X, Y) == \A x \in X, y \in Y : MayPrecede(x, y)
Numbered(X, n) == \A x \in X : x.arg \in 1 .. n

\* The messages of a connection, first w on the socket and then q in the queue,
\* when n have been handed to send.
Line(w, q, n) ==
    /\ Ordered(w) /\ Ordered(q) /\ Precede(Items(w), Items(q))
    /\ Numbered(Items(w), n) /\ Numbered(Items(q), n)

\* And the message m of a thread that is in send: it may follow all that is there,
\* and when the thread writes it, it may also be ahead of what is queued.
Held(w, q, n, m, step) ==
    /\ Numbered({m}, n) /\ Precede(Items(w), {m}) /\ Precede(Items(q), {m})
    /\ step = "write" => Precede({m}, Items(q)) /\ m.type # "rest"

Order ==
    /\ NothingLost
    /\ \A c \in Conns : Line(wire[c], queue[c], asked[c])
    /\ \A t \in Threads, c \in Conns : hand[t].con = c =>
          Held(wire[c], queue[c], asked[c], hand[t].msg, hand[t].step)
    /\ \A t, u \in Threads, c \in Conns : t # u /\ hand[t].con = c /\ hand[u].con = c =>
          MayPrecede(hand[t].msg, hand[u].msg)

LEMMA OrderSent == TypeOK /\ Order => SentAsAsked
<1>. SUFFICES ASSUME TypeOK, Order, NEW c \in Conns, NEW i \in DOMAIN wire[c],
                     NEW j \in DOMAIN wire[c], i < j
              PROVE  MayPrecede(wire[c][i], wire[c][j])
  BY DEF SentAsAsked
<1>1. DOMAIN wire[c] = 1 .. Len(wire[c])
  BY DEF TypeOK
<1>2. Ordered(wire[c])
  BY DEF Order, Line
<1>. QED
  BY <1>1, <1>2 DEF Ordered

\* What is in two sequences, one behind the other.
LEMMA ItemsConcat ==
    ASSUME NEW a \in Seq(Sent), NEW b \in Seq(Sent)
    PROVE  Items(a \o b) = Items(a) \cup Items(b)
<1>1. /\ Len(a) \in Nat /\ Len(b) \in Nat /\ Len(a \o b) = Len(a) + Len(b)
      /\ \A i \in 1 .. Len(a) : (a \o b)[i] = a[i]
      /\ \A i \in Len(a) + 1 .. Len(a) + Len(b) : (a \o b)[i] = b[i - Len(a)]
  OBVIOUS
<1>2. \A i \in 1 .. Len(a) + Len(b) : i \in 1 .. Len(a) \/ i \in Len(a) + 1 .. Len(a) + Len(b)
  BY <1>1
<1>3. \A i \in Len(a) + 1 .. Len(a) + Len(b) : i - Len(a) \in 1 .. Len(b)
  BY <1>1
<1>4. \A i \in 1 .. Len(b) : /\ Len(a) + i \in Len(a) + 1 .. Len(a) + Len(b)
                             /\ (Len(a) + i) - Len(a) = i /\ Len(a) + i \in 1 .. Len(a) + Len(b)
  BY <1>1
<1>5. \A i \in 1 .. Len(a) : i \in 1 .. Len(a) + Len(b)
  BY <1>1
<1>6. Items(a \o b) \subseteq Items(a) \cup Items(b)
  <2>. SUFFICES ASSUME NEW i \in 1 .. Len(a \o b)
                PROVE  (a \o b)[i] \in Items(a) \cup Items(b)
    BY DEF Items
  <2>1. CASE i \in 1 .. Len(a)
    BY <1>1, <2>1 DEF Items
  <2>2. CASE i \in Len(a) + 1 .. Len(a) + Len(b)
    BY <1>1, <1>3, <2>2 DEF Items
  <2>. QED
    BY <1>1, <1>2, <2>1, <2>2
<1>7. Items(a) \subseteq Items(a \o b)
  BY <1>1, <1>5 DEF Items
<1>8. Items(b) \subseteq Items(a \o b)
  <2>. SUFFICES ASSUME NEW i \in 1 .. Len(b) PROVE b[i] \in Items(a \o b)
    BY DEF Items
  <2>1. (a \o b)[Len(a) + i] = b[i] /\ Len(a) + i \in 1 .. Len(a \o b)
    BY <1>1, <1>4
  <2>. QED
    BY <2>1 DEF Items
<1>. QED
  BY <1>6, <1>7, <1>8

LEMMA ItemsFew ==
    /\ Items(<<>>) = {}
    /\ \A m : Items(<<m>>) = {m}
<1>1. Items(<<>>) = {}
  BY DEF Items
<1>2. \A m : Items(<<m>>) = {m}
  BY DEF Items
<1>. QED
  BY <1>1, <1>2

\* They are in order when each is, and the first may be ahead of the second.
LEMMA OrderedConcat ==
    ASSUME NEW a \in Seq(Sent), NEW b \in Seq(Sent)
    PROVE  Ordered(a \o b) <=> Ordered(a) /\ Ordered(b) /\ Precede(Items(a), Items(b))
<1>1. /\ Len(a) \in Nat /\ Len(b) \in Nat /\ Len(a \o b) = Len(a) + Len(b)
      /\ \A i \in 1 .. Len(a) : (a \o b)[i] = a[i]
      /\ \A i \in Len(a) + 1 .. Len(a) + Len(b) : (a \o b)[i] = b[i - Len(a)]
  OBVIOUS
<1>2. \A i \in 1 .. Len(a) : i \in 1 .. Len(a \o b)
  BY <1>1
<1>3. \A i \in 1 .. Len(b) : /\ Len(a) + i \in 1 .. Len(a \o b)
                             /\ (a \o b)[Len(a) + i] = b[i]
  <2>1. \A i \in 1 .. Len(b) : /\ Len(a) + i \in Len(a) + 1 .. Len(a) + Len(b)
                               /\ (Len(a) + i) - Len(a) = i /\ Len(a) + i \in 1 .. Len(a) + Len(b)
    BY <1>1
  <2>. QED
    BY <1>1, <2>1
<1>4. ASSUME Ordered(a \o b) PROVE Ordered(a) /\ Ordered(b) /\ Precede(Items(a), Items(b))
  <2>1. Ordered(a)
    BY <1>1, <1>2, <1>4 DEF Ordered
  <2>2. Ordered(b)
    <3>1. \A i, j \in 1 .. Len(b) : i < j => Len(a) + i < Len(a) + j
      BY <1>1
    <3>. QED
      BY <1>3, <1>4, <3>1 DEF Ordered
  <2>3. ASSUME NEW i \in 1 .. Len(a), NEW j \in 1 .. Len(b) PROVE MayPrecede(a[i], b[j])
    <3>1. i < Len(a) + j
      BY <1>1
    <3>. QED
      BY <1>1, <1>2, <1>3, <1>4, <3>1 DEF Ordered
  <2>. QED
    BY <2>1, <2>2, <2>3 DEF Precede, Items
<1>5. ASSUME Ordered(a), Ordered(b), Precede(Items(a), Items(b)) PROVE Ordered(a \o b)
  <2>. SUFFICES ASSUME NEW i \in 1 .. Len(a \o b), NEW j \in 1 .. Len(a \o b), i < j
                PROVE  MayPrecede((a \o b)[i], (a \o b)[j])
    BY DEF Ordered
  <2>1. CASE j \in 1 .. Len(a)
    <3>1. i \in 1 .. Len(a)
      BY <1>1, <2>1
    <3>. QED
      BY <1>1, <1>5, <2>1, <3>1 DEF Ordered
  <2>2. CASE i \in 1 .. Len(a) /\ j \notin 1 .. Len(a)
    <3>1. j \in Len(a) + 1 .. Len(a) + Len(b) /\ j - Len(a) \in 1 .. Len(b)
      BY <1>1, <2>2
    <3>2. a[i] \in Items(a) /\ b[j - Len(a)] \in Items(b)
      BY <2>2, <3>1 DEF Items
    <3>. QED
      BY <1>1, <1>5, <2>2, <3>1, <3>2 DEF Precede
  <2>3. CASE i \notin 1 .. Len(a)
    <3>1. /\ i \in Len(a) + 1 .. Len(a) + Len(b) /\ i - Len(a) \in 1 .. Len(b)
          /\ j \in Len(a) + 1 .. Len(a) + Len(b) /\ j - Len(a) \in 1 .. Len(b)
          /\ i - Len(a) < j - Len(a)
      BY <1>1, <2>3
    <3>. QED
      BY <1>1, <1>5, <3>1 DEF Ordered
  <2>. QED
    BY <2>1, <2>2, <2>3
<1>. QED
  BY <1>4, <1>5

LEMMA OrderedFew ==
    /\ Ordered(<<>>)
    /\ \A m : Ordered(<<m>>)
<1>1. Ordered(<<>>)
  BY DEF Ordered
<1>2. ASSUME NEW m PROVE Ordered(<<m>>)
  <2>1. \A i, j \in 1 .. Len(<<m>>) : ~ (i < j)
    OBVIOUS
  <2>. QED
    BY <2>1 DEF Ordered
<1>. QED
  BY <1>1, <1>2

LEMMA PrecedeUnion ==
    ASSUME NEW X, NEW Y, NEW Z
    PROVE  /\ Precede(X \cup Y, Z) <=> Precede(X, Z) /\ Precede(Y, Z)
           /\ Precede(Z, X \cup Y) <=> Precede(Z, X) /\ Precede(Z, Y)
           /\ Precede({}, Z) /\ Precede(Z, {})
           /\ \A n : Numbered(X \cup Y, n) <=> Numbered(X, n) /\ Numbered(Y, n)
           /\ \A n : Numbered({}, n)
BY Zenon DEF Precede, Numbered

LEMMA NumberedGrows ==
    ASSUME NEW X, NEW n \in Nat, NEW k \in Nat, n <= k, Numbered(X, n)
    PROVE  Numbered(X, k)
BY DEF Numbered

\* Of messages that may follow all that is there, a goes to the socket and b to
\* the queue.
LEMMA LineAdd ==
    ASSUME NEW w \in Seq(Sent), NEW q \in Seq(Sent), NEW a \in Seq(Sent), NEW b \in Seq(Sent),
           NEW n \in Nat, NEW k \in Nat, n <= k, Line(w, q, n), Ordered(a \o b),
           Precede(Items(w), Items(a \o b)), Precede(Items(q), Items(b)),
           Precede(Items(a), Items(q)), Numbered(Items(a \o b), k)
    PROVE  Line(w \o a, q \o b, k)
<1>1. /\ Items(w \o a) = Items(w) \cup Items(a) /\ Items(q \o b) = Items(q) \cup Items(b)
      /\ Items(a \o b) = Items(a) \cup Items(b)
  BY ItemsConcat
<1>2. /\ Precede(Items(w), Items(a)) /\ Precede(Items(w), Items(b))
      /\ Numbered(Items(a), k) /\ Numbered(Items(b), k)
  BY <1>1 DEF Precede, Numbered
<1>3. Ordered(a) /\ Ordered(b) /\ Precede(Items(a), Items(b))
  BY OrderedConcat
<1>4. Ordered(w \o a) /\ Ordered(q \o b)
  BY <1>2, <1>3, OrderedConcat DEF Line
<1>5. Precede(Items(w \o a), Items(q \o b))
  BY <1>1, <1>2, <1>3 DEF Line, Precede
<1>6. Numbered(Items(w \o a), k) /\ Numbered(Items(q \o b), k)
  BY <1>1, <1>2 DEF Line, Numbered
<1>. QED
  BY <1>4, <1>5, <1>6 DEF Line

LEMMA HeldAdd ==
    ASSUME NEW w \in Seq(Sent), NEW q \in Seq(Sent), NEW a \in Seq(Sent), NEW b \in Seq(Sent),
           NEW n \in Nat, NEW k \in Nat, n <= k, NEW m, NEW step, Held(w, q, n, m, step),
           Precede(Items(a \o b), {m}), step = "write" => Precede({m}, Items(b))
    PROVE  Held(w \o a, q \o b, k, m, step)
<1>1. /\ Items(w \o a) = Items(w) \cup Items(a) /\ Items(q \o b) = Items(q) \cup Items(b)
      /\ Items(a \o b) = Items(a) \cup Items(b)
  BY ItemsConcat
<1>2. Precede(Items(a), {m}) /\ Precede(Items(b), {m})
  BY <1>1 DEF Precede, Numbered
<1>3. Precede(Items(w \o a), {m}) /\ Precede(Items(q \o b), {m})
  BY <1>1, <1>2 DEF Held, Precede
<1>4. step = "write" => Precede({m}, Items(q \o b)) /\ m.type # "rest"
  BY <1>1 DEF Held, Precede
<1>5. Numbered({m}, k)
  BY NumberedGrows DEF Held
<1>. QED
  BY <1>3, <1>4, <1>5 DEF Held

\* The front a of the queue goes to the socket.
LEMMA LineMoves ==
    ASSUME NEW w \in Seq(Sent), NEW a \in Seq(Sent), NEW b \in Seq(Sent), NEW n \in Nat
    PROVE  /\ Line(w, a \o b, n) => Line(w \o a, b, n)
           /\ \A m, step : Held(w, a \o b, n, m, step) => Held(w \o a, b, n, m, step)
<1>1. /\ Items(w \o a) = Items(w) \cup Items(a)
      /\ Items(a \o b) = Items(a) \cup Items(b)
  BY ItemsConcat
<1>2. ASSUME Line(w, a \o b, n) PROVE Line(w \o a, b, n)
  <2>1. /\ Ordered(a) /\ Ordered(b) /\ Precede(Items(a), Items(b))
        /\ Precede(Items(w), Items(a)) /\ Precede(Items(w), Items(b)) /\ Ordered(w)
        /\ Numbered(Items(a), n) /\ Numbered(Items(b), n) /\ Numbered(Items(w), n)
    BY <1>1, <1>2, OrderedConcat DEF Line, Precede, Numbered
  <2>2. Ordered(w \o a)
    BY <2>1, OrderedConcat
  <2>. QED
    BY <1>1, <2>1, <2>2 DEF Line, Precede, Numbered
<1>3. ASSUME NEW m, NEW step, Held(w, a \o b, n, m, step) PROVE Held(w \o a, b, n, m, step)
  BY <1>1, <1>3 DEF Held, Precede
<1>. QED
  BY <1>2, <1>3

\* The queue is dropped.
LEMMA LineDropped ==
    ASSUME NEW w, NEW q, NEW n
    PROVE  /\ Line(w, q, n) => Line(w, <<>>, n)
           /\ \A m, step : Held(w, q, n, m, step) => Held(w, <<>>, n, m, step)
<1>1. Items(<<>>) = {} /\ Ordered(<<>>)
  BY ItemsFew, OrderedFew
<1>2. \A X : Precede(X, {}) /\ Precede({}, X) /\ Numbered({}, n)
  BY PrecedeUnion
<1>. QED
  BY <1>1, <1>2 DEF Line, Held

\* One message more, on the socket or in the queue.
LEMMA LineOne ==
    ASSUME NEW w \in Seq(Sent), NEW q \in Seq(Sent), NEW m \in Sent, NEW n \in Nat,
           Line(w, q, n), Numbered({m}, n), Precede(Items(w), {m})
    PROVE  /\ Precede({m}, Items(q)) => Line(Append(w, m), q, n)
           /\ Precede(Items(q), {m}) => Line(w, q \o <<m>>, n)
<1>1. /\ <<m>> \in Seq(Sent) /\ <<>> \in Seq(Sent) /\ Append(w, m) = w \o <<m>>
      /\ q \o <<>> = q /\ w \o <<>> = w /\ <<m>> \o <<>> = <<m>> /\ <<>> \o <<m>> = <<m>>
      /\ n <= n
  OBVIOUS
<1>2. Items(<<m>>) = {m} /\ Items(<<>>) = {} /\ Ordered(<<m>>)
  BY ItemsFew, OrderedFew
<1>3. Precede(Items(q), {}) /\ Precede({}, Items(q))
  BY PrecedeUnion
<1>4. PICK u \in Seq(Sent), e \in Seq(Sent) :
        /\ u = <<m>> /\ e = <<>> /\ Items(u) = {m} /\ Items(e) = {} /\ Ordered(u)
        /\ q \o e = q /\ w \o e = w /\ u \o e = u /\ e \o u = u /\ Append(w, m) = w \o u
  BY <1>1, <1>2
<1>5. Precede({m}, Items(q)) => Line(w \o u, q \o e, n)
  BY <1>1, <1>3, <1>4, LineAdd
<1>6. Precede(Items(q), {m}) => Line(w \o e, q \o u, n)
  BY <1>1, <1>3, <1>4, LineAdd
<1>. QED
  BY <1>4, <1>5, <1>6

LEMMA HeldOne ==
    ASSUME NEW w \in Seq(Sent), NEW q \in Seq(Sent), NEW x \in Sent, NEW n \in Nat,
           NEW m, NEW step, Held(w, q, n, m, step), MayPrecede(x, m)
    PROVE  /\ Held(Append(w, x), q, n, m, step)
           /\ MayPrecede(m, x) => Held(w, q \o <<x>>, n, m, step)
<1>1. /\ <<x>> \in Seq(Sent) /\ <<>> \in Seq(Sent) /\ Append(w, x) = w \o <<x>>
      /\ q \o <<>> = q /\ w \o <<>> = w /\ <<x>> \o <<>> = <<x>> /\ <<>> \o <<x>> = <<x>>
      /\ n <= n
  OBVIOUS
<1>2. Items(<<x>>) = {x} /\ Items(<<>>) = {}
  BY ItemsFew
<1>3. Precede({x}, {m}) /\ Precede({m}, {}) /\ (MayPrecede(m, x) => Precede({m}, {x}))
  BY DEF Precede
<1>4. PICK u \in Seq(Sent), e \in Seq(Sent) :
        /\ u = <<x>> /\ e = <<>> /\ Items(u) = {x} /\ Items(e) = {}
        /\ q \o e = q /\ w \o e = w /\ u \o e = u /\ e \o u = u /\ Append(w, x) = w \o u
  BY <1>1, <1>2
<1>5. Held(w \o u, q \o e, n, m, step)
  BY <1>1, <1>3, <1>4, HeldAdd
<1>6. MayPrecede(m, x) => Held(w \o e, q \o u, n, m, step)
  BY <1>1, <1>3, <1>4, HeldAdd
<1>. QED
  BY <1>4, <1>5, <1>6

LEMMA ItemsAppend ==
    ASSUME NEW w \in Seq(Sent), NEW m \in Sent
    PROVE  /\ m \in Items(Append(w, m)) /\ Items(w) \subseteq Items(Append(w, m))
           /\ m \in Items(w \o <<m>>) /\ Items(w) \subseteq Items(w \o <<m>>)
<1>1. <<m>> \in Seq(Sent) /\ Append(w, m) = w \o <<m>>
  OBVIOUS
<1>2. Items(w \o <<m>>) = Items(w) \cup Items(<<m>>)
  BY <1>1, ItemsConcat
<1>3. m \in Items(<<m>>)
  BY ItemsFew
<1>. QED
  BY <1>1, <1>2, <1>3

\* What is among X when nothing of the first n messages is lost.
NoneLost(X, n) == \A k \in 1 .. n : \E x \in X : x.arg = k /\ x.type # "start"

LEMMA LostParts ==
    /\ NothingLost <=> /\ \A c \in Conns : ~ con[c].disconnected => NoneLost(Carried(c), asked[c])
                       /\ \A c \in Conns : queue[c] # <<>> => sending
    /\ NothingLost' <=> /\ \A c \in Conns : ~ con'[c].disconnected => NoneLost(Carried(c)', asked'[c])
                        /\ \A c \in Conns : queue'[c] # <<>> => sending'
BY DEF NothingLost, NoneLost

LEMMA OrderInit == Init => Order
<1>. SUFFICES ASSUME Init PROVE Order
  OBVIOUS
<1>1. /\ \A c \in Conns : wire[c] = <<>> /\ queue[c] = <<>> /\ asked[c] = 0
      /\ \A t \in Threads : hand[t].con = 0
  BY DEF Init, NoSend
<1>2. Line(<<>>, <<>>, 0)
  BY ItemsFew, OrderedFew DEF Line, Precede, Numbered
<1>3. NothingLost
  BY <1>1 DEF NothingLost
<1>4. 0 \notin Conns
  BY DEF Conns
<1>. QED
  BY <1>1, <1>2, <1>3, <1>4 DEF Order

\* Steps that leave the messages alone.  A connection may be given up.
LEMMA OrderQuiet ==
    ASSUME TypeOK, Order, UNCHANGED <<queue, sending, asked, wire, hand>>,
           \A d \in Conns : con[d].disconnected => con'[d].disconnected
    PROVE  Order'
<1>1. NothingLost'
  BY DEF Order, NothingLost, Carried, InHand
<1>. QED
  BY <1>1 DEF Order

\* A step at one connection: the others stay as they are.
Elsewhere(c) ==
    /\ \A d \in Conns \ {c} : /\ wire'[d] = wire[d] /\ queue'[d] = queue[d]
                              /\ asked'[d] = asked[d]
                              /\ con'[d].disconnected = con[d].disconnected
    /\ \A t \in Threads :
          hand'[t] = hand[t] \/ (hand[t].con \in {0, c} /\ hand'[t].con \in {0, c})
    /\ \A d \in Conns : queue'[d] # <<>> => sending'
OrderedAt(c) ==
    /\ ~ con[c].disconnected => NoneLost(Carried(c), asked[c])
    /\ Line(wire[c], queue[c], asked[c])
    /\ \A t \in Threads : hand[t].con = c =>
          Held(wire[c], queue[c], asked[c], hand[t].msg, hand[t].step)
    /\ \A t, u \in Threads : t # u /\ hand[t].con = c /\ hand[u].con = c =>
          MayPrecede(hand[t].msg, hand[u].msg)
LEMMA OrderAt ==
    ASSUME TypeOK, Order, NEW c \in Conns, Elsewhere(c), OrderedAt(c)'
    PROVE  Order'
<1>1. 0 \notin Conns
  BY DEF Conns
<1>2. \A t \in Threads, d \in Conns \ {c} : hand'[t].con = d \/ hand[t].con = d => hand'[t] = hand[t]
  BY <1>1 DEF Elsewhere
<1>3. \A d \in Conns \ {c} : Carried(d)' = Carried(d)
  <2>1. ASSUME NEW d \in Conns \ {c} PROVE InHand(d)' = InHand(d)
    BY <1>2 DEF InHand
  <2>. QED
    BY <2>1 DEF Carried, Elsewhere
<1>4. NothingLost'
  BY <1>3, LostParts DEF Order, Elsewhere, OrderedAt
<1>5. \A d \in Conns : Line(wire'[d], queue'[d], asked'[d])
  BY DEF Order, Elsewhere, OrderedAt
<1>6. \A t \in Threads, d \in Conns : hand'[t].con = d =>
        Held(wire'[d], queue'[d], asked'[d], hand'[t].msg, hand'[t].step)
  BY <1>2 DEF Order, Elsewhere, OrderedAt
<1>7. \A t, u \in Threads, d \in Conns : t # u /\ hand'[t].con = d /\ hand'[u].con = d =>
        MayPrecede(hand'[t].msg, hand'[u].msg)
  BY <1>2 DEF Order, Elsewhere, OrderedAt
<1>. QED
  BY <1>4, <1>5, <1>6, <1>7 DEF Order

\* Connection.send of several messages by the main thread: when the sender is
\* idle nothing is queued that they could overtake; the reactor's thread may be in
\* the middle of a send.
LEMMA OrderSend ==
    ASSUME TypeOK, Order, NEW c \in Conns, NEW types \in Seq(Requests), SendAll(c, types),
           Idle("pox"), UNCHANGED hand,
           \A d \in Conns : con'[d].disconnected = con[d].disconnected
    PROVE  Order'
<1>1. CASE con[c].disconnected
  <2>1. UNCHANGED <<queue, sending, asked, wire, hand>>
    BY <1>1 DEF SendAll
  <2>. QED
    BY <2>1, OrderQuiet
<1>2. CASE ~ con[c].disconnected
  <2>. DEFINE msgs == Made(c, types)
              n == asked[c]
              k == n + Len(types)
  <2>1. PICK a, b \in Seq(Sent) :
          /\ a \o b = msgs
          /\ sending => a = <<>>
          /\ wire' = [wire EXCEPT ![c] = @ \o a]
          /\ Queued(c, b)
    BY <1>2, SendAllParts
  <2>2. /\ wire'[c] = wire[c] \o a /\ queue'[c] = queue[c] \o b /\ asked'[c] = k
        /\ sending' = (sending \/ b # <<>>)
        /\ \A d \in Conns \ {c} : wire'[d] = wire[d] /\ queue'[d] = queue[d] /\ asked'[d] = asked[d]
    <3>1. asked' = [asked EXCEPT ![c] = @ + Len(types)]
      BY <1>2, SendAllParts
    <3>. QED
      BY <2>1, <3>1 DEF TypeOK, Queued
  <2>3. /\ wire[c] \in Seq(Sent) /\ queue[c] \in Seq(Sent) /\ n \in Nat /\ k \in Nat /\ n <= k
        /\ Len(types) \in Nat
    BY DEF TypeOK
  <2>4. msgs \in Seq(Sent) /\ Len(msgs) = Len(types)
    BY MadeType
  <2>5. \A i \in 1 .. Len(msgs) :
          /\ msgs[i].arg = n + i /\ msgs[i].beside = Beside("pox", c)
          /\ msgs[i].type \notin {"start", "rest"}
    BY MadeType DEF Requests
  <2>. HIDE DEF msgs
  <2>6. Ordered(a \o b)
    <3>1. \A i, j \in 1 .. Len(msgs) : i < j => n + i < n + j
      BY <2>3, <2>4
    <3>2. Ordered(msgs)
      BY <2>5, <3>1 DEF Ordered, MayPrecede
    <3>. QED
      BY <2>1, <3>2
  <2>7. /\ \A x \in Items(a \o b) : /\ x.arg \in n + 1 .. k /\ x.beside = Beside("pox", c)
                                    /\ x.type \notin {"start", "rest"}
        /\ Items(a \o b) = Items(a) \cup Items(b)
    <3>1. \A i \in 1 .. Len(msgs) : n + i \in n + 1 .. k
      BY <2>3, <2>4
    <3>. QED
      BY <2>1, <2>5, <3>1, ItemsConcat DEF Items
  <2>8. Line(wire[c], queue[c], n)
    BY DEF Order
  <2>9. Precede(Items(a), Items(queue[c]))
    <3>1. a = <<>> \/ queue[c] = <<>>
      BY <2>1, LostParts DEF Order
    <3>. QED
      BY <3>1, ItemsFew DEF Precede
  <2>10. \A m \in 1 .. n, j \in n + 1 .. k : m < j
    BY <2>3
  <2>11. Line(wire'[c], queue'[c], asked'[c])
    <3>1. Precede(Items(wire[c]), Items(a \o b)) /\ Precede(Items(queue[c]), Items(b))
      BY <2>7, <2>8, <2>10 DEF Line, Precede, Numbered, MayPrecede
    <3>2. Numbered(Items(a \o b), k)
      <4>1. \A j \in n + 1 .. k : j \in 1 .. k
        BY <2>3
      <4>. QED
        BY <2>7, <4>1 DEF Numbered
    <3>3. Line(wire[c] \o a, queue[c] \o b, k)
      BY <2>1, <2>3, <2>6, <2>8, <2>9, <3>1, <3>2, LineAdd
    <3>. QED
      BY <2>2, <3>3
  <2>12. ASSUME NEW t \in Threads, hand'[t].con = c
         PROVE  Held(wire'[c], queue'[c], asked'[c], hand'[t].msg, hand'[t].step)
    <3>1. PICK m, step : m = hand[t].msg /\ step = hand[t].step
      OBVIOUS
    <3>2. hand'[t] = hand[t] /\ Held(wire[c], queue[c], n, m, step)
      BY <2>12, <3>1 DEF Order
    <3>3. t = "reactor" /\ Beside("pox", c) = m.arg
      <4>1. c # 0
        BY DEF Conns
      <4>2. t # "pox"
        BY <2>12, <3>2, <4>1 DEF Idle
      <4>. QED
        BY <2>12, <3>1, <3>2, <4>2 DEF Threads, Beside, Other
    <3>4. m.arg \in 1 .. n
      BY <3>2 DEF Held, Numbered
    <3>5. \A j \in n + 1 .. k : m.arg < j /\ j > m.arg
      BY <2>3, <3>4
    <3>6. Precede(Items(a \o b), {m}) /\ Precede({m}, Items(b))
      BY <2>7, <3>3, <3>5 DEF Precede, MayPrecede
    <3>7. Held(wire[c] \o a, queue[c] \o b, k, m, step)
      BY <2>1, <2>3, <3>2, <3>6, HeldAdd
    <3>. QED
      BY <2>2, <3>1, <3>2, <3>7
  <2>13. \A t, u \in Threads : t # u /\ hand'[t].con = c /\ hand'[u].con = c =>
            MayPrecede(hand'[t].msg, hand'[u].msg)
    BY DEF Order
  <2>14. NoneLost(Carried(c)', asked'[c])
    <3>1. Carried(c)' = Carried(c) \cup Items(a \o b)
      <4>1. Items(wire'[c]) = Items(wire[c]) \cup Items(a) /\ Items(queue'[c]) = Items(queue[c]) \cup Items(b)
        BY <2>2, <2>3, ItemsConcat
      <4>2. InHand(c)' = InHand(c)
        BY DEF InHand
      <4>. QED
        BY <2>7, <4>1, <4>2 DEF Carried
    <3>2. NoneLost(Carried(c), n)
      BY <1>2, LostParts DEF Order
    <3>3. ASSUME NEW j \in 1 .. k, j \notin 1 .. n
          PROVE  \E x \in Items(a \o b) : x.arg = j /\ x.type # "start"
      <4>1. j - n \in 1 .. Len(msgs) /\ n + (j - n) = j
        BY <2>3, <2>4, <3>3
      <4>2. msgs[j - n] \in Items(a \o b)
        BY <2>1, <4>1 DEF Items
      <4>. QED
        BY <2>5, <4>1, <4>2
    <3>. QED
      BY <2>2, <3>1, <3>2, <3>3 DEF NoneLost
  <2>15. ASSUME NEW d \in Conns, queue'[d] # <<>> PROVE sending'
    <3>1. queue[d] # <<>> => sending
      BY LostParts DEF Order
    <3>2. CASE d # c
      BY <2>2, <2>15, <3>1, <3>2
    <3>3. CASE d = c
      <4>1. queue[c] # <<>> \/ b # <<>>
        BY <2>2, <2>15, <3>3
      <4>. QED
        BY <2>2, <3>1, <3>3, <4>1
    <3>. QED
      BY <3>2, <3>3
  <2>16. OrderedAt(c)'
    BY <2>11, <2>12, <2>13, <2>14 DEF OrderedAt
  <2>17. Elsewhere(c)
    BY <2>2, <2>15 DEF Elsewhere
  <2>. QED
    BY <2>16, <2>17, OrderAt
<1>. QED
  BY <1>1, <1>2

\* A send begins: its message is in hand, and when the thread is going to write it
\* nothing is queued.
LEMMA OrderBegins ==
    ASSUME TypeOK, Order, NEW t \in Threads, NEW c \in Conns, NEW y \in {"app", "echo_reply"},
           Begins(t, c, y), UNCHANGED con
    PROVE  Order'
<1>. DEFINE n == asked[c]
            m == Said(y, n + 1, Beside(t, c))
            s == IF Deferred THEN "queue" ELSE "write"
<1>1. /\ m \in Sent /\ m.arg = n + 1 /\ m.beside = Beside(t, c) /\ m.type = y
      /\ n \in Nat /\ n + 1 \in Nat /\ n <= n + 1
      /\ wire[c] \in Seq(Sent) /\ queue[c] \in Seq(Sent)
  <2>1. n \in Nat /\ Beside(t, c) \in Nat /\ y \in SentTypes
    BY BesideType DEF TypeOK, SentTypes
  <2>. QED
    BY <2>1, SaidType DEF TypeOK
<1>2. /\ hand'[t].con = c /\ hand'[t].msg = m /\ hand'[t].step = s
      /\ \A u \in Threads \ {t} : hand'[u] = hand[u]
      /\ asked'[c] = n + 1 /\ \A d \in Conns \ {c} : asked'[d] = asked[d]
      /\ UNCHANGED <<queue, sending, wire>> /\ hand[t].con = 0 /\ ~ con[c].disconnected
  BY DEF Begins, Idle, TypeOK
<1>3. s = "write" => ~ sending
  BY DEF Deferred
<1>4. \A u \in Threads : u # t => u = Other(t)
  BY DEF Threads, Other
<1>. HIDE DEF m, s, n
<1>5. \A x : x.arg \in 1 .. n => MayPrecede(x, m)
  <2>1. \A j \in 1 .. n : j < n + 1
    BY <1>1
  <2>. QED
    BY <1>1, <2>1 DEF MayPrecede
<1>6. Line(wire[c], queue[c], n)
  BY DEF Order, n
<1>7. Line(wire[c], queue[c], n + 1)
  <2>1. Numbered(Items(wire[c]), n + 1) /\ Numbered(Items(queue[c]), n + 1)
    BY <1>1, <1>6, NumberedGrows DEF Line
  <2>. QED
    BY <1>6, <2>1 DEF Line
<1>8. Held(wire[c], queue[c], n + 1, m, s)
  <2>1. Precede(Items(wire[c]), {m}) /\ Precede(Items(queue[c]), {m})
    BY <1>5, <1>6 DEF Line, Numbered, Precede
  <2>2. n + 1 \in 1 .. n + 1 /\ m.type # "rest"
    BY <1>1
  <2>3. s = "write" => Precede({m}, Items(queue[c]))
    <3>1. s = "write" => queue[c] = <<>>
      BY <1>3, LostParts DEF Order
    <3>. QED
      BY <3>1, ItemsFew DEF Precede
  <2>. QED
    BY <1>1, <2>1, <2>2, <2>3 DEF Held, Numbered
<1>9. ASSUME NEW u \in Threads \ {t}, hand[u].con = c
      PROVE  /\ Held(wire[c], queue[c], n + 1, hand[u].msg, hand[u].step)
             /\ MayPrecede(hand[u].msg, m) /\ MayPrecede(m, hand[u].msg)
  <2>1. Held(wire[c], queue[c], n, hand[u].msg, hand[u].step)
    BY <1>9 DEF Order, n
  <2>2. Numbered({hand[u].msg}, n + 1) /\ hand[u].msg.arg \in 1 .. n
    <3>1. Numbered({hand[u].msg}, n)
      BY <2>1 DEF Held
    <3>. QED
      BY <1>1, <3>1, NumberedGrows DEF Numbered
  <2>3. m.beside = hand[u].msg.arg
    BY <1>1, <1>4, <1>9 DEF Beside
  <2>. QED
    BY <1>5, <2>1, <2>2, <2>3 DEF Held, MayPrecede
<1>10. \A u \in Threads : hand'[u].con = c =>
          Held(wire'[c], queue'[c], asked'[c], hand'[u].msg, hand'[u].step)
  BY <1>2, <1>8, <1>9
<1>11. \A u, v \in Threads : u # v /\ hand'[u].con = c /\ hand'[v].con = c =>
          MayPrecede(hand'[u].msg, hand'[v].msg)
  BY <1>2, <1>4, <1>9 DEF Order
<1>12. NoneLost(Carried(c)', asked'[c])
  <2>1. NoneLost(Carried(c), n)
    BY <1>2, LostParts DEF Order, n
  <2>2. Carried(c) \subseteq Carried(c)'
    <3>1. c # 0
      BY DEF Conns
    <3>2. InHand(c) \subseteq InHand(c)'
      BY <1>2, <3>1 DEF InHand
    <3>. QED
      BY <1>2, <3>2 DEF Carried
  <2>3. m \in Carried(c)'
    BY <1>2 DEF Carried, InHand
  <2>4. \A k \in 1 .. n + 1 : k \in 1 .. n \/ k = n + 1
    BY <1>1
  <2>. QED
    BY <1>1, <1>2, <2>1, <2>2, <2>3, <2>4 DEF NoneLost
<1>13. \A d \in Conns : queue'[d] # <<>> => sending'
  BY <1>2, LostParts DEF Order
<1>14. \A u \in Threads : hand'[u] = hand[u] \/ (hand[u].con \in {0, c} /\ hand'[u].con \in {0, c})
  BY <1>2
<1>15. Line(wire'[c], queue'[c], asked'[c])
  BY <1>2, <1>7
<1>16. OrderedAt(c)'
  BY <1>10, <1>11, <1>12, <1>15 DEF OrderedAt
<1>17. Elsewhere(c)
  BY <1>2, <1>13, <1>14 DEF Elsewhere
<1>. QED
  BY <1>16, <1>17, OrderAt

\* The start x and the rest r of a message m that is cut in two.
LEMMA PieceOrder ==
    ASSUME NEW m \in Sent, NEW x \in Sent, NEW r \in Sent, m.type \notin {"start", "rest"},
           x.type = "start" /\ x.arg = m.arg /\ x.beside = m.beside,
           r.type = "rest" /\ r.arg = m.arg /\ r.beside = m.beside
    PROVE  /\ \A y : MayPrecede(y, m) => MayPrecede(y, x) /\ MayPrecede(y, r)
           /\ \A y : MayPrecede(m, y) => MayPrecede(x, y) /\ MayPrecede(r, y)
           /\ MayPrecede(x, r)
BY DEF MayPrecede

\* When a thread lets go of its message, or of a part of it, the rest stays.
LEMMA StillCarried ==
    ASSUME NEW t \in Threads, NEW c \in Conns, NEW n, NEW z,
           NoneLost(Carried(c), n), z \in Carried(c)', z.arg = hand[t].msg.arg, z.type # "start",
           \A u \in Threads \ {t} : hand'[u] = hand[u],
           Items(wire[c]) \subseteq Items(wire'[c]), Items(queue[c]) \subseteq Items(queue'[c])
    PROVE  NoneLost(Carried(c)', n)
<1>1. ASSUME NEW x \in Carried(c), x # hand[t].msg PROVE x \in Carried(c)'
  <2>1. CASE x \in InHand(c)
    <3>1. PICK u \in Threads : hand[u].con = c /\ x = hand[u].msg
      BY <2>1 DEF InHand
    <3>2. hand'[u] = hand[u]
      BY <1>1, <3>1
    <3>. QED
      BY <3>1, <3>2 DEF Carried, InHand
  <2>. QED
    BY <1>1, <2>1 DEF Carried
<1>. SUFFICES ASSUME NEW k \in 1 .. n
              PROVE  \E x \in Carried(c)' : x.arg = k /\ x.type # "start"
  BY DEF NoneLost
<1>2. PICK x \in Carried(c) : x.arg = k /\ x.type # "start"
  BY DEF NoneLost
<1>. QED
  BY <1>1, <1>2

\* A send ends: the message is on the socket or in the queue, or there in two
\* pieces, or the connection is given up.
LEMMA OrderSendEnds ==
    ASSUME TypeOK, Order, NEW t \in Threads, SendEnds(t)
    PROVE  Order'
<1>1. UNCHANGED asked
  BY SendEndsCases
<1>2. PICK c \in Conns, m \in Sent :
        /\ hand[t].con = c /\ hand[t].msg = m /\ hand[t].step \in {"write", "queue"}
        /\ m.type \in {"app", "echo_reply", "rest"}
        /\ Wrote(t, c, m) \/ Began(t, c, m) \/ LeftOver(t, c, m) \/ Failed(t, c)
  BY SendEndsCases
<1>. DEFINE w == wire[c]
            q == queue[c]
            n == asked[c]
<1>3. /\ w \in Seq(Sent) /\ q \in Seq(Sent) /\ n \in Nat /\ hand \in [Threads -> Send]
      /\ queue \in [Conns -> Seq(Sent)] /\ wire \in [Conns -> Seq(Sent)]
  BY DEF TypeOK
<1>4. Line(w, q, n) /\ Held(w, q, n, m, hand[t].step)
  BY <1>2 DEF Order
<1>5. ASSUME NEW u \in Threads \ {t}, hand[u].con = c
      PROVE  /\ Held(w, q, n, hand[u].msg, hand[u].step)
             /\ MayPrecede(hand[u].msg, m) /\ MayPrecede(m, hand[u].msg)
  BY <1>2, <1>5 DEF Order
<1>6. \A u, v \in Threads : u # t /\ v # t => u = v
  BY DEF Threads
<1>7. /\ Numbered({m}, n) /\ Precede(Items(w), {m}) /\ Precede(Items(q), {m})
      /\ hand[t].step = "write" => Precede({m}, Items(q)) /\ m.type # "rest"
  BY <1>4 DEF Held
<1>8. ~ con[c].disconnected => NoneLost(Carried(c), n)
  BY LostParts DEF Order
<1>9. \A d \in Conns : queue[d] # <<>> => sending
  BY LostParts DEF Order
<1>10. Ended(t) => hand'[t].con = 0 /\ \A u \in Threads \ {t} : hand'[u] = hand[u]
  BY <1>3 DEF Ended, NoSend
<1>11. c # 0
  BY DEF Conns
<1>12. CASE Wrote(t, c, m)
  <2>1. /\ wire'[c] = Append(w, m) /\ UNCHANGED <<queue, sending, con>>
        /\ \A d \in Conns \ {c} : wire'[d] = wire[d]
        /\ hand[t].step = "write" /\ ~ con[c].disconnected /\ Ended(t)
    BY <1>3, <1>12 DEF Wrote, mainVars
  <2>2. Line(wire'[c], q, n)
    BY <1>3, <1>4, <1>7, <2>1, LineOne
  <2>3. ASSUME NEW u \in Threads, hand'[u].con = c
        PROVE  u # t /\ Held(wire'[c], q, n, hand'[u].msg, hand'[u].step)
    <3>1. u # t /\ hand'[u] = hand[u]
      BY <1>10, <1>11, <2>1, <2>3
    <3>2. PICK x, s : x = hand[u].msg /\ s = hand[u].step
      OBVIOUS
    <3>3. Held(w, q, n, x, s) /\ MayPrecede(m, x)
      BY <1>5, <2>3, <3>1, <3>2
    <3>4. Held(Append(w, m), q, n, x, s)
      BY <1>3, <3>3, HeldOne
    <3>. QED
      BY <2>1, <3>1, <3>2, <3>4
  <2>4. NoneLost(Carried(c)', n)
    <3>1. m \in Items(wire'[c]) /\ Items(w) \subseteq Items(wire'[c])
      BY <1>3, <2>1, ItemsAppend
    <3>2. m \in Carried(c)' /\ m.type # "start"
      BY <1>2, <3>1 DEF Carried
    <3>3. \A u \in Threads \ {t} : hand'[u] = hand[u]
      BY <1>10, <2>1
    <3>. QED
      BY <1>2, <1>8, <2>1, <3>1, <3>2, <3>3, StillCarried
  <2>5. \A u, v \in Threads : u # v /\ hand'[u].con = c /\ hand'[v].con = c =>
            MayPrecede(hand'[u].msg, hand'[v].msg)
    BY <1>6, <2>3
  <2>6. \A u \in Threads :
            hand'[u] = hand[u] \/ (hand[u].con \in {0, c} /\ hand'[u].con \in {0, c})
    BY <1>2, <1>10, <2>1
  <2>7. \A u \in Threads : hand'[u].con = c =>
            Held(wire'[c], queue'[c], asked'[c], hand'[u].msg, hand'[u].step)
    BY <1>1, <2>1, <2>3
  <2>8. OrderedAt(c)'
    BY <1>1, <2>1, <2>2, <2>4, <2>2, <2>5, <2>7 DEF OrderedAt
  <2>9. Elsewhere(c)
    BY <1>1, <1>9, <2>1, <2>6 DEF Elsewhere
  <2>. QED
    BY <2>8, <2>9, OrderAt
<1>13. CASE Began(t, c, m)
  <2>. DEFINE x == [m EXCEPT !.type = "start"]
              r == [m EXCEPT !.type = "rest"]
  <2>1. /\ x \in Sent /\ x.type = "start" /\ x.arg = m.arg /\ x.beside = m.beside
        /\ r \in Sent /\ r.type = "rest" /\ r.arg = m.arg /\ r.beside = m.beside
    <3>1. "start" \in SentTypes /\ "rest" \in SentTypes
      BY DEF SentTypes
    <3>. QED
      BY <3>1, Pieces
  <2>2. /\ wire'[c] = Append(w, x) /\ UNCHANGED <<queue, sending, con>>
        /\ \A d \in Conns \ {c} : wire'[d] = wire[d]
        /\ hand[t].step = "write" /\ ~ con[c].disconnected
        /\ hand'[t].con = c /\ hand'[t].msg = r /\ hand'[t].step = "queue"
        /\ \A u \in Threads \ {t} : hand'[u] = hand[u]
    BY <1>3, <1>13 DEF Began, mainVars
  <2>. HIDE DEF x, r
  <2>3. /\ \A y : MayPrecede(y, m) => MayPrecede(y, x) /\ MayPrecede(y, r)
        /\ \A y : MayPrecede(m, y) => MayPrecede(x, y) /\ MayPrecede(r, y)
        /\ MayPrecede(x, r)
    <3>1. m.type \notin {"start", "rest"}
      BY <1>2, <1>7, <2>2
    <3>. QED
      BY <2>1, <3>1, PieceOrder
  <2>4. /\ Numbered({x}, n) /\ Precede(Items(w), {x}) /\ Precede({x}, Items(q))
        /\ Precede(Items(w), {r}) /\ Precede(Items(q), {r}) /\ Numbered({r}, n)
    BY <1>7, <2>1, <2>2, <2>3 DEF Precede, Numbered
  <2>5. Line(Append(w, x), q, n)
    BY <1>3, <1>4, <2>1, <2>4, LineOne
  <2>6. Held(Append(w, x), q, n, r, "queue")
    <3>1. Held(w, q, n, r, "queue")
      BY <2>4 DEF Held
    <3>. QED
      BY <1>3, <2>1, <2>3, <3>1, HeldOne
  <2>7. ASSUME NEW u \in Threads \ {t}, hand'[u].con = c
        PROVE  /\ Held(Append(w, x), q, n, hand'[u].msg, hand'[u].step)
               /\ MayPrecede(r, hand'[u].msg) /\ MayPrecede(hand'[u].msg, r)
    <3>1. hand'[u] = hand[u]
      BY <2>2
    <3>2. PICK y, s : y = hand[u].msg /\ s = hand[u].step
      OBVIOUS
    <3>3. Held(w, q, n, y, s) /\ MayPrecede(m, y) /\ MayPrecede(y, m)
      BY <1>5, <2>7, <3>1, <3>2
    <3>4. Held(Append(w, x), q, n, y, s)
      BY <1>3, <2>1, <2>3, <3>3, HeldOne
    <3>. QED
      BY <2>3, <3>1, <3>2, <3>3, <3>4
  <2>8. NoneLost(Carried(c)', n)
    <3>1. Items(w) \subseteq Items(wire'[c])
      BY <1>3, <2>1, <2>2, ItemsAppend
    <3>2. r \in Carried(c)' /\ r.type # "start" /\ r.arg = hand[t].msg.arg
      BY <1>2, <2>1, <2>2 DEF Carried, InHand
    <3>. QED
      BY <1>8, <2>2, <3>1, <3>2, StillCarried
  <2>9. \A u, v \in Threads : u # v /\ hand'[u].con = c /\ hand'[v].con = c =>
            MayPrecede(hand'[u].msg, hand'[v].msg)
    BY <1>6, <2>2, <2>7
  <2>10. \A u \in Threads :
            hand'[u] = hand[u] \/ (hand[u].con \in {0, c} /\ hand'[u].con \in {0, c})
    BY <1>2, <2>2
  <2>11. \A u \in Threads : hand'[u].con = c =>
            Held(wire'[c], queue'[c], asked'[c], hand'[u].msg, hand'[u].step)
    BY <1>1, <2>2, <2>6, <2>7
  <2>12. Line(wire'[c], queue'[c], asked'[c])
    BY <1>1, <2>2, <2>5
  <2>13. OrderedAt(c)'
    BY <1>1, <2>1, <2>2, <2>8, <2>12, <2>9, <2>11 DEF OrderedAt
  <2>14. Elsewhere(c)
    BY <1>1, <1>9, <2>2, <2>10 DEF Elsewhere
  <2>. QED
    BY <2>13, <2>14, OrderAt
<1>14. CASE LeftOver(t, c, m)
  <2>1. /\ queue'[c] = q \o <<m>> /\ UNCHANGED <<wire, con>> /\ sending'
        /\ \A d \in Conns \ {c} : queue'[d] = queue[d]
        /\ Ended(t)
    BY <1>3, <1>14 DEF LeftOver, Queued, mainVars
  <2>2. Line(w, q \o <<m>>, n)
    BY <1>3, <1>4, <1>7, LineOne
  <2>3. ASSUME NEW u \in Threads, hand'[u].con = c
        PROVE  u # t /\ Held(w, q \o <<m>>, n, hand'[u].msg, hand'[u].step)
    <3>1. u # t /\ hand'[u] = hand[u]
      BY <1>10, <1>11, <2>1, <2>3
    <3>2. PICK x, s : x = hand[u].msg /\ s = hand[u].step
      OBVIOUS
    <3>3. Held(w, q, n, x, s) /\ MayPrecede(m, x) /\ MayPrecede(x, m)
      BY <1>5, <2>3, <3>1, <3>2
    <3>4. Held(w, q \o <<m>>, n, x, s)
      BY <1>3, <3>3, HeldOne
    <3>. QED
      BY <3>1, <3>2, <3>4
  <2>4. NoneLost(Carried(c)', n) \/ con[c].disconnected
    <3>1. m \in Items(queue'[c]) /\ Items(q) \subseteq Items(queue'[c])
      BY <1>3, <2>1, ItemsAppend
    <3>2. m \in Carried(c)' /\ m.type # "start"
      BY <1>2, <3>1 DEF Carried
    <3>3. \A u \in Threads \ {t} : hand'[u] = hand[u]
      BY <1>10, <2>1
    <3>. QED
      BY <1>2, <1>8, <2>1, <3>1, <3>2, <3>3, StillCarried
  <2>5. \A u, v \in Threads : u # v /\ hand'[u].con = c /\ hand'[v].con = c =>
            MayPrecede(hand'[u].msg, hand'[v].msg)
    BY <1>6, <2>3
  <2>6. \A u \in Threads :
            hand'[u] = hand[u] \/ (hand[u].con \in {0, c} /\ hand'[u].con \in {0, c})
    BY <1>2, <1>10, <2>1
  <2>7. \A u \in Threads : hand'[u].con = c =>
            Held(wire'[c], queue'[c], asked'[c], hand'[u].msg, hand'[u].step)
    BY <1>1, <2>1, <2>3
  <2>8. Line(wire'[c], queue'[c], asked'[c])
    BY <1>1, <2>1, <2>2
  <2>9. OrderedAt(c)'
    BY <1>1, <2>1, <2>2, <2>4, <2>8, <2>5, <2>7 DEF OrderedAt
  <2>10. Elsewhere(c)
    BY <1>1, <1>9, <2>1, <2>6 DEF Elsewhere
  <2>. QED
    BY <2>9, <2>10, OrderAt
<1>15. CASE Failed(t, c)
  <2>1. /\ UNCHANGED <<queue, sending, wire>> /\ con'[c].disconnected /\ Ended(t)
        /\ \A d \in Conns \ {c} : con'[d] = con[d]
    BY <1>15 DEF Failed, Disconnected, TypeOK, Con
  <2>2. \A u \in Threads : hand'[u].con = c => u # t /\ hand'[u] = hand[u]
    BY <1>10, <1>11, <2>1
  <2>3. \A u \in Threads :
            hand'[u] = hand[u] \/ (hand[u].con \in {0, c} /\ hand'[u].con \in {0, c})
    BY <1>2, <1>10, <2>1
  <2>4. \A u, v \in Threads : u # v /\ hand'[u].con = c /\ hand'[v].con = c =>
            MayPrecede(hand'[u].msg, hand'[v].msg)
    BY <1>6, <2>2
  <2>5. \A u \in Threads : hand'[u].con = c =>
            Held(wire'[c], queue'[c], asked'[c], hand'[u].msg, hand'[u].step)
    BY <1>1, <1>5, <2>1, <2>2
  <2>6. OrderedAt(c)'
    BY <1>1, <1>4, <2>1, <2>4, <2>5 DEF OrderedAt
  <2>7. Elsewhere(c)
    BY <1>1, <1>9, <2>1, <2>3 DEF Elsewhere
  <2>. QED
    BY <2>6, <2>7, OrderAt
<1>. QED
  BY <1>2, <1>12, <1>13, <1>14, <1>15

\* The sender writes the front of a queue, in its order.
LEMMA OrderWriteQueued ==
    ASSUME TypeOK, Order, NEW c \in Conns, WriteQueued(c)
    PROVE  Order'
<1>1. queue[c] \in Seq(Sent) /\ wire[c] \in Seq(Sent) /\ Len(queue[c]) \in Nat /\ asked[c] \in Nat
  BY DEF TypeOK
<1>2. PICK n \in 1 .. Len(queue[c]) :
        /\ wire' = [wire EXCEPT ![c] = @ \o SubSeq(queue[c], 1, n)]
        /\ queue' = [queue EXCEPT ![c] = SubSeq(queue[c], n + 1, Len(queue[c]))]
  BY DEF WriteQueued, TypeOK
<1>3. n \in 0 .. Len(queue[c])
  BY <1>1
<1>4. PICK a \in Seq(Sent), b \in Seq(Sent) :
        a \o b = queue[c] /\ wire'[c] = wire[c] \o a /\ queue'[c] = b
  <2>1. /\ SubSeq(queue[c], 1, n) \in Seq(Sent)
        /\ SubSeq(queue[c], n + 1, Len(queue[c])) \in Seq(Sent)
        /\ SubSeq(queue[c], 1, n) \o SubSeq(queue[c], n + 1, Len(queue[c])) = queue[c]
    BY <1>1, <1>3, Splitting
  <2>2. /\ wire'[c] = wire[c] \o SubSeq(queue[c], 1, n)
        /\ queue'[c] = SubSeq(queue[c], n + 1, Len(queue[c]))
    BY <1>2 DEF TypeOK
  <2>. QED
    BY <2>1, <2>2
<1>5. \A d \in Conns \ {c} : wire'[d] = wire[d] /\ queue'[d] = queue[d]
  BY <1>2 DEF TypeOK
<1>6. /\ UNCHANGED <<asked, hand, con>> /\ ~ con[c].disconnected
      /\ sending' = \E d \in Conns : queue'[d] # <<>>
  BY DEF WriteQueued, mainVars
<1>7. Carried(c)' = Carried(c)
  <2>1. /\ Items(wire'[c]) = Items(wire[c]) \cup Items(a)
        /\ Items(queue[c]) = Items(a) \cup Items(b)
    BY <1>1, <1>4, ItemsConcat
  <2>2. InHand(c)' = InHand(c)
    BY <1>6 DEF InHand
  <2>. QED
    BY <1>4, <2>1, <2>2 DEF Carried
<1>8. Line(wire'[c], queue'[c], asked[c])
  <2>1. Line(wire[c], a \o b, asked[c])
    BY <1>4 DEF Order
  <2>. QED
    BY <1>1, <1>4, <2>1, LineMoves
<1>9. ASSUME NEW t \in Threads, hand[t].con = c
      PROVE  Held(wire'[c], queue'[c], asked[c], hand[t].msg, hand[t].step)
  <2>1. Held(wire[c], a \o b, asked[c], hand[t].msg, hand[t].step)
    BY <1>4, <1>9 DEF Order
  <2>. QED
    BY <1>1, <1>4, <2>1, LineMoves
<1>10. NoneLost(Carried(c)', asked[c])
  BY <1>6, <1>7, LostParts DEF Order
<1>11. \A t, u \in Threads : t # u /\ hand'[t].con = c /\ hand'[u].con = c =>
              MayPrecede(hand'[t].msg, hand'[u].msg)
  BY <1>6 DEF Order
<1>12. \A t \in Threads : hand'[t].con = c =>
              Held(wire'[c], queue'[c], asked'[c], hand'[t].msg, hand'[t].step)
  BY <1>6, <1>9
<1>13. Elsewhere(c)
  BY <1>5, <1>6 DEF Elsewhere
<1>14. OrderedAt(c)'
  BY <1>6, <1>8, <1>10, <1>11, <1>12 DEF OrderedAt
<1>. QED
  BY <1>13, <1>14, OrderAt

\* A write of the sender fails: the connection is given up, and its queue dropped.
LEMMA OrderWriteFails ==
    ASSUME TypeOK, Order, NEW c \in Conns, WriteFails(c)
    PROVE  Order'
<1>1. /\ UNCHANGED <<sending, wire, asked, hand>>
      /\ queue'[c] = <<>> /\ \A d \in Conns \ {c} : queue'[d] = queue[d]
  BY DEF WriteFails, TypeOK
<1>2. con'[c].disconnected /\ \A d \in Conns \ {c} : con'[d] = con[d]
  BY DEF WriteFails, Disconnected, TypeOK, Con
<1>3. Line(wire'[c], queue'[c], asked'[c])
  BY <1>1, LineDropped DEF Order
<1>4. \A t \in Threads : hand'[t].con = c =>
          Held(wire'[c], queue'[c], asked'[c], hand'[t].msg, hand'[t].step)
  BY <1>1, LineDropped DEF Order
<1>5. \A t, u \in Threads : t # u /\ hand'[t].con = c /\ hand'[u].con = c =>
              MayPrecede(hand'[t].msg, hand'[u].msg)
  BY <1>1 DEF Order
<1>6. \A d \in Conns : queue'[d] # <<>> => sending'
  BY <1>1, LostParts DEF Order
<1>7. Elsewhere(c)
  BY <1>1, <1>2, <1>6 DEF Elsewhere
<1>8. OrderedAt(c)'
  BY <1>2, <1>3, <1>4, <1>5 DEF OrderedAt
<1>. QED
  BY <1>7, <1>8, OrderAt

\* The main thread reads a message, and perhaps answers it.
LEMMA OrderRead ==
    ASSUME TypeOK, Order, NEW c \in Conns, Read(c)
    PROVE  Order'
<1>1. ASSUME UNCHANGED sendVars, UNCHANGED hand,
             \A d \in Conns : con[d].disconnected => con'[d].disconnected
      PROVE  Order'
  <2>1. UNCHANGED <<queue, sending, asked, wire, hand>>
    BY <1>1 DEF sendVars
  <2>. QED
    BY <1>1, <2>1, OrderQuiet
<1>2. ASSUME NEW types \in Seq(Requests), SendAll(c, types), Idle("pox"), UNCHANGED hand,
             \A d \in Conns : con'[d].disconnected = con[d].disconnected
      PROVE  Order'
  BY <1>2, OrderSend
<1>3. ASSUME Disconnected(c), UNCHANGED sendVars, UNCHANGED hand PROVE Order'
  <2>1. \A d \in Conns : con[d].disconnected => con'[d].disconnected
    BY <1>3 DEF Disconnected, TypeOK, Con
  <2>. QED
    BY <1>1, <1>3, <2>1
<1>4. CASE handle_HELLO(c)
  <2>1. Idle("pox") /\ UNCHANGED hand
    BY <1>4 DEF handle_HELLO, Take, Takes
  <2>2. CASE SendAll(c, <<"features">>) /\ UNCHANGED mainVars
    BY <1>2, <2>1, <2>2, Sends DEF mainVars
  <2>3. CASE SendError(c) /\ Disconnected(c)
    BY <1>3, <2>1, <2>3 DEF SendError
  <2>. QED
    BY <1>4, <2>2, <2>3 DEF handle_HELLO
<1>5. CASE handle_FEATURES_REPLY(c)
  <2>1. con[c] \in Con /\ Idle("pox") /\ UNCHANGED hand
    BY <1>5 DEF TypeOK, handle_FEATURES_REPLY, Take, Takes
  <2>2. /\ Connecting(c).disconnected = con[c].disconnected
        /\ [Connecting(c) EXCEPT !.disconnected = TRUE].disconnected
    BY <2>1 DEF Connecting, Con
  <2>3. CASE con' = [con EXCEPT ![c] = Connecting(c)] /\ SendAll(c, Setup)
    <3>1. \A d \in Conns : con'[d].disconnected = con[d].disconnected
      BY <2>2, <2>3 DEF TypeOK
    <3>. QED
      BY <1>2, <2>1, <2>3, <3>1, Sends
  <2>4. CASE con' = [con EXCEPT ![c] = [Connecting(c) EXCEPT !.disconnected = TRUE]] /\ SendError(c)
    <3>1. \A d \in Conns : con[d].disconnected => con'[d].disconnected
      BY <2>2, <2>4 DEF TypeOK
    <3>. QED
      BY <1>1, <2>1, <2>4, <3>1 DEF SendError
  <2>. QED
    BY <1>5, <2>3, <2>4 DEF handle_FEATURES_REPLY
<1>6. CASE handle_BARRIER(c) \/ handle_ERROR_MSG(c)
  <2>1. FinishConnecting(c) /\ UNCHANGED hand
    BY <1>6 DEF handle_BARRIER, handle_ERROR_MSG, Take
  <2>2. \A d \in Conns : con[d].disconnected => con'[d].disconnected
    BY <2>1 DEF FinishConnecting, TypeOK, Con
  <2>. QED
    BY <1>1, <2>1, <2>2 DEF FinishConnecting
<1>7. CASE handle_PORT_STATUS(c)
  BY <1>1, <1>7 DEF handle_PORT_STATUS, Take
<1>8. CASE handle_STATS_REPLY(c)
  <2>1. con' = con \/ con' = [con EXCEPT ![c].stats = StatsLeft(c, toCtl[c][1].arg)]
    BY <1>8 DEF handle_STATS_REPLY
  <2>2. \A d \in Conns : con[d].disconnected => con'[d].disconnected
    BY <2>1 DEF TypeOK, Con
  <2>. QED
    BY <1>1, <1>8, <2>2 DEF handle_STATS_REPLY, Take
<1>9. CASE handle_PACKET_IN(c)
  BY <1>1, <1>9 DEF handle_PACKET_IN, Take
<1>10. CASE handle_ECHO_REQUEST(c)
  <2>1. UNCHANGED con
    BY <1>10 DEF handle_ECHO_REQUEST, mainVars
  <2>2. CASE Begins("pox", c, "echo_reply")
    BY <2>1, <2>2, OrderBegins DEF Threads
  <2>3. CASE UNCHANGED <<sendVars, hand>>
    <3>1. UNCHANGED sendVars /\ UNCHANGED hand
      BY <2>3
    <3>. QED
      BY <1>1, <2>1, <3>1
  <2>. QED
    BY <1>10, <2>2, <2>3 DEF handle_ECHO_REQUEST
<1>11. CASE Close(c)
  <2>1. \A d \in Conns : con[d].disconnected => con'[d].disconnected
    BY <1>11 DEF Close, TypeOK, Con
  <2>. QED
    BY <1>1, <1>11, <2>1 DEF Close
<1>. QED
  BY <1>4, <1>5, <1>6, <1>7, <1>8, <1>9, <1>10, <1>11 DEF Read

LEMMA OrderAccept ==
    ASSUME TypeOK, Order, NEW c \in Conns, Accept(c)
    PROVE  Order'
<1>1. Idle("pox") /\ UNCHANGED hand
  BY DEF Accept
<1>2. CASE con' = [con EXCEPT ![c].state = "open"] /\ SendAll(c, <<"hello">>)
  <2>1. \A d \in Conns : con'[d].disconnected = con[d].disconnected
    BY <1>2 DEF TypeOK, Con
  <2>. QED
    BY <1>1, <1>2, <2>1, Sends, OrderSend
<1>3. CASE con' = [con EXCEPT ![c].state = "open", ![c].disconnected = TRUE] /\ SendError(c)
  <2>1. \A d \in Conns : con[d].disconnected => con'[d].disconnected
    BY <1>3 DEF TypeOK, Con
  <2>2. UNCHANGED <<queue, sending, asked, wire, hand>>
    BY <1>1, <1>3 DEF SendError, sendVars
  <2>. QED
    BY <2>1, <2>2, OrderQuiet
<1>. QED
  BY <1>2, <1>3 DEF Accept

\* The other steps of the sender, the switch, and steps that change nothing.
LEMMA OrderOther ==
    ASSUME TypeOK, Order,
           \/ Snapshot \/ SelectRaises \/ SelectTimesOut \/ UNCHANGED vars
           \/ PeerConnects \/ PeerLeaves \/ PeerAnswers \/ PeerReports
    PROVE  Order'
<1>1. UNCHANGED <<queue, sending, asked, wire, hand>> /\ UNCHANGED con
  BY DEF Snapshot, SelectRaises, SelectTimesOut, PeerConnects, PeerLeaves, PeerAnswers,
         PeerReports, sendVars, mainVars, vars
<1>. QED
  BY <1>1, OrderQuiet

LEMMA OrderStep == TypeOK /\ Order /\ [Next]_vars => Order'
<1>1. ASSUME TypeOK, Order, NEW t \in Threads, NEW c \in Conns, SendBegins(t, c) PROVE Order'
  <2>1. Begins(t, c, "app") /\ UNCHANGED con
    BY <1>1 DEF SendBegins, mainVars
  <2>. QED
    BY <1>1, <2>1, OrderBegins
<1>. QED
  BY <1>1, OrderRead, OrderAccept, OrderSendEnds, OrderWriteQueued, OrderWriteFails,
     OrderOther DEF Next

\* What is invariant: the types, and the order of all that is on its way.
THEOREM Ordering == Spec => [](TypeOK /\ Order)
<1>1. Init => TypeOK /\ Order
  BY TypeInit, OrderInit
<1>2. TypeOK /\ Order /\ [Next]_vars => (TypeOK /\ Order)'
  BY TypeStep, OrderStep
<1>. QED
  BY <1>1, <1>2, PTL DEF Spec

\* Whatever the three threads do, no message gets ahead of one whose send had
\* returned before it was handed to Connection.send, none is lost while the
\* connection lasts, and the state has its types.
THEOREM SentInOrder == Spec => []InOrder
<1>1. TypeOK /\ Order => InOrder
  BY OrderSent DEF InOrder, Order
<1>. QED
  BY <1>1, Ordering, PTL
-----------------------------------------------------------------------------
(* The handshake.                                                          *)

Has(q, t) == \E i \in 1 .. Len(q) : q[i].type = t
Once(q, t) == \A i, j \in 1 .. Len(q) : q[i].type = t /\ q[j].type = t => i = j
\* Did the switch, after n messages of w, read one of type t?
Before(w, n, t) == \E i \in 1 .. n : w[i].type = t
BehindSetup(k) ==
    \A i \in 1 .. Len(k) : k[i].type = "barrier" => Before(k, i - 1, "setup")

\* How far the handshake of a connection has come, with co the Connection object,
\* q what the switch reported, w what is on the socket, of which the switch has
\* read n, and k that and what is queued behind it: one hello makes one features
\* request, which makes one reply, which makes the connection wait; the barrier
\* follows the setup.
InStep(co, q, k, w, n) ==
    /\ n <= Len(w) /\ BehindSetup(k)
    /\ Once(q, "hello") /\ Once(k, "features") /\ Once(q, "features")
    /\ Has(q, "hello") => ~ Has(k, "features")
    /\ Has(q, "features") => Before(w, n, "features") /\ ~ co.waits /\ co.ups = 0
    /\ co.waits \/ co.ups > 0 => Before(w, n, "features")
    /\ co.waits => co.ups = 0
    /\ Has(q, "barrier") \/ Has(q, "refused") => Before(w, n, "setup")

\* Every connection is in step, and one that was not made yet has no messages.
Step(c) == InStep(con[c], toCtl[c], wire[c] \o queue[c], wire[c], taken[c])
Handshake ==
    /\ \A c \in Conns : Step(c)
    /\ \A c \in Conns : c > made =>
          toCtl[c] = <<>> /\ wire[c] = <<>> /\ queue[c] = <<>> /\ con[c].state = "none"
    /\ nexus <= made /\ \A t \in Threads : hand[t].con <= made

\* Messages put behind others, and the first one taken.
LEMMA HasConcat ==
    ASSUME NEW S, NEW q \in Seq(S), NEW u \in Seq(S), NEW t
    PROVE  /\ Has(q \o u, t) <=> Has(q, t) \/ Has(u, t)
           /\ Once(q, t) /\ ~ Has(u, t) => Once(q \o u, t)
           /\ ~ Has(q, t) /\ Once(u, t) => Once(q \o u, t)
           /\ Once(q \o u, t) => Once(q, t) /\ Once(u, t) /\ ~ (Has(q, t) /\ Has(u, t))
<1>1. /\ Len(q) \in Nat /\ Len(u) \in Nat /\ Len(q \o u) = Len(q) + Len(u)
      /\ \A i \in 1 .. Len(q) : (q \o u)[i] = q[i]
      /\ \A i \in Len(q) + 1 .. Len(q) + Len(u) : (q \o u)[i] = u[i - Len(q)]
  OBVIOUS
<1>2. \A i \in 1 .. Len(q) + Len(u) : i \in 1 .. Len(q) \/ i - Len(q) \in 1 .. Len(u)
  BY <1>1
<1>3. \A i \in 1 .. Len(u) : (q \o u)[Len(q) + i] = u[i] /\ Len(q) + i \in 1 .. Len(q) + Len(u)
  BY <1>1
<1>4. Has(q \o u, t) => Has(q, t) \/ Has(u, t)
  BY <1>1, <1>2 DEF Has
<1>5. Has(q, t) \/ Has(u, t) => Has(q \o u, t)
  <2>1. \A i \in 1 .. Len(q) : i \in 1 .. Len(q) + Len(u)
    BY <1>1
  <2>2. Has(q, t) => Has(q \o u, t)
    BY <1>1, <2>1 DEF Has
  <2>3. Has(u, t) => Has(q \o u, t)
    BY <1>1, <1>3 DEF Has
  <2>. QED
    BY <2>2, <2>3
<1>6. Once(q, t) /\ ~ Has(u, t) => Once(q \o u, t)
  BY <1>1, <1>2 DEF Has, Once
<1>7. ~ Has(q, t) /\ Once(u, t) => Once(q \o u, t)
  BY <1>1, <1>2 DEF Has, Once
<1>8. ASSUME Once(q \o u, t) PROVE Once(q, t) /\ Once(u, t) /\ ~ (Has(q, t) /\ Has(u, t))
  <2>1. \A i \in 1 .. Len(q) : i \in 1 .. Len(q \o u) /\ (q \o u)[i] = q[i]
    BY <1>1
  <2>2. \A i, j \in 1 .. Len(u) : Len(q) + i = Len(q) + j => i = j
    BY <1>1
  <2>3. \A i \in 1 .. Len(q), j \in 1 .. Len(u) : i # Len(q) + j
    BY <1>1
  <2>4. Once(q, t)
    BY <1>8, <2>1 DEF Once
  <2>5. Once(u, t)
    BY <1>1, <1>3, <1>8, <2>2 DEF Once
  <2>6. ~ (Has(q, t) /\ Has(u, t))
    BY <1>1, <1>3, <1>8, <2>1, <2>3 DEF Has, Once
  <2>. QED
    BY <2>4, <2>5, <2>6
<1>. QED
  BY <1>4, <1>5, <1>6, <1>7, <1>8

LEMMA HasTail ==
    ASSUME NEW S, NEW q \in Seq(S), q # <<>>, NEW t
    PROVE  /\ Tail(q) \in Seq(S)
           /\ Has(Tail(q), t) => Has(q, t)
           /\ Once(q, t) => Once(Tail(q), t)
           /\ Has(q, q[1].type)
           /\ Once(q, q[1].type) => ~ Has(Tail(q), q[1].type)
<1>1. /\ Tail(q) \in Seq(S) /\ Len(q) \in Nat \ {0} /\ Len(Tail(q)) = Len(q) - 1
      /\ \A i \in 1 .. Len(q) - 1 : Tail(q)[i] = q[i + 1] /\ i + 1 \in 1 .. Len(q) /\ i + 1 # 1
      /\ 1 \in 1 .. Len(q)
  OBVIOUS
<1>2. Has(Tail(q), t) => Has(q, t)
  BY <1>1 DEF Has
<1>3. Once(q, t) => Once(Tail(q), t)
  <2>1. \A i, j \in 1 .. Len(q) - 1 : i + 1 = j + 1 => i = j
    BY <1>1
  <2>. QED
    BY <1>1, <2>1 DEF Once
<1>4. Has(q, q[1].type)
  BY <1>1 DEF Has
<1>5. Once(q, q[1].type) => ~ Has(Tail(q), q[1].type)
  BY <1>1 DEF Has, Once
<1>. QED
  BY <1>1, <1>2, <1>3, <1>4, <1>5

\* Messages of other types are not there.
LEMMA HasOne ==
    ASSUME NEW m, NEW t
    PROVE  /\ Has(<<m>>, t) <=> m.type = t
           /\ Once(<<m>>, t)
           /\ ~ Has(<<>>, t)
BY DEF Has, Once

\* In two sequences, one behind the other, each barrier is behind a setup.
Guarded(k, u) ==
    \A i \in 1 .. Len(u) : u[i].type = "barrier" => Has(k, "setup") \/ Before(u, i - 1, "setup")
LEMMA BehindConcat ==
    ASSUME NEW k \in Seq(Sent), NEW u \in Seq(Sent)
    PROVE  BehindSetup(k \o u) <=> BehindSetup(k) /\ Guarded(k, u)
<1>1. /\ Len(k) \in Nat /\ Len(u) \in Nat /\ Len(k \o u) = Len(k) + Len(u)
      /\ \A i \in 1 .. Len(k) : (k \o u)[i] = k[i]
      /\ \A i \in Len(k) + 1 .. Len(k) + Len(u) : (k \o u)[i] = u[i - Len(k)]
  OBVIOUS
<1>2. ASSUME NEW i \in 1 .. Len(k)
      PROVE  i \in 1 .. Len(k \o u) /\ (Before(k \o u, i - 1, "setup") <=> Before(k, i - 1, "setup"))
  <2>1. i \in 1 .. Len(k \o u) /\ \A j \in 1 .. i - 1 : j \in 1 .. Len(k)
    BY <1>1
  <2>. QED
    BY <1>1, <2>1 DEF Before
<1>3. ASSUME NEW i \in 1 .. Len(u)
      PROVE  /\ Len(k) + i \in 1 .. Len(k \o u) /\ (k \o u)[Len(k) + i] = u[i]
             /\ Before(k \o u, Len(k) + i - 1, "setup") <=>
                   Has(k, "setup") \/ Before(u, i - 1, "setup")
  <2>1. /\ Len(k) + i \in Len(k) + 1 .. Len(k) + Len(u) /\ (Len(k) + i) - Len(k) = i
        /\ Len(k) + i \in 1 .. Len(k) + Len(u)
    BY <1>1
  <2>2. (k \o u)[Len(k) + i] = u[i]
    BY <1>1, <2>1
  <2>3. ASSUME Before(k \o u, Len(k) + i - 1, "setup")
        PROVE  Has(k, "setup") \/ Before(u, i - 1, "setup")
    <3>1. PICK j \in 1 .. Len(k) + i - 1 : (k \o u)[j].type = "setup"
      BY <2>3 DEF Before
    <3>2. CASE j \in 1 .. Len(k)
      BY <1>1, <3>1, <3>2 DEF Has
    <3>3. CASE j \notin 1 .. Len(k)
      <4>1. j \in Len(k) + 1 .. Len(k) + Len(u) /\ j - Len(k) \in 1 .. i - 1
        BY <1>1, <3>3
      <4>. QED
        BY <1>1, <3>1, <4>1 DEF Before
    <3>. QED
      BY <3>2, <3>3
  <2>4. ASSUME Has(k, "setup") PROVE Before(k \o u, Len(k) + i - 1, "setup")
    <3>1. \A j \in 1 .. Len(k) : j \in 1 .. Len(k) + i - 1
      BY <1>1
    <3>. QED
      BY <1>1, <2>4, <3>1 DEF Has, Before
  <2>5. ASSUME Before(u, i - 1, "setup") PROVE Before(k \o u, Len(k) + i - 1, "setup")
    <3>1. PICK j \in 1 .. i - 1 : u[j].type = "setup"
      BY <2>5 DEF Before
    <3>2. /\ Len(k) + j \in Len(k) + 1 .. Len(k) + Len(u) /\ (Len(k) + j) - Len(k) = j
          /\ Len(k) + j \in 1 .. Len(k) + i - 1
      BY <1>1
    <3>. QED
      BY <1>1, <3>1, <3>2 DEF Before
  <2>. QED
    BY <1>1, <2>1, <2>2, <2>3, <2>4, <2>5
<1>4. ASSUME BehindSetup(k \o u) PROVE BehindSetup(k) /\ Guarded(k, u)
  <2>1. BehindSetup(k)
    BY <1>1, <1>2, <1>4 DEF BehindSetup
  <2>2. Guarded(k, u)
    BY <1>3, <1>4 DEF BehindSetup, Guarded
  <2>. QED
    BY <2>1, <2>2
<1>5. ASSUME BehindSetup(k), Guarded(k, u), NEW i \in 1 .. Len(k \o u),
             (k \o u)[i].type = "barrier"
      PROVE  Before(k \o u, i - 1, "setup")
  <2>1. CASE i \in 1 .. Len(k)
    BY <1>1, <1>2, <1>5, <2>1 DEF BehindSetup
  <2>2. CASE i \notin 1 .. Len(k)
    <3>1. PICK j \in 1 .. Len(u) : i = Len(k) + j
      <4>1. i - Len(k) \in 1 .. Len(u) /\ i = Len(k) + (i - Len(k))
        BY <1>1, <2>2
      <4>. QED
        BY <4>1
    <3>. QED
      BY <1>3, <1>5, <3>1 DEF Guarded
  <2>. QED
    BY <2>1, <2>2
<1>. QED
  BY <1>4, <1>5 DEF BehindSetup

\* The socket gets the front of what was queued.
LEMMA InStepWire ==
    ASSUME NEW co, NEW q, NEW k, NEW w \in Seq(Sent), NEW n \in Nat, NEW a \in Seq(Sent),
           InStep(co, q, k, w, n)
    PROVE  InStep(co, q, k, w \o a, n)
<1>1. n <= Len(w) /\ Len(w) <= Len(w \o a) /\ \A i \in 1 .. n : (w \o a)[i] = w[i]
  BY DEF InStep
<1>2. \A t : Before(w, n, t) => Before(w \o a, n, t)
  BY <1>1 DEF Before
<1>3. n <= Len(w \o a)
  BY <1>1
<1>. QED
  BY <1>2, <1>3 DEF InStep

\* Messages other than a features request are handed to send.
LEMMA InStepAsked ==
    ASSUME NEW co, NEW q, NEW k \in Seq(Sent), NEW w, NEW n, NEW u \in Seq(Sent),
           InStep(co, q, k, w, n), ~ Has(u, "features"), BehindSetup(u)
    PROVE  InStep(co, q, k \o u, w, n)
<1>1. BehindSetup(k \o u)
  BY BehindConcat DEF InStep, BehindSetup, Guarded
<1>2. Once(k \o u, "features") /\ (Has(k \o u, "features") <=> Has(k, "features"))
  BY HasConcat DEF InStep
<1>. QED
  BY <1>1, <1>2 DEF InStep

\* The features request is handed to send.
LEMMA InStepFeatures ==
    ASSUME NEW co, NEW q, NEW k \in Seq(Sent), NEW w, NEW n, NEW u \in Seq(Sent),
           InStep(co, q, k, w, n), ~ Has(k, "features"), ~ Has(q, "hello"),
           Once(u, "features"), BehindSetup(u)
    PROVE  InStep(co, q, k \o u, w, n)
<1>1. BehindSetup(k \o u)
  BY BehindConcat DEF InStep, BehindSetup, Guarded
<1>2. Once(k \o u, "features")
  BY HasConcat
<1>. QED
  BY <1>1, <1>2 DEF InStep

\* A message that is not part of the handshake gets to the socket, perhaps before
\* what is queued.
LEMMA InStepWritten ==
    ASSUME NEW co, NEW q, NEW w \in Seq(Sent), NEW b \in Seq(Sent), NEW n \in Nat, NEW m \in Sent,
           m.type \notin {"features", "barrier"}, InStep(co, q, w \o b, w, n)
    PROVE  InStep(co, q, Append(w, m) \o b, Append(w, m), n)
<1>1. PICK u \in Seq(Sent) : /\ u = <<m>> /\ Append(w, m) = w \o u /\ ~ Has(u, "features")
                             /\ \A k : Guarded(k, u)
  <2>1. <<m>> \in Seq(Sent) /\ Append(w, m) = w \o <<m>>
    OBVIOUS
  <2>2. ~ Has(<<m>>, "features")
    BY HasOne
  <2>3. \A k : Guarded(k, <<m>>)
    BY DEF Guarded
  <2>. QED
    BY <2>1, <2>2, <2>3
<1>2. w \o u \in Seq(Sent)
  OBVIOUS
<1>3. BehindSetup(w) /\ Guarded(w, b)
  BY BehindConcat DEF InStep
<1>4. Has(w, "setup") => Has(w \o u, "setup")
  BY HasConcat
<1>5. BehindSetup((w \o u) \o b)
  <2>1. BehindSetup(w \o u)
    BY <1>1, <1>3, BehindConcat
  <2>2. Guarded(w \o u, b)
    BY <1>3, <1>4 DEF Guarded
  <2>. QED
    BY <1>2, <2>1, <2>2, BehindConcat
<1>6. Has((w \o u) \o b, "features") <=> Has(w \o b, "features")
  <2>1. Has(w \o u, "features") <=> Has(w, "features")
    BY <1>1, HasConcat
  <2>. QED
    BY <1>2, <2>1, HasConcat
<1>7. Once((w \o u) \o b, "features")
  <2>1. /\ Once(w, "features") /\ Once(b, "features")
        /\ ~ (Has(w, "features") /\ Has(b, "features"))
    BY HasConcat DEF InStep
  <2>2. Once(w \o u, "features") /\ (Has(w \o u, "features") <=> Has(w, "features"))
    BY <1>1, <2>1, HasConcat
  <2>. QED
    BY <1>2, <2>1, <2>2, HasConcat
<1>8. InStep(co, q, w \o b, w \o u, n)
  BY InStepWire
<1>9. InStep(co, q, (w \o u) \o b, w \o u, n)
  BY <1>5, <1>6, <1>7, <1>8 DEF InStep
<1>. QED
  BY <1>1, <1>9

\* The queue is dropped.
LEMMA InStepDropped ==
    ASSUME NEW co, NEW q, NEW w \in Seq(Sent), NEW b \in Seq(Sent), NEW n,
           InStep(co, q, w \o b, w, n)
    PROVE  InStep(co, q, w \o <<>>, w, n)
<1>1. w \o <<>> = w
  OBVIOUS
<1>2. BehindSetup(w)
  BY BehindConcat DEF InStep
<1>3. Once(w, "features") /\ (Has(w, "features") => Has(w \o b, "features"))
  BY HasConcat DEF InStep
<1>. QED
  BY <1>1, <1>2, <1>3 DEF InStep

\* What each send of the handshake hands over.
LEMMA SendsInStep ==
    ASSUME TypeOK, NEW c \in Conns
    PROVE  /\ \A t \in {"hello", "features"} : BehindSetup(Made(c, <<t>>))
           /\ ~ Has(Made(c, <<"hello">>), "features")
           /\ Once(Made(c, <<"features">>), "features")
           /\ ~ Has(Made(c, Setup), "features") /\ BehindSetup(Made(c, Setup))
<1>1. ASSUME NEW t \in {"hello", "features"}
      PROVE  /\ Len(Made(c, <<t>>)) = 1 /\ Made(c, <<t>>)[1].type = t
  <2>1. ASSUME NEW y \in Seq(Requests), Len(y) = 1
        PROVE  Len(Made(c, y)) = 1 /\ Made(c, y)[1].type = y[1]
    BY <2>1, MadeType
  <2>2. <<t>> \in Seq(Requests)
    BY Sends
  <2>3. Len(<<t>>) = 1 /\ <<t>>[1] = t
    OBVIOUS
  <2>4. Len(Made(c, <<t>>)) = 1 /\ Made(c, <<t>>)[1].type = <<t>>[1]
    BY <2>1, <2>2, <2>3, Zenon
  <2>. QED
    BY <2>3, <2>4
<1>2. ASSUME NEW t \in {"hello", "features"}
      PROVE  /\ BehindSetup(Made(c, <<t>>)) /\ Once(Made(c, <<t>>), "features")
             /\ t = "hello" => ~ Has(Made(c, <<t>>), "features")
  BY <1>1 DEF BehindSetup, Once, Has
<1>3. /\ Len(Made(c, Setup)) = 2 /\ Made(c, Setup)[1].type = "setup"
      /\ Made(c, Setup)[2].type = "barrier"
  <2>1. Setup \in Seq(Requests) /\ Len(Setup) = 2 /\ Setup[1] = "setup" /\ Setup[2] = "barrier"
    BY Sends DEF Setup
  <2>. QED
    BY <2>1, MadeType
<1>4. BehindSetup(Made(c, Setup))
  BY <1>3 DEF BehindSetup, Before
<1>5. ~ Has(Made(c, Setup), "features")
  BY <1>3 DEF Has
<1>. QED
  BY <1>2, <1>4, <1>5

\* The controller reads a message or drops all of them.
LEMMA InStepTail ==
    ASSUME NEW co, NEW q \in Seq(Reported), NEW k, NEW w, NEW n, InStep(co, q, k, w, n)
    PROVE  /\ q # <<>> => /\ InStep(co, Tail(q), k, w, n)
                          /\ q[1].type \in {"hello", "features"} => ~ Has(Tail(q), q[1].type)
           /\ InStep(co, <<>>, k, w, n)
<1>1. CASE q # <<>>
  <2>1. /\ \A t : Has(Tail(q), t) => Has(q, t)
        /\ \A t : Once(q, t) => Once(Tail(q), t)
        /\ Once(q, q[1].type) => ~ Has(Tail(q), q[1].type)
    BY <1>1, HasTail
  <2>. QED
    BY <1>1, <2>1 DEF InStep, Has, Once
<1>2. InStep(co, <<>>, k, w, n)
  BY DEF InStep, Has, Once
<1>. QED
  BY <1>1, <1>2

\* The switch reports something that is not part of the handshake.
LEMMA InStepReport ==
    ASSUME NEW co, NEW q \in Seq(Reported), NEW k, NEW w, NEW n, NEW u \in Seq(Reported),
           InStep(co, q, k, w, n),
           \A t \in {"hello", "features", "barrier", "refused"} : ~ Has(u, t)
    PROVE  InStep(co, q \o u, k, w, n)
<1>1. \A t \in {"hello", "features", "barrier", "refused"} :
        /\ Has(q \o u, t) <=> Has(q, t)
        /\ Once(q, t) => Once(q \o u, t)
  BY HasConcat
<1>. QED
  BY <1>1 DEF InStep

\* The Connection object changes.
LEMMA InStepCon ==
    ASSUME NEW co, NEW r, NEW q, NEW k, NEW w, NEW n, InStep(co, q, k, w, n),
           r.waits = co.waits /\ r.ups = co.ups
    PROVE  InStep(r, q, k, w, n)
BY DEF InStep

\* The switch answers the first request that it has not read yet: it answers the
\* one features request once, and a barrier behind the setup.
LEMMA InStepAnswer ==
    ASSUME NEW co \in Con, NEW q \in Seq(Reported), NEW w \in Seq(Sent), NEW b \in Seq(Sent),
           NEW n \in Nat, NEW i \in n + 1 .. Len(w), NEW t, NEW x, Msg(t, x) \in Reported,
           InStep(co, q, w \o b, w, n),
           w[i].type \in {"features", "barrier"}, t \in Answers(w[i].type)
    PROVE  InStep(co, q \o <<Msg(t, x)>>, w \o b, w, i)
<1>1. /\ i \in Nat /\ i \in 1 .. Len(w) /\ n < i /\ i <= Len(w)
      /\ \A j \in 1 .. n : j \in 1 .. Len(w) /\ j \in 1 .. i /\ j # i
      /\ \A j \in 1 .. i - 1 : j \in 1 .. i
  <2>1. Len(w) \in Nat /\ n <= Len(w)
    BY DEF InStep
  <2>. QED
    BY <2>1
<1>2. \A s : Before(w, n, s) => Before(w, i, s)
  BY <1>1 DEF Before
<1>3. /\ \A s : Has(q \o <<Msg(t, x)>>, s) <=> Has(q, s) \/ s = t
      /\ \A s : s # t /\ Once(q, s) => Once(q \o <<Msg(t, x)>>, s)
      /\ ~ Has(q, t) => Once(q \o <<Msg(t, x)>>, t)
  <2>1. <<Msg(t, x)>> \in Seq(Reported) /\ Msg(t, x).type = t
    BY DEF Msg
  <2>2. PICK m : m = Msg(t, x) /\ m.type = t /\ <<m>> \in Seq(Reported)
    BY <2>1
  <2>3. \A s : (Has(<<m>>, s) <=> s = t) /\ Once(<<m>>, s)
    BY <2>2, HasOne
  <2>4. \A s : /\ Has(q \o <<m>>, s) <=> Has(q, s) \/ Has(<<m>>, s)
               /\ Once(q, s) /\ ~ Has(<<m>>, s) => Once(q \o <<m>>, s)
               /\ ~ Has(q, s) /\ Once(<<m>>, s) => Once(q \o <<m>>, s)
    BY <2>2, HasConcat
  <2>. QED
    BY <2>2, <2>3, <2>4
<1>4. CASE w[i].type = "features"
  <2>1. t = "features"
    BY <1>4 DEF Answers
  <2>2. ~ Before(w, n, "features")
    <3>1. Once(w, "features")
      BY HasConcat DEF InStep
    <3>. QED
      BY <1>1, <1>4, <3>1 DEF Before, Once
  <2>3. ~ Has(q, "features") /\ ~ co.waits /\ ~ (co.ups > 0) /\ co.ups = 0
    BY <2>2 DEF InStep, Con
  <2>4. Before(w, i, "features") /\ Has(w \o b, "features")
    <3>1. Has(w, "features")
      BY <1>1, <1>4 DEF Has
    <3>. QED
      BY <1>1, <1>4, <3>1, HasConcat DEF Before
  <2>. QED
    BY <1>1, <1>2, <1>3, <2>1, <2>3, <2>4 DEF InStep
<1>5. CASE w[i].type = "barrier"
  <2>1. t \in {"barrier", "refused"}
    BY <1>5 DEF Answers
  <2>2. BehindSetup(w)
    BY BehindConcat DEF InStep
  <2>3. Before(w, i - 1, "setup")
    BY <1>1, <1>5, <2>2 DEF BehindSetup
  <2>4. Before(w, i, "setup")
    BY <1>1, <2>3 DEF Before
  <2>. QED
    BY <1>1, <1>2, <1>3, <2>1, <2>4 DEF InStep
<1>. QED
  BY <1>4, <1>5

LEMMA HandshakeInit == Init => Handshake
<1>1. ASSUME NEW co, co.ups = 0, ~ co.waits
      PROVE  InStep(co, <<>>, <<>> \o <<>>, <<>>, 0)
  <2>1. <<>> \o <<>> = <<>>
    OBVIOUS
  <2>2. InStep(co, <<>>, <<>>, <<>>, 0)
    BY <1>1 DEF InStep, Has, Once, BehindSetup
  <2>. QED
    BY <2>1, <2>2
<1>2. NewCon.ups = 0 /\ ~ NewCon.waits /\ NewCon.state = "none" /\ NoSend.con = 0
  BY DEF NewCon, NoSend
<1>3. Init => \A c \in Conns : Step(c)
  BY <1>1, <1>2 DEF Init, Step
<1>. QED
  BY <1>2, <1>3 DEF Init, Handshake

\* A step at one connection.
Apart(c) ==
    /\ \A d \in Conns \ {c} : /\ con'[d] = con[d] /\ toCtl'[d] = toCtl[d]
                              /\ wire'[d] = wire[d] /\ queue'[d] = queue[d]
    /\ UNCHANGED <<made, taken>>
LEMMA HandshakeAt ==
    ASSUME TypeOK, Handshake, NEW c \in Conns, Apart(c), nexus' \in {0, c, nexus},
           \A t \in Threads : hand'[t].con \in {0, c, hand[t].con},
           c <= made \/ /\ toCtl'[c] = toCtl[c] /\ wire'[c] = wire[c]
                        /\ queue'[c] \in {queue[c], <<>>}
                        /\ con'[c].state = con[c].state /\ nexus' \in {0, nexus}
                        /\ \A t \in Threads : hand'[t].con \in {0, hand[t].con},
           InStep(con'[c], toCtl'[c], wire'[c] \o queue'[c], wire'[c], taken[c])
    PROVE  Handshake'
<1>1. made \in Nat /\ nexus \in Nat /\ c \in Nat /\ \A t \in Threads : hand[t].con \in Nat
  BY ConnectionsAssumption DEF TypeOK, Conns, Send
<1>2. \A d \in Conns : Step(d)'
  BY DEF Handshake, Step, Apart
<1>3. \A d \in Conns : d > made' =>
        toCtl'[d] = <<>> /\ wire'[d] = <<>> /\ queue'[d] = <<>> /\ con'[d].state = "none"
  BY <1>1 DEF Handshake, Apart
<1>4. nexus' <= made'
  BY <1>1 DEF Handshake, Apart
<1>5. \A t \in Threads : hand'[t].con <= made'
  BY <1>1 DEF Handshake, Apart
<1>. QED
  BY <1>2, <1>3, <1>4, <1>5 DEF Handshake

\* The values that the handshake of a connection is about.
LEMMA Values ==
    ASSUME TypeOK, NEW c \in Conns
    PROVE  /\ con[c] \in Con /\ toCtl[c] \in Seq(Reported) /\ wire[c] \o queue[c] \in Seq(Sent)
           /\ wire[c] \in Seq(Sent) /\ queue[c] \in Seq(Sent) /\ taken[c] \in Nat
BY DEF TypeOK

\* What a send changes: with the sender idle nothing is queued that could be
\* overtaken.
LEMMA SendAllEffect ==
    ASSUME TypeOK, Order, NEW c \in Conns, NEW types \in Seq(Requests), SendAll(c, types)
    PROVE  /\ \A d \in Conns \ {c} : wire'[d] = wire[d] /\ queue'[d] = queue[d]
           /\ \E a \in Seq(Sent), u \in {<<>>, Made(c, types)} :
                 /\ wire'[c] = wire[c] \o a
                 /\ wire'[c] \o queue'[c] = (wire[c] \o queue[c]) \o u
<1>0. PICK w \in Seq(Sent), q \in Seq(Sent) : w = wire[c] /\ q = queue[c]
  BY Values
<1>1. CASE con[c].disconnected
  <2>1. UNCHANGED <<queue, wire>>
    BY <1>1 DEF SendAll
  <2>2. w \o <<>> = w /\ (w \o q) \o <<>> = w \o q /\ <<>> \in Seq(Sent)
    OBVIOUS
  <2>. QED
    BY <1>0, <2>1, <2>2
<1>2. CASE ~ con[c].disconnected
  <2>1. PICK a \in Seq(Sent), b \in Seq(Sent) :
          /\ a \o b = Made(c, types) /\ (sending => a = <<>>)
          /\ wire' = [wire EXCEPT ![c] = @ \o a] /\ Queued(c, b)
    BY <1>2, SendAllParts
  <2>2. a = <<>> \/ q = <<>>
    <3>1. queue[c] # <<>> => sending
      BY LostParts DEF Order
    <3>. QED
      BY <1>0, <2>1, <3>1
  <2>3. (w \o q) \o (a \o b) = (w \o a) \o (q \o b)
    <3>1. CASE a = <<>>
      <4>1. w \o a = w /\ a \o b = b
        BY <3>1
      <4>2. (w \o q) \o b = w \o (q \o b)
        BY ConcatsSent
      <4>. QED
        BY <4>1, <4>2
    <3>2. CASE q = <<>>
      <4>1. w \o q = w /\ q \o b = b
        BY <3>2
      <4>2. w \o (a \o b) = (w \o a) \o b
        BY ConcatsSent
      <4>. QED
        BY <4>1, <4>2
    <3>. QED
      BY <2>2, <3>1, <3>2
  <2>4. wire'[c] = w \o a /\ queue'[c] = q \o b
    BY <1>0, <2>1 DEF TypeOK, Queued
  <2>5. \A d \in Conns \ {c} : wire'[d] = wire[d] /\ queue'[d] = queue[d]
    BY <2>1 DEF TypeOK, Queued
  <2>6. wire'[c] \o queue'[c] = (w \o q) \o Made(c, types)
    <3>1. wire'[c] \o queue'[c] = (w \o a) \o (q \o b)
      BY <2>4, Zenon
    <3>2. (w \o q) \o (a \o b) = (w \o q) \o Made(c, types)
      BY <2>1, Zenon
    <3>. QED
      BY <2>3, <3>1, <3>2, Zenon
  <2>7. wire'[c] = wire[c] \o a /\ wire'[c] \o queue'[c] = (wire[c] \o queue[c]) \o Made(c, types)
    BY <1>0, <2>4, <2>6, Zenon
  <2>. QED
    BY <2>5, <2>7, Zenon
<1>. QED
  BY <1>1, <1>2

\* Only a connection that the switch has made is read from, accepted or written to.
LEMMA MadeBefore ==
    ASSUME TypeOK, Handshake, NEW c \in Conns
    PROVE  con[c].state # "none" \/ toCtl[c] # <<>> \/ wire[c] # <<>> \/ queue[c] # <<>>
              => c <= made
BY DEF Handshake, TypeOK, Conns

\* A send keeps the connection in step, whatever the other values are.
LEMMA SendInStep ==
    ASSUME TypeOK, Order, NEW c \in Conns, NEW types \in Seq(Requests), SendAll(c, types),
           NEW co, NEW q, InStep(co, q, wire[c] \o queue[c], wire[c], taken[c]),
           BehindSetup(Made(c, types)),
           \/ ~ Has(Made(c, types), "features")
           \/ /\ ~ Has(wire[c] \o queue[c], "features") /\ ~ Has(q, "hello")
              /\ Once(Made(c, types), "features")
    PROVE  InStep(co, q, wire'[c] \o queue'[c], wire'[c], taken[c])
<1>1. PICK a \in Seq(Sent), u \in {<<>>, Made(c, types)} :
        wire'[c] = wire[c] \o a /\ wire'[c] \o queue'[c] = (wire[c] \o queue[c]) \o u
  BY SendAllEffect
<1>2. PICK k \in Seq(Sent), w \in Seq(Sent) : k = wire[c] \o queue[c] /\ w = wire[c]
  BY Values
<1>3. taken[c] \in Nat /\ <<>> \in Seq(Sent) /\ Made(c, types) \in Seq(Sent)
  BY Values, MadeType
<1>4. ~ Has(<<>>, "features") /\ BehindSetup(<<>>)
  BY DEF Has, BehindSetup
<1>5. InStep(co, q, k \o u, w, taken[c])
  <2>0. InStep(co, q, k, w, taken[c]) /\ u \in Seq(Sent)
    BY <1>2, <1>3
  <2>1. CASE u = <<>>
    BY <1>3, <1>4, <2>0, <2>1, InStepAsked
  <2>2. CASE u = Made(c, types) /\ ~ Has(Made(c, types), "features")
    BY <1>3, <2>0, <2>2, InStepAsked
  <2>3. CASE u = Made(c, types) /\ Has(Made(c, types), "features")
    BY <1>2, <1>3, <2>0, <2>3, InStepFeatures
  <2>. QED
    BY <2>1, <2>2, <2>3
<1>6. InStep(co, q, k \o u, w \o a, taken[c])
  BY <1>3, <1>5, InStepWire
<1>. QED
  BY <1>1, <1>2, <1>6

LEMMA HandshakeAccept ==
    ASSUME TypeOK, Order, Handshake, NEW c \in Conns, Accept(c)
    PROVE  Handshake'
<1>1. /\ UNCHANGED <<nexus, toCtl, made, taken, hand>> /\ c <= made
  BY DEF Accept, peerVars, TypeOK, Conns
<1>2. /\ \A d \in Conns \ {c} : con'[d] = con[d]
      /\ con'[c].waits = con[c].waits /\ con'[c].ups = con[c].ups
  <2>1. con[c] \in Con /\ con \in [Conns -> Con]
    BY DEF TypeOK
  <2>2. \/ con' = [con EXCEPT ![c] = [con[c] EXCEPT !.state = "open"]]
        \/ con' = [con EXCEPT ![c] = [con[c] EXCEPT !.state = "open", !.disconnected = TRUE]]
    BY DEF Accept, TypeOK
  <2>3. ASSUME NEW r, con' = [con EXCEPT ![c] = r], r.waits = con[c].waits, r.ups = con[c].ups
        PROVE  /\ \A d \in Conns \ {c} : con'[d] = con[d]
               /\ con'[c].waits = con[c].waits /\ con'[c].ups = con[c].ups
    BY <2>1, <2>3
  <2>4. /\ [con[c] EXCEPT !.state = "open"].waits = con[c].waits
        /\ [con[c] EXCEPT !.state = "open"].ups = con[c].ups
        /\ [con[c] EXCEPT !.state = "open", !.disconnected = TRUE].waits = con[c].waits
        /\ [con[c] EXCEPT !.state = "open", !.disconnected = TRUE].ups = con[c].ups
    BY <2>1 DEF Con
  <2>. QED
    BY <2>2, <2>3, <2>4
<1>3. InStep(con'[c], toCtl[c], wire[c] \o queue[c], wire[c], taken[c])
  BY <1>2, InStepCon DEF Handshake, Step
<1>4. CASE SendAll(c, <<"hello">>)
  <2>1. Apart(c)
    BY <1>1, <1>2, <1>4, Sends, SendAllEffect DEF Apart
  <2>2. InStep(con'[c], toCtl[c], wire'[c] \o queue'[c], wire'[c], taken[c])
    BY <1>3, <1>4, Sends, SendsInStep, SendInStep
  <2>. QED
    BY <1>1, <2>1, <2>2, HandshakeAt
<1>5. CASE SendError(c)
  <2>1. UNCHANGED <<queue, wire>>
    BY <1>5 DEF SendError, sendVars
  <2>2. Apart(c)
    BY <1>1, <1>2, <2>1 DEF Apart
  <2>. QED
    BY <1>1, <1>3, <2>1, <2>2, HandshakeAt
<1>. QED
  BY <1>4, <1>5 DEF Accept

\* What reading a message leaves for the handler.
LEMMA TakeInStep ==
    ASSUME TypeOK, Handshake, NEW c \in Conns, NEW t, Takes(c, t)
    PROVE  /\ InStep(con[c], toCtl'[c], wire[c] \o queue[c], wire[c], taken[c])
           /\ t \in {"hello", "features"} => ~ Has(toCtl'[c], t)
           /\ Has(toCtl[c], t)
           /\ \A d \in Conns \ {c} : toCtl'[d] = toCtl[d]
           /\ UNCHANGED <<made, taken>> /\ c <= made
<1>1. /\ toCtl[c] # <<>> /\ toCtl[c][1].type = t /\ toCtl'[c] = Tail(toCtl[c])
      /\ \A d \in Conns \ {c} : toCtl'[d] = toCtl[d]
      /\ UNCHANGED <<made, taken>>
  BY DEF Takes, TypeOK, peerVars
<1>2. c <= made
  BY <1>1, MadeBefore
<1>3. Has(toCtl[c], t)
  BY <1>1, Values, HasTail
<1>4. InStep(con[c], toCtl[c], wire[c] \o queue[c], wire[c], taken[c])
  BY DEF Handshake, Step
<1>5. /\ InStep(con[c], Tail(toCtl[c]), wire[c] \o queue[c], wire[c], taken[c])
      /\ toCtl[c][1].type \in {"hello", "features"} => ~ Has(Tail(toCtl[c]), toCtl[c][1].type)
  BY <1>1, <1>4, Values, InStepTail
<1>. QED
  BY <1>1, <1>2, <1>3, <1>5

LEMMA HandshakeRead ==
    ASSUME TypeOK, Order, Handshake, NEW c \in Conns, Read(c)
    PROVE  Handshake'
<1>1. ASSUME NEW t, Take(c, t), \A d \in Conns \ {c} : con'[d] = con[d],
             \A d \in Conns \ {c} : wire'[d] = wire[d] /\ queue'[d] = queue[d],
             nexus' \in {0, c, nexus},
             InStep(con'[c], toCtl'[c], wire'[c] \o queue'[c], wire'[c], taken[c])
      PROVE  Handshake'
  <2>1. Apart(c) /\ c <= made /\ UNCHANGED hand
    BY <1>1, TakeInStep DEF Apart, Take
  <2>. QED
    BY <1>1, <2>1, HandshakeAt
<1>2. ASSUME NEW t, Take(c, t), UNCHANGED sendVars, \A d \in Conns \ {c} : con'[d] = con[d],
             nexus' \in {0, c, nexus}, con'[c].waits = con[c].waits, con'[c].ups = con[c].ups
      PROVE  Handshake'
  <2>1. UNCHANGED <<queue, wire>>
    BY <1>2 DEF sendVars
  <2>2. InStep(con'[c], toCtl'[c], wire[c] \o queue[c], wire[c], taken[c])
    BY <1>2, TakeInStep, InStepCon DEF Take
  <2>. QED
    BY <1>1, <1>2, <2>1, <2>2
<1>3. ASSUME NEW t, Take(c, t), SendError(c), Disconnected(c) PROVE Handshake'
  <2>1. /\ \A d \in Conns \ {c} : con'[d] = con[d]
        /\ con'[c].waits = con[c].waits /\ con'[c].ups = con[c].ups /\ nexus' \in {0, nexus}
    BY <1>3 DEF Disconnected, TypeOK, Con
  <2>. QED
    BY <1>2, <1>3, <2>1 DEF SendError
<1>4. CASE handle_HELLO(c)
  <2>1. Take(c, "hello")
    BY <1>4 DEF handle_HELLO
  <2>2. CASE SendAll(c, <<"features">>) /\ UNCHANGED mainVars
    <3>1. UNCHANGED <<con, nexus>>
      BY <2>2 DEF mainVars
    <3>2. ~ Has(toCtl'[c], "hello") /\ ~ Has(wire[c] \o queue[c], "features")
      BY <2>1, TakeInStep DEF Handshake, Step, InStep, Take
    <3>3. InStep(con[c], toCtl'[c], wire[c] \o queue[c], wire[c], taken[c])
      BY <2>1, TakeInStep DEF Take
    <3>4. InStep(con'[c], toCtl'[c], wire'[c] \o queue'[c], wire'[c], taken[c])
      BY <2>2, <3>1, <3>2, <3>3, Sends, SendsInStep, SendInStep
    <3>5. \A d \in Conns \ {c} : wire'[d] = wire[d] /\ queue'[d] = queue[d]
      BY <2>2, Sends, SendAllEffect
    <3>. QED
      BY <1>1, <2>1, <3>1, <3>4, <3>5
  <2>3. CASE SendError(c) /\ Disconnected(c)
    BY <1>3, <2>1, <2>3
  <2>. QED
    BY <1>4, <2>2, <2>3 DEF handle_HELLO
<1>5. CASE handle_FEATURES_REPLY(c)
  <2>1. Take(c, "features")
    BY <1>5 DEF handle_FEATURES_REPLY
  <2>2. con[c] \in Con
    BY Values
  <2>3. /\ InStep(con[c], toCtl'[c], wire[c] \o queue[c], wire[c], taken[c])
        /\ ~ Has(toCtl'[c], "features") /\ Before(wire[c], taken[c], "features")
        /\ con[c].ups = 0
    BY <2>1, TakeInStep DEF Handshake, Step, InStep, Take
  <2>4. ASSUME NEW r, r.waits = TRUE, r.ups = con[c].ups
        PROVE  InStep(r, toCtl'[c], wire[c] \o queue[c], wire[c], taken[c])
    BY <2>3, <2>4 DEF InStep
  <2>5. /\ Connecting(c).waits = TRUE /\ Connecting(c).ups = con[c].ups
        /\ [Connecting(c) EXCEPT !.disconnected = TRUE].waits = TRUE
        /\ [Connecting(c) EXCEPT !.disconnected = TRUE].ups = con[c].ups
    BY <2>2 DEF Connecting, Con
  <2>6. CASE con' = [con EXCEPT ![c] = Connecting(c)] /\ nexus' = c /\ SendAll(c, Setup)
    <3>1. con'[c] = Connecting(c) /\ \A d \in Conns \ {c} : con'[d] = con[d]
      BY <2>6 DEF TypeOK
    <3>2. InStep(con'[c], toCtl'[c], wire[c] \o queue[c], wire[c], taken[c])
      BY <2>4, <2>5, <3>1
    <3>3. InStep(con'[c], toCtl'[c], wire'[c] \o queue'[c], wire'[c], taken[c])
      BY <2>6, <3>2, Sends, SendsInStep, SendInStep
    <3>4. \A d \in Conns \ {c} : wire'[d] = wire[d] /\ queue'[d] = queue[d]
      BY <2>6, Sends, SendAllEffect
    <3>. QED
      BY <1>1, <2>1, <2>6, <3>1, <3>3, <3>4
  <2>7. CASE /\ con' = [con EXCEPT ![c] = [Connecting(c) EXCEPT !.disconnected = TRUE]]
             /\ nexus' = 0 /\ SendError(c)
    <3>1. /\ con'[c] = [Connecting(c) EXCEPT !.disconnected = TRUE]
          /\ \A d \in Conns \ {c} : con'[d] = con[d]
      BY <2>7 DEF TypeOK
    <3>2. InStep(con'[c], toCtl'[c], wire[c] \o queue[c], wire[c], taken[c])
      BY <2>4, <2>5, <3>1
    <3>3. UNCHANGED <<queue, wire>>
      BY <2>7 DEF SendError, sendVars
    <3>. QED
      BY <1>1, <2>1, <2>7, <3>1, <3>2, <3>3
  <2>. QED
    BY <1>5, <2>6, <2>7 DEF handle_FEATURES_REPLY
<1>6. CASE handle_BARRIER(c) \/ handle_ERROR_MSG(c)
  <2>1. PICK t : Take(c, t) /\ FinishConnecting(c)
    BY <1>6 DEF handle_BARRIER, handle_ERROR_MSG
  <2>2. InStep(con[c], toCtl'[c], wire[c] \o queue[c], wire[c], taken[c])
    BY <2>1, TakeInStep DEF Take
  <2>3. /\ con[c].waits /\ ~ con'[c].waits /\ con'[c].ups > 0
        /\ \A d \in Conns \ {c} : con'[d] = con[d]
        /\ UNCHANGED nexus /\ UNCHANGED sendVars
    BY <2>1 DEF FinishConnecting, TypeOK, Con
  <2>4. InStep(con'[c], toCtl'[c], wire[c] \o queue[c], wire[c], taken[c])
    BY <2>2, <2>3 DEF InStep
  <2>5. UNCHANGED <<queue, wire>>
    BY <2>3 DEF sendVars
  <2>. QED
    BY <1>1, <2>1, <2>3, <2>4, <2>5
<1>7. CASE handle_PORT_STATUS(c)
  BY <1>2, <1>7 DEF handle_PORT_STATUS
<1>8. CASE handle_STATS_REPLY(c)
  <2>1. /\ con' = con \/ con' = [con EXCEPT ![c].stats = StatsLeft(c, toCtl[c][1].arg)]
        /\ Take(c, "stats") /\ UNCHANGED nexus /\ UNCHANGED sendVars
    BY <1>8 DEF handle_STATS_REPLY
  <2>2. /\ \A d \in Conns \ {c} : con'[d] = con[d]
        /\ con'[c].waits = con[c].waits /\ con'[c].ups = con[c].ups
    BY <2>1 DEF TypeOK, Con
  <2>. QED
    BY <1>2, <2>1, <2>2
<1>9. CASE handle_PACKET_IN(c)
  BY <1>2, <1>9 DEF handle_PACKET_IN
<1>10. CASE handle_ECHO_REQUEST(c)
  <2>1. Takes(c, "echo") /\ UNCHANGED <<con, nexus>>
    BY <1>10 DEF handle_ECHO_REQUEST, mainVars
  <2>2. UNCHANGED <<queue, wire>> /\ \A t \in Threads : hand'[t].con \in {0, c, hand[t].con}
    <3>1. CASE Begins("pox", c, "echo_reply")
      BY <3>1 DEF Begins, TypeOK, Threads
    <3>2. CASE UNCHANGED <<sendVars, hand>>
      BY <3>2 DEF sendVars
    <3>. QED
      BY <1>10, <3>1, <3>2 DEF handle_ECHO_REQUEST
  <2>3. Apart(c) /\ c <= made
    BY <2>1, <2>2, TakeInStep DEF Apart
  <2>4. InStep(con[c], toCtl'[c], wire[c] \o queue[c], wire[c], taken[c])
    BY <2>1, TakeInStep
  <2>. QED
    BY <2>1, <2>2, <2>3, <2>4, HandshakeAt
<1>11. CASE Close(c)
  <2>1. /\ toCtl'[c] = <<>> /\ \A d \in Conns \ {c} : toCtl'[d] = toCtl[d] /\ con'[d] = con[d]
        /\ con'[c].waits = con[c].waits /\ con'[c].ups = con[c].ups
        /\ UNCHANGED <<nexus, queue, wire, made, taken, hand>> /\ con[c].state = "open"
    BY <1>11 DEF Close, TypeOK, Con, sendVars, peerVars
  <2>2. c <= made
    BY <2>1, MadeBefore
  <2>3. InStep(con[c], <<>>, wire[c] \o queue[c], wire[c], taken[c])
    BY Values, InStepTail DEF Handshake, Step
  <2>4. InStep(con'[c], <<>>, wire[c] \o queue[c], wire[c], taken[c])
    BY <2>1, <2>3, InStepCon
  <2>5. Apart(c)
    BY <2>1 DEF Apart
  <2>. QED
    BY <2>1, <2>2, <2>4, <2>5, HandshakeAt
<1>. QED
  BY <1>4, <1>5, <1>6, <1>7, <1>8, <1>9, <1>10, <1>11 DEF Read

LEMMA HandshakeSendBegins ==
    ASSUME TypeOK, Handshake, NEW t \in Threads, NEW c \in Conns, SendBegins(t, c)
    PROVE  Handshake'
<1>1. /\ UNCHANGED <<con, nexus, toCtl, wire, queue, made, taken>>
      /\ \A u \in Threads : hand'[u].con \in {c, hand[u].con}
  BY DEF SendBegins, Begins, mainVars, peerVars, TypeOK
<1>2. wire[c] \in Seq(Sent) /\ taken[c] \in Nat /\ con[c].ups \in Nat /\ made \in Nat
  BY Values DEF Con, TypeOK
<1>3. InStep(con[c], toCtl[c], wire[c] \o queue[c], wire[c], taken[c])
  BY DEF Handshake, Step
<1>4. c <= made
  <2>1. CASE c = nexus
    BY <2>1 DEF Handshake
  <2>2. CASE con[c].ups > 0
    <3>1. Before(wire[c], taken[c], "features") /\ taken[c] <= Len(wire[c])
      BY <1>3, <2>2 DEF InStep
    <3>2. wire[c] # <<>>
      BY <1>2, <3>1 DEF Before
    <3>. QED
      BY <3>2, MadeBefore
  <2>. QED
    BY <2>1, <2>2 DEF SendBegins
<1>5. Apart(c)
  BY <1>1 DEF Apart
<1>. QED
  BY <1>1, <1>3, <1>4, <1>5, HandshakeAt

LEMMA HandshakeSendEnds ==
    ASSUME TypeOK, Handshake, NEW t \in Threads, SendEnds(t)
    PROVE  Handshake'
<1>1. PICK c \in Conns, m \in Sent :
        /\ hand[t].con = c /\ m.type \in {"app", "echo_reply", "rest"}
        /\ Wrote(t, c, m) \/ Began(t, c, m) \/ LeftOver(t, c, m) \/ Failed(t, c)
  BY SendEndsCases
<1>2. UNCHANGED <<toCtl, made, taken>>
  BY SendEndsCases DEF peerVars
<1>3. c <= made
  BY <1>1 DEF Handshake
<1>4. PICK w \in Seq(Sent), q \in Seq(Sent) : w = wire[c] /\ q = queue[c]
  BY Values
<1>5. InStep(con[c], toCtl[c], w \o q, w, taken[c]) /\ taken[c] \in Nat
  BY <1>4, Values DEF Handshake, Step
<1>6. \A u \in Threads : hand'[u].con \in {0, c, hand[u].con}
  <2>1. Ended(t) => \A u \in Threads : hand'[u].con \in {0, hand[u].con}
    BY DEF Ended, NoSend, TypeOK
  <2>2. Began(t, c, m) => \A u \in Threads : hand'[u].con \in {c, hand[u].con}
    BY DEF Began, TypeOK
  <2>. QED
    BY <1>1, <2>1, <2>2 DEF Wrote, LeftOver, Failed
<1>7. ASSUME NEW x \in Sent, x.type \notin {"features", "barrier"}, UNCHANGED mainVars,
             wire' = [wire EXCEPT ![c] = Append(@, x)], UNCHANGED queue
      PROVE  Handshake'
  <2>1. /\ UNCHANGED <<con, nexus>> /\ wire'[c] = Append(w, x) /\ queue'[c] = q
        /\ \A d \in Conns \ {c} : wire'[d] = wire[d]
    BY <1>4, <1>7 DEF mainVars, TypeOK
  <2>2. InStep(con[c], toCtl[c], Append(w, x) \o q, Append(w, x), taken[c])
    BY <1>5, <1>7, InStepWritten
  <2>3. Apart(c)
    BY <1>2, <1>7, <2>1 DEF Apart
  <2>. QED
    BY <1>2, <1>3, <1>6, <2>1, <2>2, <2>3, HandshakeAt
<1>8. CASE Wrote(t, c, m)
  BY <1>1, <1>7, <1>8 DEF Wrote
<1>9. CASE Began(t, c, m)
  <2>1. [m EXCEPT !.type = "start"] \in Sent /\ [m EXCEPT !.type = "start"].type = "start"
    BY Pieces DEF SentTypes
  <2>. QED
    BY <1>7, <1>9, <2>1 DEF Began
<1>10. CASE LeftOver(t, c, m)
  <2>1. PICK u \in Seq(Sent) : /\ u = <<m>> /\ BehindSetup(u) /\ ~ Has(u, "features")
    <3>1. BehindSetup(<<m>>)
      BY <1>1 DEF BehindSetup
    <3>2. ~ Has(<<m>>, "features")
      BY <1>1, HasOne
    <3>3. <<m>> \in Seq(Sent)
      OBVIOUS
    <3>. QED
      BY <3>1, <3>2, <3>3, Zenon
  <2>2. /\ UNCHANGED <<con, nexus, wire>> /\ queue'[c] = q \o u
        /\ \A d \in Conns \ {c} : queue'[d] = queue[d]
    BY <1>4, <1>10, <2>1 DEF LeftOver, Queued, mainVars, TypeOK
  <2>3. w \o (q \o u) = (w \o q) \o u /\ w \o q \in Seq(Sent)
    OBVIOUS
  <2>4. InStep(con[c], toCtl[c], (w \o q) \o u, w, taken[c])
    BY <1>5, <2>1, <2>3, InStepAsked
  <2>5. Apart(c)
    BY <1>2, <2>2 DEF Apart
  <2>6. InStep(con'[c], toCtl'[c], wire'[c] \o queue'[c], wire'[c], taken[c])
    BY <1>2, <1>4, <2>2, <2>3, <2>4
  <2>. QED
    BY <1>3, <1>6, <2>2, <2>5, <2>6, HandshakeAt
<1>11. CASE Failed(t, c)
  <2>1. /\ \A d \in Conns \ {c} : con'[d] = con[d]
        /\ con'[c].waits = con[c].waits /\ con'[c].ups = con[c].ups
        /\ nexus' \in {0, nexus} /\ UNCHANGED <<wire, queue>>
    BY <1>11 DEF Failed, Disconnected, TypeOK, Con
  <2>2. InStep(con'[c], toCtl[c], w \o q, w, taken[c])
    BY <1>5, <2>1, InStepCon
  <2>3. Apart(c)
    BY <1>2, <2>1 DEF Apart
  <2>. QED
    BY <1>2, <1>3, <1>4, <1>6, <2>1, <2>2, <2>3, HandshakeAt
<1>. QED
  BY <1>1, <1>8, <1>9, <1>10, <1>11

LEMMA HandshakeWrites ==
    ASSUME TypeOK, Handshake, NEW c \in Conns, WriteQueued(c) \/ WriteFails(c)
    PROVE  Handshake'
<1>1. UNCHANGED <<toCtl, made, taken, hand>>
  BY DEF WriteQueued, WriteFails, peerVars
<1>2. PICK w \in Seq(Sent), q \in Seq(Sent) : w = wire[c] /\ q = queue[c]
  BY Values
<1>3. InStep(con[c], toCtl[c], w \o q, w, taken[c]) /\ taken[c] \in Nat
  BY <1>2, Values DEF Handshake, Step
<1>4. CASE WriteQueued(c)
  <2>1. /\ UNCHANGED <<con, nexus>> /\ queue[c] # <<>> /\ Len(queue[c]) \in Nat
        /\ queue[c] \in Seq(Sent)
    BY <1>4 DEF WriteQueued, mainVars, TypeOK
  <2>2. PICK n \in 1 .. Len(queue[c]) :
          /\ wire' = [wire EXCEPT ![c] = @ \o SubSeq(queue[c], 1, n)]
          /\ queue' = [queue EXCEPT ![c] = SubSeq(queue[c], n + 1, Len(queue[c]))]
    BY <1>4 DEF WriteQueued, TypeOK
  <2>3. n \in 0 .. Len(queue[c])
    BY <2>1
  <2>4. PICK a \in Seq(Sent), b \in Seq(Sent) :
          a \o b = queue[c] /\ wire'[c] = wire[c] \o a /\ queue'[c] = b
    <3>1. /\ SubSeq(queue[c], 1, n) \in Seq(Sent)
          /\ SubSeq(queue[c], n + 1, Len(queue[c])) \in Seq(Sent)
          /\ SubSeq(queue[c], 1, n) \o SubSeq(queue[c], n + 1, Len(queue[c])) = queue[c]
      BY <2>1, <2>3, Splitting
    <3>2. /\ wire'[c] = wire[c] \o SubSeq(queue[c], 1, n)
          /\ queue'[c] = SubSeq(queue[c], n + 1, Len(queue[c]))
      BY <2>2 DEF TypeOK
    <3>. QED
      BY <3>1, <3>2
  <2>5. /\ wire'[c] = w \o a /\ queue'[c] = b /\ a \o b = q
        /\ \A d \in Conns \ {c} : wire'[d] = wire[d] /\ queue'[d] = queue[d]
    BY <1>2, <2>2, <2>4 DEF TypeOK
  <2>6. (w \o a) \o b = w \o (a \o b)
    OBVIOUS
  <2>7. InStep(con[c], toCtl[c], w \o q, w \o a, taken[c])
    BY <1>3, InStepWire
  <2>8. InStep(con[c], toCtl[c], (w \o a) \o b, w \o a, taken[c])
    BY <2>5, <2>6, <2>7
  <2>9. Apart(c) /\ c <= made
    BY <1>1, <2>1, <2>5, MadeBefore DEF Apart
  <2>. QED
    BY <1>1, <2>1, <2>5, <2>8, <2>9, HandshakeAt
<1>5. CASE WriteFails(c)
  <2>1. /\ \A d \in Conns \ {c} : con'[d] = con[d] /\ queue'[d] = queue[d]
        /\ con'[c].waits = con[c].waits /\ con'[c].ups = con[c].ups /\ con'[c].state = con[c].state
        /\ nexus' \in {0, nexus} /\ UNCHANGED wire /\ queue'[c] = <<>>
    BY <1>5 DEF WriteFails, Disconnected, TypeOK, Con
  <2>2. InStep(con[c], toCtl[c], w \o <<>>, w, taken[c])
    BY <1>3, InStepDropped
  <2>3. InStep(con'[c], toCtl[c], w \o <<>>, w, taken[c])
    BY <2>1, <2>2, InStepCon
  <2>4. Apart(c)
    BY <1>1, <2>1 DEF Apart
  <2>. QED
    BY <1>1, <1>2, <2>1, <2>3, <2>4, HandshakeAt
<1>. QED
  BY <1>4, <1>5

\* The switch connects, answers, reports and leaves.
LEMMA HandshakePeer ==
    ASSUME TypeOK, Handshake,
           PeerConnects \/ PeerLeaves \/ PeerAnswers \/ PeerReports
    PROVE  Handshake'
<1>1. UNCHANGED <<con, nexus, queue, wire, hand>>
  BY DEF PeerConnects, PeerLeaves, PeerAnswers, PeerReports, mainVars, sendVars
<1>2. /\ made \in Nat /\ nexus \in Nat /\ (peer # 0 => peer \in Conns /\ peer <= made)
      /\ \A d \in Conns : d \in Nat
  BY ConnectionsAssumption DEF TypeOK, Conns
<1>3. ASSUME UNCHANGED <<made, taken>>, peer # 0, NEW u \in Seq(Reported), Report(peer, u),
             \A t \in {"hello", "features", "barrier", "refused"} : ~ Has(u, t)
      PROVE  Handshake'
  <2>1. toCtl'[peer] = toCtl[peer] \o u /\ \A d \in Conns \ {peer} : toCtl'[d] = toCtl[d]
    BY <1>2, <1>3 DEF Report, TypeOK
  <2>2. InStep(con[peer], toCtl[peer] \o u, wire[peer] \o queue[peer], wire[peer], taken[peer])
    BY <1>2, <1>3, Values, InStepReport DEF Handshake, Step
  <2>3. Apart(peer)
    BY <1>1, <1>3, <2>1 DEF Apart
  <2>. QED
    BY <1>1, <1>2, <1>3, <2>1, <2>2, <2>3, HandshakeAt
<1>4. CASE PeerLeaves
  <2>1. \A t : Has(<<Msg("eof", 0)>>, t) => t = "eof"
    BY HasOne DEF Msg
  <2>2. <<Msg("eof", 0)>> \in Seq(Reported)
    BY Messages
  <2>3. UNCHANGED <<made, taken>> /\ peer # 0 /\ Report(peer, <<Msg("eof", 0)>>)
    BY <1>4 DEF PeerLeaves
  <2>4. \A t \in {"hello", "features", "barrier", "refused"} : ~ Has(<<Msg("eof", 0)>>, t)
    BY <2>1
  <2>. QED
    BY <1>3, <2>2, <2>3, <2>4
<1>5. CASE PeerConnects
  <2>. DEFINE c == made + 1
  <2>1. c \in Conns /\ c > made /\ made' = c /\ UNCHANGED taken
    BY <1>2, <1>5, ConnectionsAssumption DEF PeerConnects, Conns, TypeOK
  <2>2. Report(c, <<Msg("hello", 0)>>)
    BY <1>5 DEF PeerConnects
  <2>. HIDE DEF c
  <2>3. toCtl[c] = <<>> /\ wire[c] \o queue[c] = <<>>
    <3>1. <<>> \o <<>> = <<>>
      OBVIOUS
    <3>. QED
      BY <2>1, <3>1 DEF Handshake
  <2>4. toCtl'[c] = <<Msg("hello", 0)>> /\ \A d \in Conns \ {c} : toCtl'[d] = toCtl[d]
    BY <2>1, <2>2, <2>3 DEF Report, TypeOK
  <2>5. \A t : (Has(<<Msg("hello", 0)>>, t) <=> t = "hello") /\ Once(<<Msg("hello", 0)>>, t)
    BY HasOne DEF Msg
  <2>6. /\ InStep(con[c], toCtl[c], wire[c] \o queue[c], wire[c], taken[c])
        /\ ~ Has(wire[c] \o queue[c], "features")
    BY <2>1, <2>3, HasOne DEF Handshake, Step
  <2>7. InStep(con[c], toCtl'[c], wire[c] \o queue[c], wire[c], taken[c])
    BY <2>4, <2>5, <2>6 DEF InStep
  <2>8. \A d \in Conns : d > made' => d > made /\ d # c
    BY <1>2, <2>1
  <2>9. nexus' <= made' /\ \A t \in Threads : hand'[t].con <= made'
    <3>1. \A t \in Threads : hand[t].con \in Nat
      BY ConnectionsAssumption DEF TypeOK, Send
    <3>. QED
      BY <1>1, <1>2, <2>1, <3>1 DEF Handshake
  <2>10. \A d \in Conns : Step(d)'
    BY <1>1, <2>1, <2>4, <2>7 DEF Handshake, Step
  <2>. QED
    BY <1>1, <2>1, <2>4, <2>8, <2>9, <2>10 DEF Handshake
<1>6. CASE PeerAnswers
  <2>1. PICK i \in taken[peer] + 1 .. Len(wire[peer]) :
          /\ wire[peer][i].type \in {"features", "barrier"}
          /\ \E t \in Answers(wire[peer][i].type) : Report(peer, <<Msg(t, swPorts)>>)
          /\ taken' = [taken EXCEPT ![peer] = i]
    BY <1>6 DEF PeerAnswers
  <2>2. PICK t \in Answers(wire[peer][i].type) : Report(peer, <<Msg(t, swPorts)>>)
    BY <2>1
  <2>3. peer \in Conns /\ UNCHANGED made
    BY <1>2, <1>6 DEF PeerAnswers
  <2>4. Msg(t, swPorts) \in Reported
    <3>1. t \in {"features", "barrier", "refused"}
      BY <2>1, <2>2 DEF Answers
    <3>. QED
      BY <3>1, Messages DEF TypeOK
  <2>5. InStep(con[peer], toCtl[peer] \o <<Msg(t, swPorts)>>, wire[peer] \o queue[peer], wire[peer], i)
    <3>1. /\ con[peer] \in Con /\ toCtl[peer] \in Seq(Reported) /\ queue[peer] \in Seq(Sent)
          /\ wire[peer] \in Seq(Sent) /\ taken[peer] \in Nat
      BY <2>3, Values
    <3>2. InStep(con[peer], toCtl[peer], wire[peer] \o queue[peer], wire[peer], taken[peer])
      BY <2>3 DEF Handshake, Step
    <3>. QED
      BY <2>1, <2>2, <2>4, <3>1, <3>2, InStepAnswer
  <2>6. /\ toCtl'[peer] = toCtl[peer] \o <<Msg(t, swPorts)>> /\ taken'[peer] = i
        /\ \A d \in Conns \ {peer} : toCtl'[d] = toCtl[d] /\ taken'[d] = taken[d]
    BY <2>1, <2>2, <2>3 DEF Report, TypeOK
  <2>7. \A d \in Conns : d > made => d # peer
    BY <1>2, <2>3
  <2>8. \A d \in Conns : Step(d)'
    BY <1>1, <2>3, <2>5, <2>6 DEF Handshake, Step
  <2>. QED
    BY <1>1, <2>3, <2>6, <2>7, <2>8 DEF Handshake
<1>7. CASE PeerReports
  <2>1. UNCHANGED <<made, taken>> /\ peer # 0 /\ news + 1 \in Nat
    BY <1>7 DEF PeerReports, TypeOK
  <2>2. ASSUME NEW t \in {"port", "packet_in", "echo"}, NEW x, Msg(t, x) \in Reported,
               Report(peer, <<Msg(t, x)>>)
        PROVE  Handshake'
    <3>1. \A s : Has(<<Msg(t, x)>>, s) => s = t
      BY HasOne DEF Msg
    <3>2. <<Msg(t, x)>> \in Seq(Reported)
      BY <2>2
    <3>. QED
      BY <1>3, <2>1, <2>2, <3>1, <3>2
  <2>3. ASSUME NEW p \in PortNos,
               Report(peer, <<Msg("port", [port |-> p, added |-> p \notin swPorts])>>)
        PROVE  Handshake'
    <3>1. (p \notin swPorts) \in BOOLEAN
      OBVIOUS
    <3>2. Msg("port", [port |-> p, added |-> p \notin swPorts]) \in Reported
      BY <3>1, Messages
    <3>. QED
      BY <2>2, <2>3, <3>2
  <2>4. ASSUME Report(peer, [i \in 1..2 |->
                              Msg("stats", [xid |-> news + 1, part |-> i, more |-> i = 1])])
        PROVE  Handshake'
    <3>. DEFINE f == [i \in 1..2 |-> Msg("stats", [xid |-> news + 1, part |-> i, more |-> i = 1])]
    <3>1. \A i \in 1 .. 2 : [xid |-> news + 1, part |-> i, more |-> i = 1] \in Part
      BY <2>1 DEF Part
    <3>2. \A i \in 1 .. 2 :
            Msg("stats", [xid |-> news + 1, part |-> i, more |-> i = 1]) \in Reported
      BY <3>1, Messages
    <3>3. f \in [1..2 -> Reported]
      BY <3>2, Zenon
    <3>4. \A i \in 1..2 : f[i].type = "stats"
      BY DEF Msg
    <3>. HIDE DEF f
    <3>5. f \in Seq(Reported) /\ f = <<f[1], f[2]>>
      BY <3>3, PairOf
    <3>6. Len(f) = 2
      BY <3>5
    <3>7. \A t : Has(f, t) => t = "stats"
      BY <3>4, <3>6 DEF Has
    <3>8. Report(peer, f)
      BY <2>4 DEF f
    <3>. QED
      BY <1>3, <2>1, <3>5, <3>7, <3>8
  <2>5. ASSUME NEW t \in {"packet_in", "echo"},
               Report(peer, <<Msg(t, [xid |-> news + 1, part |-> 1, more |-> FALSE])>>)
        PROVE  Handshake'
    <3>1. [xid |-> news + 1, part |-> 1, more |-> FALSE] \in Part
      BY <2>1 DEF Part
    <3>2. Msg(t, [xid |-> news + 1, part |-> 1, more |-> FALSE]) \in Reported
      BY <3>1, Messages
    <3>. QED
      BY <2>2, <2>5, <3>2
  <2>. QED
    BY <1>7, <2>3, <2>4, <2>5 DEF PeerReports
<1>. QED
  BY <1>4, <1>5, <1>6, <1>7

\* The sender's other steps, and steps that change nothing.
LEMMA HandshakeOther ==
    ASSUME Handshake, Snapshot \/ SelectRaises \/ SelectTimesOut \/ UNCHANGED vars
    PROVE  Handshake'
<1>1. UNCHANGED <<con, nexus, toCtl, queue, wire, hand, taken, made>>
  BY DEF Snapshot, SelectRaises, SelectTimesOut, mainVars, sendVars, peerVars, vars
<1>. QED
  BY <1>1 DEF Handshake, Step

LEMMA HandshakeStep == TypeOK /\ Order /\ Handshake /\ [Next]_vars => Handshake'
BY HandshakeAccept, HandshakeRead, HandshakeSendBegins, HandshakeSendEnds, HandshakeWrites,
   HandshakePeer, HandshakeOther DEF Next

\* On every connection the handshake of of_01.py stays in step with the switch:
\* a features reply, a barrier reply or an error is under way only when the
\* switch has read the request or the setup it answers, and a connection waits
\* for its barrier, or is up, only when its features request was read.
THEOREM HandshakeKept == Spec => []Handshake
<1>1. TypeOK /\ Order /\ Handshake /\ [Next]_vars => Handshake'
  BY HandshakeStep
<1>. QED
  BY <1>1, HandshakeInit, Ordering, PTL DEF Spec

\* A send that ends leaves the rest alone, or gives up its connection.
LEMMA SendLeaves ==
    ASSUME TypeOK, NEW t \in Threads, SendEnds(t)
    PROVE  /\ UNCHANGED <<toCtl, peer, swPorts>>
           /\ UNCHANGED <<con, nexus, entity, listens, ports, fired, missed>>
              \/ \E c \in Conns : Disconnected(c)
BY SendEndsCases DEF Wrote, Began, LeftOver, Failed, mainVars, peerVars

\* Only the answer to the barrier raises ConnectionUp.
LEMMA UpsStep ==
    ASSUME TypeOK, [Next]_vars, NEW d \in Conns, con'[d].ups > con[d].ups
    PROVE  handle_BARRIER(d) \/ handle_ERROR_MSG(d)
<1>. SUFFICES ASSUME ~ (handle_BARRIER(d) \/ handle_ERROR_MSG(d))
              PROVE  con'[d].ups = con[d].ups
  <2>1. con[d].ups \in Nat
    BY DEF TypeOK, Con
  <2>. QED
    BY <2>1
<1>1. CASE UNCHANGED con
  BY <1>1
<1>2. ASSUME NEW c \in Conns, Disconnected(c) PROVE con'[d].ups = con[d].ups
  BY <1>2 DEF Disconnected, TypeOK, Con
<1>3. ASSUME NEW c \in Conns, Accept(c) PROVE con'[d].ups = con[d].ups
  <2>1. \/ con' = [con EXCEPT ![c].state = "open"]
        \/ con' = [con EXCEPT ![c].state = "open", ![c].disconnected = TRUE]
    BY <1>3 DEF Accept
  <2>2. con[c] \in Con
    BY DEF TypeOK
  <2>3. /\ [con[c] EXCEPT !.state = "open"].ups = con[c].ups
        /\ [con[c] EXCEPT !.state = "open", !.disconnected = TRUE].ups = con[c].ups
    BY <2>2 DEF Con
  <2>4. \/ con'[c] = [con[c] EXCEPT !.state = "open"]
        \/ con'[c] = [con[c] EXCEPT !.state = "open", !.disconnected = TRUE]
    BY <2>1 DEF TypeOK
  <2>5. d # c => con'[d] = con[d]
    BY <2>1 DEF TypeOK
  <2>. QED
    BY <2>3, <2>4, <2>5
<1>4. ASSUME NEW c \in Conns, Read(c) PROVE con'[d].ups = con[d].ups
  <2>1. CASE handle_HELLO(c) \/ handle_ECHO_REQUEST(c)
    BY <1>1, <1>2, <2>1 DEF handle_HELLO, handle_ECHO_REQUEST, mainVars
  <2>2. CASE handle_FEATURES_REPLY(c)
    <3>1. \/ con' = [con EXCEPT ![c] = Connecting(c)]
          \/ con' = [con EXCEPT ![c] = [Connecting(c) EXCEPT !.disconnected = TRUE]]
      BY <2>2 DEF handle_FEATURES_REPLY
    <3>2. /\ Connecting(c).ups = con[c].ups
          /\ [Connecting(c) EXCEPT !.disconnected = TRUE].ups = con[c].ups
      BY DEF Connecting, TypeOK, Con
    <3>. QED
      BY <3>1, <3>2 DEF TypeOK
  <2>3. CASE handle_BARRIER(c) \/ handle_ERROR_MSG(c)
    <3>1. c # d
      BY <2>3
    <3>. QED
      BY <2>3, <3>1 DEF handle_BARRIER, handle_ERROR_MSG, FinishConnecting, TypeOK, Con
  <2>4. CASE handle_STATS_REPLY(c)
    <3>1. con' = con \/ con' = [con EXCEPT ![c].stats = StatsLeft(c, toCtl[c][1].arg)]
      BY <2>4 DEF handle_STATS_REPLY
    <3>2. con[c] \in Con
      BY DEF TypeOK
    <3>3. \A x : [con[c] EXCEPT !.stats = x].ups = con[c].ups
      BY <3>2 DEF Con
    <3>4. d # c => con'[d] = con[d]
      BY <3>1 DEF TypeOK
    <3>5. con'[c] = con[c] \/ con'[c] = [con[c] EXCEPT !.stats = StatsLeft(c, toCtl[c][1].arg)]
      BY <3>1 DEF TypeOK
    <3>6. con'[c].ups = con[c].ups
      BY <3>3, <3>5, Zenon
    <3>. QED
      BY <3>4, <3>6
  <2>5. CASE handle_PORT_STATUS(c) \/ handle_PACKET_IN(c)
    BY <2>5 DEF handle_PORT_STATUS, handle_PACKET_IN
  <2>6. CASE Close(c)
    BY <2>6 DEF Close, TypeOK, Con
  <2>. QED
    BY <1>4, <2>1, <2>2, <2>3, <2>4, <2>5, <2>6 DEF Read
<1>5. ASSUME NEW t \in Threads, SendEnds(t) PROVE con'[d].ups = con[d].ups
  BY <1>1, <1>2, <1>5, SendLeaves
<1>6. ASSUME NEW c \in Conns, NEW t \in Threads,
             SendBegins(t, c) \/ WriteQueued(c) \/ WriteFails(c)
      PROVE  con'[d].ups = con[d].ups
  BY <1>2, <1>6 DEF SendBegins, WriteQueued, WriteFails, mainVars
<1>7. CASE \/ Snapshot \/ SelectRaises \/ SelectTimesOut \/ UNCHANGED vars
           \/ PeerConnects \/ PeerLeaves \/ PeerAnswers \/ PeerReports
  BY <1>7 DEF Snapshot, SelectRaises, SelectTimesOut, PeerConnects, PeerLeaves, PeerAnswers,
              PeerReports, mainVars, vars
<1>. QED
  BY <1>3, <1>4, <1>5, <1>6, <1>7 DEF Next, Threads

\* ConnectionUp is raised once per connection, and only when the switch has read
\* the setup of that connection: what a component installs on ConnectionUp is not
\* wiped out by the flow_mod that clears the table.
THEOREM ConnectionUpAfterSetup == Spec => UpAfterSetup
<1>1. TypeOK /\ Handshake /\ [Next]_vars => UpFollowsSetup
  <2>. SUFFICES ASSUME TypeOK, Handshake, [Next]_vars, NEW c \in Conns,
                       con'[c].ups > con[c].ups
                PROVE  con[c].ups = 0 /\ \E i \in 1 .. taken[c] : wire[c][i].type = "setup"
    BY DEF UpFollowsSetup
  <2>2. PICK t \in {"barrier", "refused"} : Take(c, t) /\ FinishConnecting(c)
    BY UpsStep DEF handle_BARRIER, handle_ERROR_MSG
  <2>3. Has(toCtl[c], t) /\ con[c].waits
    BY <2>2, TakeInStep DEF FinishConnecting, Take
  <2>4. InStep(con[c], toCtl[c], wire[c] \o queue[c], wire[c], taken[c])
    BY DEF Handshake, Step
  <2>. QED
    BY <2>3, <2>4 DEF InStep, Before
<1>2. TypeOK /\ Handshake /\ [Next]_vars => [UpFollowsSetup]_vars
  BY <1>1
<1>. QED
  BY <1>2, Ordering, HandshakeKept, PTL DEF Spec, UpAfterSetup

-----------------------------------------------------------------------------
(* Statistics in parts.                                                    *)

\* b is the second and last part of the reply that a begins.
Second(a, b) == a.part = 1 /\ a.more /\ b.part = 2 /\ ~ b.more /\ b.xid = a.xid

\* With st what a connection has collected and q what it has still to read: the
\* parts of a reply are next to each other, the first one perhaps collected.
Paired(st, q) ==
    /\ \A i \in 1 .. Len(q) : q[i].type = "packet_in" => q[i].arg.part = 1 /\ ~ q[i].arg.more
    /\ \A i \in 1 .. Len(q) : q[i].type = "stats" =>
          \/ i < Len(q) /\ q[i + 1].type = "stats" /\ Second(q[i].arg, q[i + 1].arg)
          \/ i > 1 /\ q[i - 1].type = "stats" /\ Second(q[i - 1].arg, q[i].arg)
          \/ i = 1 /\ st # <<>>
    /\ st # <<>> => /\ Len(st) = 1 /\ Len(q) > 0
                    /\ q[1].type = "stats" /\ Second(st[1], q[1].arg)

StatsPaired == \A c \in Conns : Paired(con[c].stats, toCtl[c])

\* An event that was raised is whole.
Whole(e) ==
    /\ \A j \in DOMAIN e : e[j].xid = e[1].xid /\ e[j].part = j
    /\ ~ Last(e).more
FiredWhole == \A i \in DOMAIN fired : Whole(fired[i])

\* A message that is not of a reply is read.
LEMMA PairedTail ==
    ASSUME NEW st, NEW q \in Seq(Reported), q # <<>>, q[1].type # "stats", Paired(st, q)
    PROVE  st = <<>> /\ Paired(st, Tail(q))
<1>1. /\ Tail(q) \in Seq(Reported) /\ Len(q) \in Nat \ {0} /\ Len(Tail(q)) = Len(q) - 1
      /\ \A i \in 1 .. Len(q) - 1 : Tail(q)[i] = q[i + 1] /\ i + 1 \in 1 .. Len(q)
  OBVIOUS
<1>2. st = <<>>
  BY DEF Paired
<1>3. ASSUME NEW i \in 1 .. Len(Tail(q)), Tail(q)[i].type = "stats"
      PROVE  \/ i < Len(Tail(q)) /\ Tail(q)[i + 1].type = "stats"
                /\ Second(Tail(q)[i].arg, Tail(q)[i + 1].arg)
             \/ i > 1 /\ Tail(q)[i - 1].type = "stats"
                /\ Second(Tail(q)[i - 1].arg, Tail(q)[i].arg)
  <2>1. q[i + 1].type = "stats" /\ i + 1 \in 1 .. Len(q) /\ i \in 1 .. Len(q) - 1 /\ i + 1 # 1
    BY <1>1, <1>3
  <2>2. CASE i + 1 < Len(q) /\ q[(i + 1) + 1].type = "stats" /\ Second(q[i + 1].arg, q[(i + 1) + 1].arg)
    <3>1. i + 1 \in 1 .. Len(q) - 1 /\ i < Len(Tail(q))
      BY <1>1, <2>1, <2>2
    <3>. QED
      BY <1>1, <2>1, <2>2, <3>1
  <2>3. CASE q[(i + 1) - 1].type = "stats" /\ Second(q[(i + 1) - 1].arg, q[i + 1].arg)
    <3>1. q[i].type = "stats" /\ Second(q[i].arg, q[i + 1].arg)
      BY <1>1, <2>1, <2>3
    <3>2. i > 1 /\ i - 1 \in 1 .. Len(q) - 1 /\ (i - 1) + 1 = i
      BY <1>1, <2>1, <3>1
    <3>. QED
      BY <1>1, <2>1, <3>1, <3>2
  <2>. QED
    BY <2>1, <2>2, <2>3 DEF Paired
<1>4. \A i \in 1 .. Len(Tail(q)) : Tail(q)[i].type = "packet_in" =>
        Tail(q)[i].arg.part = 1 /\ ~ Tail(q)[i].arg.more
  BY <1>1 DEF Paired
<1>. QED
  BY <1>2, <1>3, <1>4 DEF Paired

\* A part is read: the first of a reply is kept, the second makes it whole.
LEMMA PairedPart ==
    ASSUME NEW st \in Seq(Part), NEW q \in Seq(Reported), q # <<>>, q[1].type = "stats",
           Paired(st, q)
    PROVE  /\ st = <<>> \/ st[1].xid = q[1].arg.xid
           /\ q[1].arg.more => st = <<>> /\ Paired(<<q[1].arg>>, Tail(q))
           /\ ~ q[1].arg.more => /\ Len(st) = 1 /\ Second(st[1], q[1].arg)
                                 /\ Paired(<<>>, Tail(q))
<1>1. /\ Tail(q) \in Seq(Reported) /\ Len(q) \in Nat \ {0} /\ Len(Tail(q)) = Len(q) - 1
      /\ \A i \in 1 .. Len(q) - 1 : Tail(q)[i] = q[i + 1] /\ i + 1 \in 1 .. Len(q)
      /\ 1 \in 1 .. Len(q)
  OBVIOUS
<1>2. \A i \in 1 .. Len(Tail(q)) : Tail(q)[i].type = "packet_in" =>
        Tail(q)[i].arg.part = 1 /\ ~ Tail(q)[i].arg.more
  BY <1>1 DEF Paired
<1>3. ASSUME NEW i \in 1 .. Len(Tail(q)), Tail(q)[i].type = "stats"
      PROVE  \/ i < Len(Tail(q)) /\ Tail(q)[i + 1].type = "stats"
                /\ Second(Tail(q)[i].arg, Tail(q)[i + 1].arg)
             \/ i > 1 /\ Tail(q)[i - 1].type = "stats"
                /\ Second(Tail(q)[i - 1].arg, Tail(q)[i].arg)
             \/ i = 1 /\ Second(q[1].arg, Tail(q)[1].arg)
  <2>1. q[i + 1].type = "stats" /\ i + 1 \in 1 .. Len(q) /\ i \in 1 .. Len(q) - 1 /\ i + 1 # 1
    BY <1>1, <1>3
  <2>2. CASE i + 1 < Len(q) /\ q[(i + 1) + 1].type = "stats" /\ Second(q[i + 1].arg, q[(i + 1) + 1].arg)
    <3>1. i + 1 \in 1 .. Len(q) - 1 /\ i < Len(Tail(q))
      BY <1>1, <2>1, <2>2
    <3>. QED
      BY <1>1, <2>1, <2>2, <3>1
  <2>3. CASE q[(i + 1) - 1].type = "stats" /\ Second(q[(i + 1) - 1].arg, q[i + 1].arg)
    <3>1. q[i].type = "stats" /\ Second(q[i].arg, q[i + 1].arg)
      BY <1>1, <2>1, <2>3
    <3>2. CASE i = 1
      BY <1>1, <2>1, <3>1, <3>2
    <3>3. CASE i # 1
      <4>1. i > 1 /\ i - 1 \in 1 .. Len(q) - 1 /\ (i - 1) + 1 = i
        BY <1>1, <2>1, <3>3
      <4>. QED
        BY <1>1, <2>1, <3>1, <4>1
    <3>. QED
      BY <3>2, <3>3
  <2>. QED
    BY <2>1, <2>2, <2>3 DEF Paired
<1>4. CASE st # <<>>
  <2>1. Len(st) = 1 /\ Second(st[1], q[1].arg)
    BY <1>4 DEF Paired
  <2>2. ~ q[1].arg.more /\ q[1].arg.part = 2 /\ st[1].xid = q[1].arg.xid
    BY <2>1 DEF Second
  <2>3. \A x : ~ Second(q[1].arg, x)
    BY <2>2 DEF Second
  <2>4. Paired(<<>>, Tail(q))
    BY <1>2, <1>3, <2>3 DEF Paired
  <2>. QED
    BY <2>1, <2>2, <2>4
<1>5. CASE st = <<>>
  <2>1. 1 < Len(q) /\ q[1 + 1].type = "stats" /\ Second(q[1].arg, q[1 + 1].arg)
    BY <1>1, <1>5 DEF Paired
  <2>2. 1 \in 1 .. Len(q) - 1 /\ Len(Tail(q)) > 0
    BY <1>1, <2>1
  <2>3. Tail(q)[1].type = "stats" /\ Second(q[1].arg, Tail(q)[1].arg)
    BY <1>1, <2>1, <2>2
  <2>4. q[1].arg.more
    BY <2>1 DEF Second
  <2>5. \A x : Len(<<x>>) = 1 /\ <<x>> # <<>> /\ <<x>>[1] = x
    OBVIOUS
  <2>6. Paired(<<q[1].arg>>, Tail(q))
    BY <1>2, <1>3, <2>2, <2>3, <2>5 DEF Paired
  <2>. QED
    BY <1>5, <2>4, <2>6
<1>. QED
  BY <1>4, <1>5

\* The switch reports something else, or a reply.
LEMMA PairedReport ==
    ASSUME NEW st, NEW q \in Seq(Reported), NEW u \in Seq(Reported), Paired(st, q),
           Paired(<<>>, u)
    PROVE  Paired(st, q \o u)
<1>1. /\ Len(q) \in Nat /\ Len(u) \in Nat /\ Len(q \o u) = Len(q) + Len(u)
      /\ \A i \in 1 .. Len(q) : (q \o u)[i] = q[i]
      /\ \A i \in Len(q) + 1 .. Len(q) + Len(u) : (q \o u)[i] = u[i - Len(q)]
  OBVIOUS
<1>2. \A i \in 1 .. Len(u) : (q \o u)[Len(q) + i] = u[i]
  BY <1>1
<1>. DEFINE r == q \o u
<1>3. ASSUME NEW i \in 1 .. Len(r)
      PROVE  i \in 1 .. Len(q) \/ \E j \in 1 .. Len(u) : i = Len(q) + j
  <2>1. CASE i > Len(q)
    <3>1. i - Len(q) \in 1 .. Len(u) /\ i = Len(q) + (i - Len(q))
      BY <1>1, <2>1
    <3>. QED
      BY <3>1
  <2>. QED
    BY <1>1, <2>1
<1>4. Len(r) = Len(q) + Len(u) /\ (\A i \in 1 .. Len(q) : r[i] = q[i])
      /\ (\A i \in 1 .. Len(u) : r[Len(q) + i] = u[i])
  BY <1>1, <1>2
<1>. HIDE DEF r
<1>5. ASSUME NEW i \in 1 .. Len(r), r[i].type = "packet_in"
      PROVE  r[i].arg.part = 1 /\ ~ r[i].arg.more
  <2>1. CASE i \in 1 .. Len(q)
    BY <1>4, <1>5, <2>1 DEF Paired
  <2>2. ASSUME NEW j \in 1 .. Len(u), i = Len(q) + j
        PROVE  r[i].arg.part = 1 /\ ~ r[i].arg.more
    <3>1. r[i] = u[j]
      BY <1>4, <2>2
    <3>. QED
      BY <1>5, <3>1 DEF Paired
  <2>. QED
    BY <1>3, <2>1, <2>2
<1>6. ASSUME NEW i \in 1 .. Len(r), r[i].type = "stats"
      PROVE  \/ i < Len(r) /\ r[i + 1].type = "stats" /\ Second(r[i].arg, r[i + 1].arg)
             \/ i > 1 /\ r[i - 1].type = "stats" /\ Second(r[i - 1].arg, r[i].arg)
             \/ i = 1 /\ st # <<>>
  <2>1. CASE i \in 1 .. Len(q)
    <3>1. q[i].type = "stats"
      BY <1>4, <1>6, <2>1
    <3>2. CASE i < Len(q) /\ q[i + 1].type = "stats" /\ Second(q[i].arg, q[i + 1].arg)
      <4>1. i + 1 \in 1 .. Len(q) /\ i < Len(r)
        BY <1>1, <1>4, <2>1, <3>2
      <4>. QED
        BY <1>4, <2>1, <3>2, <4>1
    <3>3. CASE i > 1 /\ q[i - 1].type = "stats" /\ Second(q[i - 1].arg, q[i].arg)
      <4>1. i - 1 \in 1 .. Len(q)
        BY <1>1, <2>1, <3>3
      <4>. QED
        BY <1>4, <2>1, <3>3, <4>1
    <3>. QED
      BY <2>1, <3>1, <3>2, <3>3 DEF Paired
  <2>2. ASSUME NEW j \in 1 .. Len(u), i = Len(q) + j
        PROVE  \/ i < Len(r) /\ r[i + 1].type = "stats" /\ Second(r[i].arg, r[i + 1].arg)
               \/ i > 1 /\ r[i - 1].type = "stats" /\ Second(r[i - 1].arg, r[i].arg)
    <3>1. u[j].type = "stats" /\ r[i] = u[j]
      BY <1>4, <1>6, <2>2
    <3>2. CASE j < Len(u) /\ u[j + 1].type = "stats" /\ Second(u[j].arg, u[j + 1].arg)
      <4>1. j + 1 \in 1 .. Len(u) /\ i + 1 = Len(q) + (j + 1) /\ i < Len(r)
        BY <1>1, <1>4, <2>2, <3>2
      <4>. QED
        BY <1>4, <3>1, <3>2, <4>1
    <3>3. CASE j > 1 /\ u[j - 1].type = "stats" /\ Second(u[j - 1].arg, u[j].arg)
      <4>1. j - 1 \in 1 .. Len(u) /\ i - 1 = Len(q) + (j - 1) /\ i > 1
        BY <1>1, <2>2, <3>3
      <4>. QED
        BY <1>4, <3>1, <3>3, <4>1
    <3>. QED
      BY <3>1, <3>2, <3>3 DEF Paired
  <2>. QED
    BY <1>3, <2>1, <2>2
<1>7. st # <<>> => /\ Len(st) = 1 /\ Len(r) > 0
                   /\ r[1].type = "stats" /\ Second(st[1], r[1].arg)
  <2>1. Len(q) > 0 => 1 \in 1 .. Len(q) /\ Len(r) > 0
    BY <1>1, <1>4
  <2>. QED
    BY <1>4, <2>1 DEF Paired
<1>8. Paired(st, r)
  BY <1>5, <1>6, <1>7 DEF Paired
<1>. QED
  BY <1>8 DEF r

\* What the switch reports in one go is in pairs.
LEMMA ReportsPaired ==
    /\ \A t, x : t \notin {"stats", "packet_in"} => Paired(<<>>, <<Msg(t, x)>>)
    /\ \A t, n : t # "stats" =>
          Paired(<<>>, <<Msg(t, [xid |-> n, part |-> 1, more |-> FALSE])>>)
    /\ \A n : Paired(<<>>, <<Msg("stats", [xid |-> n, part |-> 1, more |-> TRUE]),
                             Msg("stats", [xid |-> n, part |-> 2, more |-> FALSE])>>)
<1>1. \A t, x : t \notin {"stats", "packet_in"} => Paired(<<>>, <<Msg(t, x)>>)
  BY DEF Paired, Msg
<1>2. \A t, n : t # "stats" =>
          Paired(<<>>, <<Msg(t, [xid |-> n, part |-> 1, more |-> FALSE])>>)
  BY DEF Paired, Msg
<1>3. ASSUME NEW n
      PROVE  Paired(<<>>, <<Msg("stats", [xid |-> n, part |-> 1, more |-> TRUE]),
                            Msg("stats", [xid |-> n, part |-> 2, more |-> FALSE])>>)
  <2>. DEFINE a == [xid |-> n, part |-> 1, more |-> TRUE]
              b == [xid |-> n, part |-> 2, more |-> FALSE]
              f == <<Msg("stats", a), Msg("stats", b)>>
  <2>1. Second(a, b)
    BY DEF Second
  <2>. HIDE DEF a, b
  <2>2. /\ Len(f) = 2 /\ f[1].type = "stats" /\ f[2].type = "stats"
        /\ f[1].arg = a /\ f[2].arg = b
    BY DEF Msg
  <2>. HIDE DEF f
  <2>3. Paired(<<>>, f)
    BY <2>1, <2>2 DEF Paired
  <2>. QED
    BY <2>3 DEF f, a, b
<1>. QED
  BY <1>1, <1>2, <1>3

LEMMA PairedInit == Init => StatsPaired /\ FiredWhole
<1>1. Paired(<<>>, <<>>)
  BY DEF Paired
<1>. QED
  BY <1>1 DEF Init, StatsPaired, FiredWhole, NewCon

\* Steps of the controller other than reading.
LEMMA PairedStays ==
    ASSUME StatsPaired, FiredWhole, UNCHANGED <<toCtl, fired>>,
           \A d \in Conns : con'[d].stats = con[d].stats
    PROVE  StatsPaired' /\ FiredWhole'
BY DEF StatsPaired, FiredWhole

LEMMA DisconnectedStats ==
    ASSUME TypeOK, NEW c \in Conns, Disconnected(c)
    PROVE  UNCHANGED fired /\ \A d \in Conns : con'[d].stats = con[d].stats
BY DEF Disconnected, TypeOK, Con

\* A message that is no part of a reply is read.
LEMMA PairedTake ==
    ASSUME TypeOK, StatsPaired, NEW c \in Conns, NEW t, Takes(c, t), t # "stats",
           \A d \in Conns : con'[d].stats = con[d].stats
    PROVE  StatsPaired'
<1>1. /\ toCtl[c] # <<>> /\ toCtl[c][1].type = t /\ toCtl'[c] = Tail(toCtl[c])
      /\ \A d \in Conns \ {c} : toCtl'[d] = toCtl[d]
  BY DEF Takes, TypeOK
<1>2. Paired(con[c].stats, Tail(toCtl[c]))
  BY <1>1, Values, PairedTail DEF StatsPaired
<1>. QED
  BY <1>1, <1>2 DEF StatsPaired

LEMMA PairedRead ==
    ASSUME TypeOK, StatsPaired, FiredWhole, NEW c \in Conns, Read(c)
    PROVE  StatsPaired' /\ FiredWhole'
<1>. DEFINE Same == \A d \in Conns : con'[d].stats = con[d].stats
<1>1. ASSUME NEW t, Takes(c, t), t # "stats", Same, UNCHANGED fired
      PROVE  StatsPaired' /\ FiredWhole'
  BY <1>1, PairedTake DEF FiredWhole
<1>2. CASE handle_HELLO(c) \/ handle_ECHO_REQUEST(c)
  <2>1. PICK t \in {"hello", "echo"} : Takes(c, t) /\ (UNCHANGED mainVars \/ Disconnected(c))
    BY <1>2 DEF handle_HELLO, handle_ECHO_REQUEST, Take
  <2>2. Same /\ UNCHANGED fired
    BY <2>1, DisconnectedStats DEF mainVars
  <2>. QED
    BY <1>1, <2>1, <2>2
<1>3. CASE handle_FEATURES_REPLY(c)
  <2>1. \/ con' = [con EXCEPT ![c] = Connecting(c)]
        \/ con' = [con EXCEPT ![c] = [Connecting(c) EXCEPT !.disconnected = TRUE]]
    BY <1>3 DEF handle_FEATURES_REPLY
  <2>2. /\ Connecting(c).stats = con[c].stats
        /\ [Connecting(c) EXCEPT !.disconnected = TRUE].stats = con[c].stats
    BY DEF Connecting, TypeOK, Con
  <2>3. Same
    BY <2>1, <2>2 DEF TypeOK
  <2>. QED
    BY <1>1, <1>3, <2>3 DEF handle_FEATURES_REPLY, Take
<1>4. CASE handle_BARRIER(c) \/ handle_ERROR_MSG(c)
  <2>1. PICK t \in {"barrier", "refused"} : Takes(c, t) /\ FinishConnecting(c)
    BY <1>4 DEF handle_BARRIER, handle_ERROR_MSG, Take
  <2>2. Same /\ UNCHANGED fired
    BY <2>1 DEF FinishConnecting, TypeOK, Con
  <2>. QED
    BY <1>1, <2>1, <2>2
<1>5. CASE handle_PORT_STATUS(c)
  BY <1>1, <1>5 DEF handle_PORT_STATUS, Take
<1>6. CASE handle_PACKET_IN(c)
  <2>1. Takes(c, "packet_in") /\ Same /\ fired' = Append(fired, <<toCtl[c][1].arg>>)
    BY <1>6 DEF handle_PACKET_IN, Raised, Take
  <2>2. toCtl[c][1].type = "packet_in" /\ 1 \in 1 .. Len(toCtl[c])
    BY <2>1 DEF Takes, TypeOK
  <2>3. toCtl[c][1].arg.part = 1 /\ ~ toCtl[c][1].arg.more
    BY <2>2 DEF StatsPaired, Paired
  <2>4. Whole(<<toCtl[c][1].arg>>)
    BY <2>3 DEF Whole, Last
  <2>5. FiredWhole'
    <3>1. fired \in Seq(Seq(Part)) /\ <<toCtl[c][1].arg>> \in Seq(Part)
      <4>1. toCtl[c][1].arg \in Part
        BY <2>1, TakeType, Arguments
      <4>2. \A x \in Part : <<x>> \in Seq(Part)
        OBVIOUS
      <4>. QED
        BY <4>1, <4>2 DEF TypeOK
    <3>. QED
      BY <2>1, <2>4, <3>1 DEF FiredWhole
  <2>. QED
    BY <2>1, <2>5, PairedTake
<1>7. CASE handle_STATS_REPLY(c)
  <2>. DEFINE q == toCtl[c]
              st == con[c].stats
  <2>1. /\ Takes(c, "stats") /\ q # <<>> /\ q[1].type = "stats" /\ toCtl'[c] = Tail(q)
        /\ \A d \in Conns \ {c} : toCtl'[d] = toCtl[d]
        /\ q \in Seq(Reported) /\ st \in Seq(Part) /\ q[1].arg \in Part
    <3>1. Takes(c, "stats")
      BY <1>7 DEF handle_STATS_REPLY, Take
    <3>2. /\ q # <<>> /\ q[1].type = "stats" /\ toCtl'[c] = Tail(q)
          /\ \A d \in Conns \ {c} : toCtl'[d] = toCtl[d]
      BY <3>1 DEF Takes, TypeOK
    <3>3. q \in Seq(Reported) /\ st \in Seq(Part)
      BY Values DEF Con
    <3>. QED
      BY <3>1, <3>2, <3>3, TakeType, Arguments
  <2>2. /\ st = <<>> \/ st[1].xid = q[1].arg.xid
        /\ q[1].arg.more => st = <<>> /\ Paired(<<q[1].arg>>, Tail(q))
        /\ ~ q[1].arg.more => /\ Len(st) = 1 /\ Second(st[1], q[1].arg) /\ Paired(<<>>, Tail(q))
    <3>1. Paired(st, q)
      BY DEF StatsPaired
    <3>. HIDE DEF q, st
    <3>. QED
      BY <2>1, <3>1, PairedPart
  <2>3. /\ con' = [con EXCEPT ![c].stats = StatsLeft(c, q[1].arg)]
        /\ IF q[1].arg.more THEN UNCHANGED fired ELSE fired' = Append(fired, Append(st, q[1].arg))
    BY <1>7, <2>2 DEF handle_STATS_REPLY, Expected, Collected, Raised
  <2>4. /\ \A d \in Conns \ {c} : con'[d] = con[d]
        /\ con'[c].stats = StatsLeft(c, q[1].arg)
    BY <2>3 DEF TypeOK, Con
  <2>5. CASE q[1].arg.more
    <3>1. StatsLeft(c, q[1].arg) = <<q[1].arg>>
      <4>1. \A x : Append(<<>>, x) = <<x>>
        OBVIOUS
      <4>2. con[c].stats = <<>> /\ q[1].arg.more
        BY <2>2, <2>5
      <4>. QED
        BY <4>1, <4>2, Zenon DEF StatsLeft, Collected
    <3>2. StatsPaired'
      BY <2>1, <2>2, <2>4, <2>5, <3>1 DEF StatsPaired
    <3>3. FiredWhole'
      BY <2>3, <2>5 DEF FiredWhole
    <3>. QED
      BY <3>2, <3>3
  <2>6. CASE ~ q[1].arg.more
    <3>1. StatsLeft(c, q[1].arg) = <<>>
      BY <2>6 DEF StatsLeft
    <3>2. StatsPaired'
      BY <2>1, <2>2, <2>4, <2>6, <3>1 DEF StatsPaired
    <3>. DEFINE e == Append(st, q[1].arg)
    <3>3. Len(st) = 1 /\ Second(st[1], q[1].arg)
      BY <2>2, <2>6
    <3>4. e \in Seq(Part) /\ Len(e) = 2 /\ e[1] = st[1] /\ e[2] = q[1].arg
      <4>1. ASSUME NEW s \in Seq(Part), NEW x \in Part, Len(s) = 1
            PROVE  /\ Append(s, x) \in Seq(Part) /\ Len(Append(s, x)) = 2
                   /\ Append(s, x)[1] = s[1] /\ Append(s, x)[2] = x
        <5>1. /\ Append(s, x) \in Seq(Part) /\ Len(Append(s, x)) = Len(s) + 1
              /\ \A i \in 1 .. Len(s) : Append(s, x)[i] = s[i]
              /\ Append(s, x)[Len(s) + 1] = x
          OBVIOUS
        <5>. QED
          BY <4>1, <5>1
      <4>. HIDE DEF q, st
      <4>. QED
        BY <2>1, <3>3, <4>1
    <3>5. fired' = Append(fired, e)
      BY <2>3, <2>6
    <3>. HIDE DEF e
    <3>6. Whole(e)
      BY <3>3, <3>4 DEF Whole, Second, Last
    <3>7. FiredWhole'
      <4>1. fired \in Seq(Seq(Part))
        BY DEF TypeOK
      <4>. QED
        BY <3>4, <3>5, <3>6, <4>1 DEF FiredWhole
    <3>. QED
      BY <3>2, <3>7
  <2>. QED
    BY <2>5, <2>6
<1>8. CASE Close(c)
  <2>1. /\ UNCHANGED fired /\ Same /\ toCtl'[c] = <<>>
        /\ \A d \in Conns \ {c} : toCtl'[d] = toCtl[d]
    BY <1>8 DEF Close, TypeOK, Con
  <2>2. con[c].stats = <<>>
    BY <1>8 DEF Close, StatsPaired, Paired
  <2>3. Paired(<<>>, <<>>)
    BY DEF Paired
  <2>4. StatsPaired'
    BY <2>1, <2>2, <2>3 DEF StatsPaired
  <2>. QED
    BY <2>1, <2>4 DEF FiredWhole
<1>. QED
  BY <1>2, <1>3, <1>4, <1>5, <1>6, <1>7, <1>8 DEF Read

\* The switch reports.
LEMMA PairedPeer ==
    ASSUME TypeOK, StatsPaired, FiredWhole,
           PeerConnects \/ PeerLeaves \/ PeerAnswers \/ PeerReports
    PROVE  StatsPaired' /\ FiredWhole'
<1>1. UNCHANGED <<con, fired>>
  BY DEF PeerConnects, PeerLeaves, PeerAnswers, PeerReports, mainVars
<1>2. FiredWhole'
  BY <1>1 DEF FiredWhole
<1>3. ASSUME NEW c \in Conns, NEW u \in Seq(Reported), Report(c, u), Paired(<<>>, u)
      PROVE  StatsPaired'
  <2>1. toCtl'[c] = toCtl[c] \o u /\ \A d \in Conns \ {c} : toCtl'[d] = toCtl[d]
    BY <1>3 DEF Report, TypeOK
  <2>2. Paired(con[c].stats, toCtl[c] \o u)
    BY <1>3, Values, PairedReport DEF StatsPaired
  <2>. QED
    BY <1>1, <2>1, <2>2 DEF StatsPaired
<1>4. peer # 0 => peer \in Conns
  BY ConnectionsAssumption DEF TypeOK, Conns
<1>5. \A m \in Reported : <<m>> \in Seq(Reported)
  OBVIOUS
<1>6. CASE PeerConnects
  <2>1. made + 1 \in Conns /\ Report(made + 1, <<Msg("hello", 0)>>)
    <3>1. made + 1 \in Conns
      <4>1. made \in Nat /\ made < MaxConns /\ MaxConns \in Nat
        BY <1>6, ConnectionsAssumption DEF PeerConnects, TypeOK
      <4>. QED
        BY <4>1 DEF Conns
    <3>. QED
      BY <1>6, <3>1 DEF PeerConnects
  <2>2. Msg("hello", 0) \in Reported /\ Paired(<<>>, <<Msg("hello", 0)>>)
    BY Messages, ReportsPaired
  <2>. QED
    BY <1>2, <1>3, <1>5, <2>1, <2>2
<1>7. CASE PeerLeaves
  <2>1. peer \in Conns /\ Report(peer, <<Msg("eof", 0)>>)
    BY <1>4, <1>7 DEF PeerLeaves
  <2>2. Msg("eof", 0) \in Reported /\ Paired(<<>>, <<Msg("eof", 0)>>)
    BY Messages, ReportsPaired
  <2>. QED
    BY <1>2, <1>3, <1>5, <2>1, <2>2
<1>8. CASE PeerAnswers
  <2>1. PICK t \in {"features", "barrier", "refused"} : Report(peer, <<Msg(t, swPorts)>>)
    BY <1>8 DEF PeerAnswers, Answers
  <2>2. Msg(t, swPorts) \in Reported /\ Paired(<<>>, <<Msg(t, swPorts)>>) /\ peer \in Conns
    BY <1>4, <1>8, Messages, ReportsPaired DEF PeerAnswers, TypeOK
  <2>. QED
    BY <1>2, <1>3, <1>5, <2>1, <2>2
<1>9. CASE PeerReports
  <2>1. peer \in Conns /\ news + 1 \in Nat
    BY <1>4, <1>9 DEF PeerReports, TypeOK
  <2>2. ASSUME NEW p \in PortNos,
               Report(peer, <<Msg("port", [port |-> p, added |-> p \notin swPorts])>>)
        PROVE  StatsPaired'
    <3>1. (p \notin swPorts) \in BOOLEAN
      OBVIOUS
    <3>2. Msg("port", [port |-> p, added |-> p \notin swPorts]) \in Reported
      BY <3>1, Messages
    <3>3. Paired(<<>>, <<Msg("port", [port |-> p, added |-> p \notin swPorts])>>)
      BY ReportsPaired
    <3>. QED
      BY <1>3, <1>5, <2>1, <2>2, <3>2, <3>3
  <2>3. ASSUME Report(peer, [i \in 1..2 |->
                              Msg("stats", [xid |-> news + 1, part |-> i, more |-> i = 1])])
        PROVE  StatsPaired'
    <3>. DEFINE f == [i \in 1..2 |-> Msg("stats", [xid |-> news + 1, part |-> i, more |-> i = 1])]
                g == <<Msg("stats", [xid |-> news + 1, part |-> 1, more |-> TRUE]),
                       Msg("stats", [xid |-> news + 1, part |-> 2, more |-> FALSE])>>
    <3>1. \A i \in 1 .. 2 : [xid |-> news + 1, part |-> i, more |-> i = 1] \in Part
      BY <2>1 DEF Part
    <3>2. \A i \in 1 .. 2 :
            Msg("stats", [xid |-> news + 1, part |-> i, more |-> i = 1]) \in Reported
      BY <3>1, Messages
    <3>3. f \in [1..2 -> Reported]
      BY <3>2, Zenon
    <3>4. /\ f[1] = Msg("stats", [xid |-> news + 1, part |-> 1, more |-> TRUE])
          /\ f[2] = Msg("stats", [xid |-> news + 1, part |-> 2, more |-> FALSE])
      <4>. 1 \in 1 .. 2 /\ 2 \in 1 .. 2
        OBVIOUS
      <4>1. /\ f[1] = Msg("stats", [xid |-> news + 1, part |-> 1, more |-> 1 = 1])
            /\ f[2] = Msg("stats", [xid |-> news + 1, part |-> 2, more |-> 2 = 1])
        BY Zenon
      <4>2. (1 = 1) = TRUE /\ (2 = 1) = FALSE
        OBVIOUS
      <4>. QED
        BY <4>1, <4>2, Zenon
    <3>5. Paired(<<>>, g)
      BY ReportsPaired
    <3>. HIDE DEF f
    <3>6. f \in Seq(Reported) /\ f = <<f[1], f[2]>>
      BY <3>3, PairOf
    <3>7. Report(peer, f)
      BY <2>3 DEF f
    <3>8. f = g
      BY <3>4, <3>6, Zenon
    <3>. HIDE DEF g
    <3>. QED
      BY <1>3, <2>1, <3>5, <3>6, <3>7, <3>8
  <2>4. ASSUME NEW t \in {"packet_in", "echo"},
               Report(peer, <<Msg(t, [xid |-> news + 1, part |-> 1, more |-> FALSE])>>)
        PROVE  StatsPaired'
    <3>1. [xid |-> news + 1, part |-> 1, more |-> FALSE] \in Part
      BY <2>1 DEF Part
    <3>2. Msg(t, [xid |-> news + 1, part |-> 1, more |-> FALSE]) \in Reported
      BY <3>1, Messages
    <3>3. Paired(<<>>, <<Msg(t, [xid |-> news + 1, part |-> 1, more |-> FALSE])>>)
      BY ReportsPaired
    <3>. QED
      BY <1>3, <1>5, <2>1, <2>4, <3>2, <3>3
  <2>. QED
    BY <1>2, <1>9, <2>2, <2>3, <2>4 DEF PeerReports
<1>. QED
  BY <1>6, <1>7, <1>8, <1>9

LEMMA PairedStep ==
    TypeOK /\ StatsPaired /\ FiredWhole /\ [Next]_vars => StatsPaired' /\ FiredWhole'
<1>. SUFFICES ASSUME TypeOK, StatsPaired, FiredWhole, [Next]_vars
              PROVE  StatsPaired' /\ FiredWhole'
  OBVIOUS
<1>1. ASSUME UNCHANGED <<toCtl, fired>>, \A d \in Conns : con'[d].stats = con[d].stats
      PROVE  StatsPaired' /\ FiredWhole'
  BY <1>1, PairedStays
<1>2. ASSUME UNCHANGED toCtl, NEW c \in Conns, Disconnected(c)
      PROVE  StatsPaired' /\ FiredWhole'
  BY <1>1, <1>2, DisconnectedStats
<1>3. ASSUME NEW c \in Conns, Accept(c) PROVE StatsPaired' /\ FiredWhole'
  <2>1. \/ con' = [con EXCEPT ![c].state = "open"]
        \/ con' = [con EXCEPT ![c].state = "open", ![c].disconnected = TRUE]
    BY <1>3 DEF Accept
  <2>2. con[c] \in Con
    BY DEF TypeOK
  <2>3. /\ [con[c] EXCEPT !.state = "open"].stats = con[c].stats
        /\ [con[c] EXCEPT !.state = "open", !.disconnected = TRUE].stats = con[c].stats
    BY <2>2 DEF Con
  <2>4. \/ con'[c] = [con[c] EXCEPT !.state = "open"]
        \/ con'[c] = [con[c] EXCEPT !.state = "open", !.disconnected = TRUE]
    BY <2>1 DEF TypeOK
  <2>5. \A d \in Conns \ {c} : con'[d] = con[d]
    BY <2>1 DEF TypeOK
  <2>6. \A d \in Conns : con'[d].stats = con[d].stats
    BY <2>3, <2>4, <2>5
  <2>. QED
    BY <1>1, <1>3, <2>6 DEF Accept
<1>4. ASSUME NEW c \in Conns, NEW t \in Threads,
             SendBegins(t, c) \/ WriteQueued(c) \/ WriteFails(c)
      PROVE  StatsPaired' /\ FiredWhole'
  BY <1>1, <1>2, <1>4 DEF SendBegins, WriteQueued, WriteFails, mainVars
<1>5. ASSUME NEW t \in Threads, SendEnds(t) PROVE StatsPaired' /\ FiredWhole'
  BY <1>1, <1>2, <1>5, SendLeaves
<1>6. CASE Snapshot \/ SelectRaises \/ SelectTimesOut \/ UNCHANGED vars
  BY <1>1, <1>6 DEF Snapshot, SelectRaises, SelectTimesOut, mainVars, vars
<1>. QED
  BY <1>3, <1>4, <1>5, <1>6, PairedRead, PairedPeer DEF Next, Threads

\* Each statistics event has all parts of one reply, in their order and no part
\* of another, and a reply whose last part was read has been reported.
THEOREM StatisticsWhole == Spec => []StatsWhole
<1>1. TypeOK /\ StatsPaired /\ FiredWhole /\ [Next]_vars => StatsPaired' /\ FiredWhole'
  BY PairedStep
<1>2. StatsPaired /\ FiredWhole => StatsWhole
  <2>1. FiredWhole => \A i \in DOMAIN fired :
          /\ \A j \in DOMAIN fired[i] : fired[i][j].xid = fired[i][1].xid /\ fired[i][j].part = j
          /\ ~ Last(fired[i]).more
    BY DEF FiredWhole, Whole
  <2>2. StatsPaired => \A c \in Conns : toCtl[c] = <<>> => con[c].stats = <<>>
    BY DEF StatsPaired, Paired
  <2>. QED
    BY <2>1, <2>2 DEF StatsWhole
<1>. QED
  BY <1>1, <1>2, PairedInit, Ordering, PTL DEF Spec

-----------------------------------------------------------------------------
(* The ports of the topology's switch.                                     *)

\* Is m a change of port p?
About(m, p) == m.type = "port" /\ m.arg.port = p

\* Starting from the ports base, the changes in q after the n-th message end with
\* what S says of port p: the last one is about its presence in S, or there is none
\* and base agrees with S.
Agrees(p, base, q, n, S) ==
    \/ (\A j \in n + 1 .. Len(q) : ~ About(q[j], p)) /\ (p \in base <=> p \in S)
    \/ \E j \in n + 1 .. Len(q) :
         /\ About(q[j], p) /\ (q[j].arg.added <=> p \in S)
         /\ \A k \in j + 1 .. Len(q) : ~ About(q[k], p)
Leads(base, q, n, S) == \A p \in PortNos : Agrees(p, base, q, n, S)

\* A features reply, on its way or read and waiting for its barrier, leads to the
\* ports of the switch by the changes that follow it.
RepliesLead(co, q, S) ==
    /\ co.waits => Leads(co.features, q, 0, S)
    /\ \A i \in 1 .. Len(q) : q[i].type = "features" => Leads(q[i].arg, q, i, S)

\* The same holds of the ports of the topology's switch once it follows the
\* connection of the switch, until a change is missed.  A switch object has a
\* connection that came up, and the stream of the switch has not ended.
PortsFollow ==
    /\ entity # 0 => con[entity].ups > 0
    /\ peer # 0 => ~ Has(toCtl[peer], "eof")
    /\ peer # 0 /\ ~ missed =>
         /\ RepliesLead(con[peer], toCtl[peer], swPorts)
         /\ entity = peer => Leads(ports, toCtl[peer], 0, swPorts)

\* At the end of the messages the ports are those of the switch.
LEMMA AgreesAtEnd ==
    ASSUME NEW S, NEW q \in Seq(S), NEW p, NEW P
    PROVE  /\ Agrees(p, P, q, Len(q), P)
           /\ \A B : Agrees(p, B, <<>>, 0, P) => (p \in B <=> p \in P)
<1>1. Len(q) \in Nat /\ Len(q) + 1 .. Len(q) = {}
  OBVIOUS
<1>2. Agrees(p, P, q, Len(q), P)
  BY <1>1 DEF Agrees
<1>3. 0 + 1 .. Len(<<>>) = {}
  OBVIOUS
<1>. QED
  BY <1>2, <1>3 DEF Agrees

\* A message that is not about the port, or one that is, is passed.
LEMMA AgreesPass ==
    ASSUME NEW S, NEW q \in Seq(S), NEW n \in Nat, n < Len(q), NEW p, NEW B, NEW C, NEW P,
           Agrees(p, B, q, n, P),
           About(q[n + 1], p) => (q[n + 1].arg.added <=> p \in C),
           ~ About(q[n + 1], p) => (p \in B <=> p \in C)
    PROVE  Agrees(p, C, q, n + 1, P)
<1>1. /\ Len(q) \in Nat /\ n + 1 \in n + 1 .. Len(q)
      /\ \A j \in n + 1 .. Len(q) : j = n + 1 \/ j \in (n + 1) + 1 .. Len(q)
      /\ \A j \in (n + 1) + 1 .. Len(q) : j \in n + 1 .. Len(q)
  OBVIOUS
<1>2. CASE (\A j \in n + 1 .. Len(q) : ~ About(q[j], p)) /\ (p \in B <=> p \in P)
  BY <1>1, <1>2 DEF Agrees
<1>3. ASSUME NEW j \in n + 1 .. Len(q), About(q[j], p), q[j].arg.added <=> p \in P,
             \A k \in j + 1 .. Len(q) : ~ About(q[k], p)
      PROVE  Agrees(p, C, q, n + 1, P)
  <2>1. CASE j = n + 1
    BY <1>3, <2>1 DEF Agrees
  <2>2. CASE j \in (n + 1) + 1 .. Len(q)
    BY <1>3, <2>2 DEF Agrees
  <2>. QED
    BY <1>1, <2>1, <2>2
<1>. QED
  BY <1>2, <1>3 DEF Agrees

\* The first message is taken.
LEMMA AgreesTail ==
    ASSUME NEW S, NEW q \in Seq(S), q # <<>>, NEW n \in Nat, NEW p, NEW B, NEW P,
           Agrees(p, B, q, n + 1, P)
    PROVE  Agrees(p, B, Tail(q), n, P)
<1>1. /\ Len(q) \in Nat \ {0} /\ Len(Tail(q)) = Len(q) - 1
      /\ \A j \in 1 .. Len(q) - 1 : Tail(q)[j] = q[j + 1]
  OBVIOUS
<1>2. \A m \in Nat : \A k \in m + 1 .. Len(q) - 1 :
        k + 1 \in (m + 1) + 1 .. Len(q) /\ k \in 1 .. Len(q) - 1
  BY <1>1
<1>3. CASE (\A j \in (n + 1) + 1 .. Len(q) : ~ About(q[j], p)) /\ (p \in B <=> p \in P)
  BY <1>1, <1>2, <1>3 DEF Agrees
<1>4. ASSUME NEW j \in (n + 1) + 1 .. Len(q), About(q[j], p), q[j].arg.added <=> p \in P,
             \A k \in j + 1 .. Len(q) : ~ About(q[k], p)
      PROVE  Agrees(p, B, Tail(q), n, P)
  <2>1. PICK i \in n + 1 .. Len(q) - 1 : i + 1 = j
    <3>1. j - 1 \in n + 1 .. Len(q) - 1 /\ (j - 1) + 1 = j
      BY <1>1
    <3>. QED
      BY <3>1
  <2>2. i \in Nat /\ Tail(q)[i] = q[j]
    BY <1>1, <1>2, <2>1
  <2>3. \A k \in i + 1 .. Len(q) - 1 : ~ About(Tail(q)[k], p)
    BY <1>1, <1>2, <1>4, <2>1, <2>2
  <2>. QED
    BY <1>1, <1>4, <2>1, <2>2, <2>3 DEF Agrees
<1>. QED
  BY <1>3, <1>4 DEF Agrees

\* Messages that are not about the port are put behind.
LEMMA AgreesConcat ==
    ASSUME NEW S, NEW q \in Seq(S), NEW u \in Seq(S), NEW n \in Nat, n <= Len(q),
           NEW p, NEW B, NEW P, Agrees(p, B, q, n, P),
           \A j \in 1 .. Len(u) : ~ About(u[j], p)
    PROVE  Agrees(p, B, q \o u, n, P)
<1>1. /\ Len(q) \in Nat /\ Len(u) \in Nat /\ Len(q \o u) = Len(q) + Len(u)
      /\ \A i \in 1 .. Len(q) : (q \o u)[i] = q[i]
      /\ \A i \in Len(q) + 1 .. Len(q) + Len(u) : (q \o u)[i] = u[i - Len(q)]
  OBVIOUS
<1>2. \A m \in Nat : \A k \in m + 1 .. Len(q) + Len(u) :
        \/ k \in m + 1 .. Len(q) /\ k \in 1 .. Len(q)
        \/ k - Len(q) \in 1 .. Len(u) /\ k \in Len(q) + 1 .. Len(q) + Len(u)
  BY <1>1
<1>3. \A m \in Nat : (\A k \in m + 1 .. Len(q) : ~ About(q[k], p))
        => \A k \in m + 1 .. Len(q \o u) : ~ About((q \o u)[k], p)
  BY <1>1, <1>2
<1>4. CASE (\A j \in n + 1 .. Len(q) : ~ About(q[j], p)) /\ (p \in B <=> p \in P)
  BY <1>3, <1>4 DEF Agrees
<1>5. ASSUME NEW j \in n + 1 .. Len(q), About(q[j], p), q[j].arg.added <=> p \in P,
             \A k \in j + 1 .. Len(q) : ~ About(q[k], p)
      PROVE  Agrees(p, B, q \o u, n, P)
  <2>1. j \in Nat /\ j \in 1 .. Len(q) /\ j \in n + 1 .. Len(q \o u)
    BY <1>1
  <2>2. (q \o u)[j] = q[j] /\ \A k \in j + 1 .. Len(q \o u) : ~ About((q \o u)[k], p)
    BY <1>1, <1>3, <1>5, <2>1
  <2>. QED
    BY <1>5, <2>1, <2>2 DEF Agrees
<1>. QED
  BY <1>4, <1>5 DEF Agrees

\* A change of the port is put behind.
LEMMA AgreesChange ==
    ASSUME NEW S, NEW q \in Seq(S), NEW m \in S, NEW n \in Nat, n <= Len(q),
           NEW p, NEW B, NEW P, About(m, p), m.arg.added <=> p \in P
    PROVE  Agrees(p, B, q \o <<m>>, n, P)
<1>1. /\ Len(q) \in Nat /\ Len(q \o <<m>>) = Len(q) + 1 /\ (q \o <<m>>)[Len(q) + 1] = m
      /\ Len(q) + 1 \in n + 1 .. Len(q) + 1 /\ (Len(q) + 1) + 1 .. Len(q) + 1 = {}
  OBVIOUS
<1>. QED
  BY <1>1 DEF Agrees

\* The first message is read: when it is a change of ports, C is what it makes of B.
LEMMA LeadsTail ==
    ASSUME NEW q \in Seq(Reported), q # <<>>, NEW B, NEW C, NEW P, Leads(B, q, 0, P),
           \A p \in PortNos : /\ About(q[1], p) => (q[1].arg.added <=> p \in C)
                              /\ ~ About(q[1], p) => (p \in B <=> p \in C)
    PROVE  Leads(C, Tail(q), 0, P)
<1>1. 0 \in Nat /\ 0 < Len(q) /\ 0 + 1 = 1
  OBVIOUS
<1>2. \A p \in PortNos : Agrees(p, C, q, 0 + 1, P)
  BY <1>1, AgreesPass DEF Leads
<1>. QED
  BY <1>1, <1>2, AgreesTail DEF Leads

\* The first message is read, and the replies behind it still lead to the ports.
LEMMA RepliesTail ==
    ASSUME NEW co, NEW r, NEW q \in Seq(Reported), q # <<>>, NEW P, RepliesLead(co, q, P),
           r.waits => Leads(r.features, Tail(q), 0, P)
    PROVE  RepliesLead(r, Tail(q), P)
<1>1. /\ Len(q) \in Nat \ {0} /\ Len(Tail(q)) = Len(q) - 1
      /\ \A i \in 1 .. Len(q) - 1 : Tail(q)[i] = q[i + 1] /\ i + 1 \in 1 .. Len(q) /\ i \in Nat
  OBVIOUS
<1>2. ASSUME NEW i \in 1 .. Len(q) - 1, q[i + 1].type = "features"
      PROVE  Leads(q[i + 1].arg, Tail(q), i, P)
  <2>1. Leads(q[i + 1].arg, q, i + 1, P)
    BY <1>1, <1>2 DEF RepliesLead
  <2>. QED
    BY <1>1, <2>1, AgreesTail DEF Leads
<1>. QED
  BY <1>1, <1>2 DEF RepliesLead

\* Messages are put behind, none about a port whose presence changed.
LEMMA LeadsConcat ==
    ASSUME NEW q \in Seq(Reported), NEW u \in Seq(Reported), NEW n \in Nat, n <= Len(q),
           NEW B, NEW P, Leads(B, q, n, P), \A j \in 1 .. Len(u) : u[j].type # "port"
    PROVE  Leads(B, q \o u, n, P)
<1>1. \A p \in PortNos : \A j \in 1 .. Len(u) : ~ About(u[j], p)
  BY DEF About
<1>. QED
  BY <1>1, AgreesConcat DEF Leads

\* The switch reports that a port has come or gone.
LEMMA LeadsChange ==
    ASSUME NEW q \in Seq(Reported), NEW n \in Nat, n <= Len(q), NEW B, NEW P, NEW Q,
           NEW o \in PortNos, NEW m \in Reported, m.type = "port", m.arg.port = o,
           m.arg.added <=> o \in Q, \A p \in PortNos \ {o} : p \in P <=> p \in Q,
           Leads(B, q, n, P)
    PROVE  Leads(B, q \o <<m>>, n, Q)
<1>1. SUFFICES ASSUME NEW p \in PortNos PROVE Agrees(p, B, q \o <<m>>, n, Q)
  BY DEF Leads
<1>2. CASE p = o
  BY <1>2, AgreesChange DEF About
<1>3. CASE p # o
  <2>1. Agrees(p, B, q, n, Q)
    BY <1>3 DEF Leads, Agrees
  <2>2. <<m>> \in Seq(Reported) /\ \A j \in 1 .. Len(<<m>>) : ~ About(<<m>>[j], p)
    BY <1>3 DEF About
  <2>. QED
    BY <2>1, <2>2, AgreesConcat
<1>. QED
  BY <1>2, <1>3

\* The same for the replies, one of which may be among the new messages.
LEMMA RepliesConcat ==
    ASSUME NEW co, NEW q \in Seq(Reported), NEW u \in Seq(Reported), NEW P, NEW Q,
           RepliesLead(co, q, P),
           \A B : \A n \in 0 .. Len(q) : Leads(B, q, n, P) => Leads(B, q \o u, n, Q),
           \A i \in 1 .. Len(u) : u[i].type = "features" => i = Len(u) /\ u[i].arg = Q
    PROVE  RepliesLead(co, q \o u, Q)
<1>1. /\ Len(q) \in Nat /\ Len(u) \in Nat /\ Len(q \o u) = Len(q) + Len(u)
      /\ \A i \in 1 .. Len(q) : (q \o u)[i] = q[i] /\ i \in 0 .. Len(q)
      /\ \A i \in Len(q) + 1 .. Len(q) + Len(u) : (q \o u)[i] = u[i - Len(q)]
      /\ q \o u \in Seq(Reported) /\ 0 \in 0 .. Len(q)
  OBVIOUS
<1>2. co.waits => Leads(co.features, q \o u, 0, Q)
  BY <1>1 DEF RepliesLead
<1>3. ASSUME NEW i \in 1 .. Len(q \o u), (q \o u)[i].type = "features"
      PROVE  Leads((q \o u)[i].arg, q \o u, i, Q)
  <2>1. CASE i \in 1 .. Len(q)
    BY <1>1, <1>3, <2>1 DEF RepliesLead
  <2>2. CASE i \in Len(q) + 1 .. Len(q) + Len(u)
    <3>1. i - Len(q) \in 1 .. Len(u) /\ u[i - Len(q)] = (q \o u)[i]
      BY <1>1, <2>2
    <3>2. i - Len(q) = Len(u) /\ (q \o u)[i].arg = Q
      BY <1>3, <3>1
    <3>3. i = Len(q \o u)
      BY <1>1, <2>2, <3>2
    <3>4. \A w \in Seq(Reported) : Leads(Q, w, Len(w), Q)
      BY AgreesAtEnd DEF Leads
    <3>. QED
      BY <1>1, <3>2, <3>3, <3>4
  <2>. QED
    BY <1>1, <2>1, <2>2
<1>. QED
  BY <1>2, <1>3 DEF RepliesLead

\* Does a step leave alone how far the connections are?
ConsStay ==
    \A d \in Conns : /\ con'[d].waits = con[d].waits /\ con'[d].ups = con[d].ups
                     /\ con'[d].features = con[d].features

\* What disconnect leaves alone.
LEMMA DisconnectedStays ==
    ASSUME TypeOK, NEW c \in Conns, Disconnected(c)
    PROVE  ConsStay /\ entity' \in {0, entity} /\ UNCHANGED <<ports, missed>>
<1>1. con[c] \in Con /\ con'[c] = [con[c] EXCEPT !.disconnected = TRUE]
  BY DEF Disconnected, TypeOK
<1>2. con'[c].waits = con[c].waits /\ con'[c].ups = con[c].ups
      /\ con'[c].features = con[c].features
  BY <1>1 DEF Con
<1>3. \A d \in Conns \ {c} : con'[d] = con[d]
  BY DEF Disconnected, TypeOK
<1>. QED
  BY <1>2, <1>3 DEF Disconnected, ConsStay

\* A step that reads at most a message that changes no port, and does not make
\* the topology's switch follow another connection.
LEMMA FollowQuiet ==
    ASSUME TypeOK, PortsFollow, UNCHANGED <<peer, swPorts>>, missed' = missed,
           entity' \in {0, entity}, ports' = ports, ConsStay,
           \A d \in Conns :
             \/ toCtl'[d] = toCtl[d]
             \/ /\ toCtl[d] # <<>> /\ toCtl'[d] = Tail(toCtl[d])
                /\ toCtl[d][1].type # "port"
    PROVE  PortsFollow'
<1>1. entity # 0 => entity \in Conns
  BY ConnectionsAssumption DEF TypeOK, Conns
<1>2. peer # 0 => peer \in Conns
  BY ConnectionsAssumption DEF TypeOK, Conns
<1>3. entity' # 0 => con'[entity'].ups > 0
  BY <1>1 DEF PortsFollow, ConsStay
<1>4. CASE peer = 0
  BY <1>3, <1>4 DEF PortsFollow
<1>5. CASE peer # 0 /\ toCtl'[peer] = toCtl[peer]
  <2>1. peer' # 0 /\ ~ missed' => RepliesLead(con'[peer'], toCtl'[peer'], swPorts')
    BY <1>2, <1>5 DEF PortsFollow, RepliesLead, ConsStay
  <2>. QED
    BY <1>3, <1>5, <2>1 DEF PortsFollow
<1>6. CASE /\ peer # 0 /\ toCtl[peer] # <<>> /\ toCtl'[peer] = Tail(toCtl[peer])
           /\ toCtl[peer][1].type # "port"
  <2>. DEFINE q == toCtl[peer]
  <2>1. peer \in Conns /\ q \in Seq(Reported) /\ q # <<>>
    BY <1>2, <1>6, Values
  <2>2. \A p \in PortNos : ~ About(q[1], p)
    BY <1>6 DEF About
  <2>3. ~ Has(Tail(q), "eof")
    BY <1>6, <2>1, HasTail DEF PortsFollow
  <2>4. \A B : Leads(B, q, 0, swPorts) => Leads(B, Tail(q), 0, swPorts)
    BY <2>1, <2>2, LeadsTail
  <2>5. ASSUME ~ missed PROVE RepliesLead(con'[peer], Tail(q), swPorts)
    <3>1. RepliesLead(con[peer], q, swPorts)
      BY <1>6, <2>5 DEF PortsFollow
    <3>2. con'[peer].waits => Leads(con'[peer].features, Tail(q), 0, swPorts)
      BY <2>1, <2>4, <3>1 DEF RepliesLead, ConsStay
    <3>. QED
      BY <2>1, <3>1, <3>2, RepliesTail
  <2>6. ASSUME ~ missed, entity' = peer PROVE Leads(ports, Tail(q), 0, swPorts)
    BY <1>6, <2>4, <2>6 DEF PortsFollow
  <2>. HIDE DEF q
  <2>7. toCtl'[peer] = Tail(q)
    BY <1>6 DEF q
  <2>. QED
    BY <1>3, <2>3, <2>5, <2>6, <2>7 DEF PortsFollow
<1>. QED
  BY <1>2, <1>4, <1>5, <1>6

\* What reading leaves for the handler.
LEMMA TakeFollow ==
    ASSUME TypeOK, NEW c \in Conns, NEW t, Takes(c, t)
    PROVE  /\ toCtl[c] # <<>> /\ toCtl[c] \in Seq(Reported) /\ toCtl'[c] = Tail(toCtl[c])
           /\ toCtl[c][1].type = t /\ 1 \in 1 .. Len(toCtl[c]) /\ Has(toCtl[c], t)
           /\ \A d \in Conns \ {c} : toCtl'[d] = toCtl[d]
           /\ UNCHANGED <<peer, swPorts>>
           /\ ~ Has(toCtl[c], "eof") => ~ Has(toCtl'[c], "eof")
<1>1. /\ toCtl[c] # <<>> /\ toCtl[c] \in Seq(Reported) /\ toCtl'[c] = Tail(toCtl[c])
      /\ toCtl[c][1].type = t /\ \A d \in Conns \ {c} : toCtl'[d] = toCtl[d]
      /\ UNCHANGED <<peer, swPorts>>
  BY DEF Takes, TypeOK, peerVars
<1>2. 1 \in 1 .. Len(toCtl[c])
  BY <1>1
<1>. QED
  BY <1>1, <1>2, HasTail

\* A features reply is read: its ports are kept until the barrier is answered.
LEMMA FollowFeatures ==
    ASSUME TypeOK, Handshake, PortsFollow, NEW c \in Conns, handle_FEATURES_REPLY(c)
    PROVE  PortsFollow'
<1>. DEFINE q == toCtl[c]
            r == con'[c]
<1>1. /\ q # <<>> /\ q \in Seq(Reported) /\ toCtl'[c] = Tail(q)
      /\ q[1].type = "features" /\ 1 \in 1 .. Len(q) /\ Has(q, "features")
      /\ \A d \in Conns \ {c} : toCtl'[d] = toCtl[d]
      /\ UNCHANGED <<peer, swPorts>>
      /\ ~ Has(q, "eof") => ~ Has(Tail(q), "eof")
  BY TakeFollow DEF handle_FEATURES_REPLY, Take
<1>2. /\ r.ups = con[c].ups /\ r.features = q[1].arg
      /\ \A d \in Conns \ {c} : con'[d] = con[d]
  <2>1. con[c] \in Con
    BY Values
  <2>2. \A x \in {Connecting(c), [Connecting(c) EXCEPT !.disconnected = TRUE]} :
          x.ups = con[c].ups /\ x.features = q[1].arg
    BY <2>1 DEF Connecting, Con
  <2>. QED
    BY <2>2 DEF handle_FEATURES_REPLY, TypeOK
<1>3. entity' \in {0, entity} /\ UNCHANGED <<ports, missed>>
  BY DEF handle_FEATURES_REPLY
<1>4. con[c].ups = 0
  <2>1. InStep(con[c], toCtl[c], wire[c] \o queue[c], wire[c], taken[c])
    BY DEF Handshake, Step
  <2>. QED
    BY <1>1, <2>1 DEF InStep
<1>5. (peer # 0 => peer \in Conns) /\ (entity # 0 => entity \in Conns /\ entity # c)
  <2>1. (peer # 0 => peer \in Conns) /\ (entity # 0 => entity \in Conns)
    BY ConnectionsAssumption DEF TypeOK, Conns
  <2>2. entity # 0 => con[entity].ups > 0
    BY DEF PortsFollow
  <2>3. con[c].ups > 0 => FALSE
    BY <1>4
  <2>. QED
    BY <2>1, <2>2, <2>3
<1>. HIDE DEF q, r
<1>6. entity' # 0 => con'[entity'].ups > 0
  BY <1>2, <1>3, <1>5 DEF PortsFollow
<1>7. CASE peer = c
  <2>1. c # 0
    BY DEF Conns
  <2>2. ~ Has(Tail(q), "eof") /\ entity' # peer
    BY <1>1, <1>3, <1>5, <1>7, <2>1 DEF PortsFollow, q
  <2>3. ASSUME ~ missed PROVE RepliesLead(r, Tail(q), swPorts)
    <3>1. RepliesLead(con[c], q, swPorts)
      BY <1>7, <2>1, <2>3 DEF PortsFollow, q
    <3>2. Leads(q[1].arg, q, 0 + 1, swPorts)
      BY <1>1, <3>1 DEF RepliesLead
    <3>3. Leads(q[1].arg, Tail(q), 0, swPorts)
      BY <1>1, <3>2, AgreesTail DEF Leads
    <3>. QED
      BY <1>1, <1>2, <3>1, <3>3, RepliesTail
  <2>. QED
    BY <1>1, <1>3, <1>6, <1>7, <2>2, <2>3 DEF PortsFollow, r
<1>8. CASE peer # c
  BY <1>1, <1>2, <1>3, <1>5, <1>6, <1>8 DEF PortsFollow
<1>. QED
  BY <1>7, <1>8

\* The barrier is answered: the topology's switch gets the ports of the features
\* reply, and the changes since then are still to come.
LEMMA FollowUp ==
    ASSUME TypeOK, PortsFollow, NEW c \in Conns, NEW t \in {"barrier", "refused"}, Take(c, t),
           FinishConnecting(c)
    PROVE  PortsFollow'
<1>. DEFINE q == toCtl[c]
            r == con'[c]
<1>1. /\ q # <<>> /\ q \in Seq(Reported) /\ toCtl'[c] = Tail(q)
      /\ q[1].type = t /\ \A d \in Conns \ {c} : toCtl'[d] = toCtl[d]
      /\ UNCHANGED <<peer, swPorts>>
      /\ ~ Has(q, "eof") => ~ Has(Tail(q), "eof")
  BY TakeFollow DEF Take
<1>2. /\ con[c].waits /\ ~ r.waits /\ r.ups > 0
      /\ \A d \in Conns \ {c} : con'[d] = con[d]
      /\ entity' = c /\ ports' = con[c].features /\ UNCHANGED missed
  BY DEF FinishConnecting, SetConnection, PortsFrom, TypeOK, Con
<1>3. peer # 0 => peer \in Conns
  BY ConnectionsAssumption DEF TypeOK, Conns
<1>. HIDE DEF q, r
<1>4. CASE peer = c
  <2>1. c # 0
    BY DEF Conns
  <2>2. ~ Has(Tail(q), "eof")
    BY <1>1, <1>4, <2>1 DEF PortsFollow, q
  <2>3. ASSUME ~ missed
        PROVE  RepliesLead(r, Tail(q), swPorts) /\ Leads(con[c].features, Tail(q), 0, swPorts)
    <3>1. RepliesLead(con[c], q, swPorts)
      BY <1>4, <2>1, <2>3 DEF PortsFollow, q
    <3>2. Leads(con[c].features, q, 0, swPorts)
      BY <1>2, <3>1 DEF RepliesLead
    <3>3. \A p \in PortNos : ~ About(q[1], p)
      BY <1>1 DEF About
    <3>4. Leads(con[c].features, Tail(q), 0, swPorts)
      BY <1>1, <3>2, <3>3, LeadsTail
    <3>. QED
      BY <1>1, <1>2, <3>1, <3>4, RepliesTail
  <2>. QED
    BY <1>1, <1>2, <1>4, <2>2, <2>3 DEF PortsFollow, r
<1>5. CASE peer # c
  BY <1>1, <1>2, <1>3, <1>5 DEF PortsFollow, r
<1>. QED
  BY <1>4, <1>5

\* A change of ports is read: it reaches the topology's switch, or it is missed.
LEMMA FollowPort ==
    ASSUME TypeOK, Handshake, PortsFollow, NEW c \in Conns, handle_PORT_STATUS(c)
    PROVE  PortsFollow'
<1>. DEFINE q == toCtl[c]
            desc == toCtl[c][1].arg
<1>1. /\ q # <<>> /\ q \in Seq(Reported) /\ toCtl'[c] = Tail(q)
      /\ q[1].type = "port" /\ 1 \in 1 .. Len(q)
      /\ \A d \in Conns \ {c} : toCtl'[d] = toCtl[d]
      /\ UNCHANGED <<peer, swPorts>>
      /\ ~ Has(q, "eof") => ~ Has(Tail(q), "eof")
  BY TakeFollow DEF handle_PORT_STATUS, Take
<1>2. /\ UNCHANGED <<con, entity>>
      /\ ~ missed' => /\ c = entity /\ ~ missed
                      /\ ports' = IF desc.added THEN ports \cup {desc.port}
                                                ELSE ports \ {desc.port}
  BY DEF handle_PORT_STATUS
<1>3. peer # 0 => peer \in Conns
  BY ConnectionsAssumption DEF TypeOK, Conns
<1>4. desc \in [port : PortNos, added : BOOLEAN]
  <2>1. q[1] \in Reported
    BY <1>1
  <2>. QED
    BY <1>1, <2>1, Arguments
<1>. HIDE DEF q
<1>5. peer # 0 => ~ Has(toCtl'[peer], "eof")
  BY <1>1, <1>3 DEF PortsFollow, q
<1>6. ASSUME peer # 0, ~ missed'
      PROVE  /\ RepliesLead(con[peer], toCtl'[peer], swPorts)
             /\ entity = peer => Leads(ports', toCtl'[peer], 0, swPorts)
  <2>1. CASE peer = c
    <3>1. /\ RepliesLead(con[c], q, swPorts) /\ Leads(ports, q, 0, swPorts)
          /\ con[c].ups > 0
      BY <1>2, <1>6, <2>1 DEF PortsFollow, q
    <3>2. ~ con[c].waits
      BY <3>1 DEF Handshake, Step, InStep
    <3>3. RepliesLead(con[c], Tail(q), swPorts)
      BY <1>1, <3>1, <3>2, RepliesTail
    <3>4. q[1].arg = desc
      BY DEF q
    <3>5. \A p \in PortNos : /\ About(q[1], p) => (q[1].arg.added <=> p \in ports')
                             /\ ~ About(q[1], p) => (p \in ports <=> p \in ports')
      BY <1>1, <1>2, <1>4, <1>6, <3>4 DEF About
    <3>6. Leads(ports', Tail(q), 0, swPorts)
      BY <1>1, <3>1, <3>5, LeadsTail
    <3>. QED
      BY <1>1, <2>1, <3>3, <3>6
  <2>2. CASE peer # c
    BY <1>1, <1>2, <1>3, <1>6, <2>2 DEF PortsFollow
  <2>. QED
    BY <2>1, <2>2
<1>. QED
  BY <1>1, <1>2, <1>5, <1>6 DEF PortsFollow

LEMMA FollowRead ==
    ASSUME TypeOK, Handshake, PortsFollow, NEW c \in Conns, Read(c)
    PROVE  PortsFollow'
<1>1. ASSUME NEW t, t # "port", Takes(c, t), ConsStay, entity' \in {0, entity},
             UNCHANGED <<ports, missed>>
      PROVE  PortsFollow'
  BY <1>1, TakeFollow, FollowQuiet
<1>2. ASSUME NEW t, t # "port", Takes(c, t), UNCHANGED mainVars \/ Disconnected(c)
      PROVE  PortsFollow'
  <2>1. CASE UNCHANGED mainVars
    BY <1>1, <1>2, <2>1 DEF mainVars, ConsStay
  <2>2. CASE Disconnected(c)
    BY <1>1, <1>2, <2>2, DisconnectedStays
  <2>. QED
    BY <1>2, <2>1, <2>2
<1>3. CASE handle_HELLO(c)
  BY <1>2, <1>3 DEF handle_HELLO, Take
<1>4. CASE handle_ECHO_REQUEST(c)
  BY <1>2, <1>4 DEF handle_ECHO_REQUEST
<1>5. CASE handle_PACKET_IN(c)
  BY <1>1, <1>5 DEF handle_PACKET_IN, ConsStay, Take
<1>6. CASE handle_STATS_REPLY(c)
  <2>1. /\ con' = con \/ con' = [con EXCEPT ![c].stats = StatsLeft(c, toCtl[c][1].arg)]
        /\ Takes(c, "stats") /\ UNCHANGED <<entity, ports, missed>>
    BY <1>6 DEF handle_STATS_REPLY, Take
  <2>2. ConsStay
    <3>1. /\ con[c] \in Con /\ \A d \in Conns \ {c} : con'[d] = con[d]
          /\ \/ con'[c] = con[c]
             \/ con'[c] = [con[c] EXCEPT !.stats = StatsLeft(c, toCtl[c][1].arg)]
      BY <2>1 DEF TypeOK
    <3>2. /\ con'[c].waits = con[c].waits /\ con'[c].ups = con[c].ups
          /\ con'[c].features = con[c].features
      BY <3>1 DEF Con
    <3>. QED
      BY <3>1, <3>2 DEF ConsStay
  <2>. QED
    BY <1>1, <2>1, <2>2
<1>7. CASE Close(c)
  <2>1. /\ con' = [con EXCEPT ![c].state = "closed"] /\ toCtl' = [toCtl EXCEPT ![c] = <<>>]
        /\ UNCHANGED <<entity, ports, missed, peer, swPorts>>
        /\ toCtl[c] # <<>> => Has(toCtl[c], "eof")
    BY <1>7, Values, HasTail DEF Close, peerVars
  <2>2. ConsStay
    <3>1. /\ con[c] \in Con /\ \A d \in Conns \ {c} : con'[d] = con[d]
          /\ con'[c] = [con[c] EXCEPT !.state = "closed"]
      BY <2>1 DEF TypeOK
    <3>2. /\ con'[c].waits = con[c].waits /\ con'[c].ups = con[c].ups
          /\ con'[c].features = con[c].features
      BY <3>1 DEF Con
    <3>. QED
      BY <3>1, <3>2 DEF ConsStay
  <2>3. peer # 0 => peer \in Conns /\ toCtl'[peer] = toCtl[peer]
    <3>1. peer # 0 => peer \in Conns
      BY ConnectionsAssumption DEF TypeOK, Conns
    <3>2. toCtl'[c] = <<>> /\ \A d \in Conns \ {c} : toCtl'[d] = toCtl[d]
      BY <2>1 DEF TypeOK
    <3>3. peer # 0 /\ peer = c => toCtl[c] = <<>>
      BY <2>1 DEF PortsFollow
    <3>. QED
      BY <3>1, <3>2, <3>3
  <2>4. entity # 0 => entity \in Conns
    BY ConnectionsAssumption DEF TypeOK, Conns
  <2>5. entity' # 0 => con'[entity'].ups > 0
    BY <2>1, <2>2, <2>4 DEF PortsFollow, ConsStay
  <2>6. peer # 0 /\ ~ missed => RepliesLead(con'[peer], toCtl'[peer], swPorts)
    BY <2>2, <2>3 DEF PortsFollow, RepliesLead, ConsStay
  <2>. QED
    BY <2>1, <2>3, <2>5, <2>6 DEF PortsFollow
<1>. QED
  BY <1>3, <1>4, <1>5, <1>6, <1>7, FollowFeatures, FollowUp, FollowPort
  DEF Read, handle_BARRIER, handle_ERROR_MSG

\* The other steps of the controller neither read nor connect.
LEMMA FollowSends ==
    ASSUME TypeOK, PortsFollow, NEW c \in Conns, NEW t \in Threads,
           Accept(c) \/ SendBegins(t, c) \/ WriteQueued(c) \/ WriteFails(c)
    PROVE  PortsFollow'
<1>1. ASSUME UNCHANGED <<peer, swPorts, toCtl>>, ConsStay, entity' \in {0, entity},
             UNCHANGED <<ports, missed>>
      PROVE  PortsFollow'
  BY <1>1, FollowQuiet
<1>2. CASE Accept(c)
  <2>1. UNCHANGED <<peer, swPorts, toCtl, entity, ports, missed>>
    BY <1>2 DEF Accept, peerVars
  <2>2. /\ con[c] \in Con /\ \A d \in Conns \ {c} : con'[d] = con[d]
        /\ \/ con'[c] = [con[c] EXCEPT !.state = "open"]
           \/ con'[c] = [con[c] EXCEPT !.state = "open", !.disconnected = TRUE]
    BY <1>2, Values DEF Accept, TypeOK
  <2>3. /\ con'[c].waits = con[c].waits /\ con'[c].ups = con[c].ups
        /\ con'[c].features = con[c].features
    BY <2>2 DEF Con
  <2>. QED
    BY <1>1, <2>1, <2>2, <2>3 DEF ConsStay
<1>3. CASE SendBegins(t, c)
  BY <1>1, <1>3 DEF SendBegins, mainVars, peerVars, ConsStay
<1>4. CASE WriteQueued(c)
  BY <1>1, <1>4 DEF WriteQueued, mainVars, peerVars, ConsStay
<1>5. CASE WriteFails(c)
  BY <1>1, <1>5, DisconnectedStays DEF WriteFails, peerVars
<1>. QED
  BY <1>2, <1>3, <1>4, <1>5

LEMMA FollowOther ==
    ASSUME TypeOK, PortsFollow,
           \/ \E t \in Threads : SendEnds(t)
           \/ Snapshot \/ SelectRaises \/ SelectTimesOut \/ UNCHANGED vars
    PROVE  PortsFollow'
<1>1. ASSUME UNCHANGED <<peer, swPorts, toCtl>>, UNCHANGED <<con, entity, ports, missed>>
      PROVE  PortsFollow'
  BY <1>1, FollowQuiet DEF ConsStay
<1>2. ASSUME UNCHANGED <<peer, swPorts, toCtl>>, NEW c \in Conns, Disconnected(c)
      PROVE  PortsFollow'
  BY <1>2, DisconnectedStays, FollowQuiet
<1>3. ASSUME NEW t \in Threads, SendEnds(t) PROVE PortsFollow'
  BY <1>1, <1>2, <1>3, SendLeaves
<1>4. CASE Snapshot \/ SelectRaises \/ SelectTimesOut \/ UNCHANGED vars
  BY <1>1, <1>4 DEF Snapshot, SelectRaises, SelectTimesOut, mainVars, peerVars, vars
<1>. QED
  BY <1>3, <1>4

\* The switch reports something: no port is concerned, or the one that changed.
LEMMA FollowReport ==
    ASSUME TypeOK, Handshake, PortsFollow, peer # 0, UNCHANGED <<mainVars, peer>>,
           NEW u \in Seq(Reported), Report(peer, u), ~ Has(u, "eof"),
           \A i \in 1 .. Len(u) : u[i].type = "features" => i = Len(u) /\ u[i].arg = swPorts',
           \A q \in Seq(Reported) : \A B : \A n \in 0 .. Len(q) :
             Leads(B, q, n, swPorts) => Leads(B, q \o u, n, swPorts')
    PROVE  PortsFollow'
<1>1. peer \in Conns
  BY ConnectionsAssumption DEF TypeOK, Conns
<1>2. /\ toCtl'[peer] = toCtl[peer] \o u /\ toCtl[peer] \in Seq(Reported)
      /\ 0 \in 0 .. Len(toCtl[peer])
  BY <1>1 DEF Report, TypeOK
<1>3. UNCHANGED <<con, entity, ports, missed>>
  BY DEF mainVars
<1>4. ~ Has(toCtl'[peer], "eof")
  BY <1>2, HasConcat DEF PortsFollow
<1>5. ASSUME ~ missed PROVE RepliesLead(con[peer], toCtl[peer] \o u, swPorts')
  <2>1. RepliesLead(con[peer], toCtl[peer], swPorts)
    BY <1>5 DEF PortsFollow
  <2>2. \A B : \A n \in 0 .. Len(toCtl[peer]) :
          Leads(B, toCtl[peer], n, swPorts) => Leads(B, toCtl[peer] \o u, n, swPorts')
    BY <1>2
  <2>. QED
    BY <1>2, <2>1, <2>2, RepliesConcat
<1>6. ASSUME ~ missed, entity = peer PROVE Leads(ports, toCtl[peer] \o u, 0, swPorts')
  BY <1>2, <1>6 DEF PortsFollow
<1>. QED
  BY <1>2, <1>3, <1>4, <1>5, <1>6 DEF PortsFollow

\* A connection that the switch has not made is not up and waits for nothing.
LEMMA UnmadeQuiet ==
    ASSUME TypeOK, Handshake, NEW c \in Conns, c > made
    PROVE  ~ con[c].waits /\ con[c].ups = 0 /\ toCtl[c] = <<>>
<1>1. /\ InStep(con[c], toCtl[c], wire[c] \o queue[c], wire[c], taken[c])
      /\ wire[c] = <<>> /\ toCtl[c] = <<>>
  BY DEF Handshake, Step
<1>2. taken[c] \in Nat /\ taken[c] <= Len(wire[c]) /\ Len(wire[c]) = 0 /\ con[c].ups \in Nat
  BY <1>1, Values DEF InStep, Con
<1>3. ~ Before(wire[c], taken[c], "features")
  BY <1>2 DEF Before
<1>. QED
  BY <1>1, <1>2, <1>3 DEF InStep

LEMMA FollowConnects ==
    ASSUME TypeOK, Handshake, PortsFollow, PeerConnects
    PROVE  PortsFollow'
<1>. DEFINE c == made + 1
<1>1. c \in Conns /\ c > made /\ peer' = c /\ UNCHANGED mainVars
  BY ConnectionsAssumption DEF PeerConnects, Conns, TypeOK
<1>2. Report(c, <<Msg("hello", 0)>>)
  BY DEF PeerConnects
<1>. HIDE DEF c
<1>3. ~ con[c].waits /\ con[c].ups = 0 /\ toCtl[c] = <<>>
  BY <1>1, UnmadeQuiet
<1>4. toCtl'[c] = <<Msg("hello", 0)>>
  BY <1>1, <1>2, <1>3 DEF Report, TypeOK
<1>5. \A t : Has(<<Msg("hello", 0)>>, t) => t = "hello"
  BY HasOne DEF Msg
<1>6. RepliesLead(con[c], <<Msg("hello", 0)>>, swPorts')
  <2>1. \A i \in 1 .. Len(<<Msg("hello", 0)>>) : <<Msg("hello", 0)>>[i].type # "features"
    BY <1>5 DEF Has
  <2>. QED
    BY <1>3, <2>1 DEF RepliesLead
<1>7. entity # c
  <2>1. c # 0
    BY <1>1 DEF Conns
  <2>. QED
    BY <1>3, <2>1 DEF PortsFollow
<1>8. ~ Has(toCtl'[c], "eof")
  BY <1>4, <1>5
<1>. QED
  BY <1>1, <1>4, <1>6, <1>7, <1>8 DEF PortsFollow, mainVars

LEMMA FollowPeer ==
    ASSUME TypeOK, Handshake, PortsFollow,
           PeerConnects \/ PeerLeaves \/ PeerAnswers \/ PeerReports
    PROVE  PortsFollow'
<1>1. CASE PeerLeaves
  BY <1>1 DEF PeerLeaves, PortsFollow, mainVars
<1>2. ASSUME peer # 0, UNCHANGED <<mainVars, peer, swPorts>>,
             NEW t, NEW x, Msg(t, x) \in Reported, Report(peer, <<Msg(t, x)>>),
             t \notin {"eof", "port"}, t = "features" => x = swPorts
      PROVE  PortsFollow'
  <2>1. PICK m \in Reported : m = Msg(t, x) /\ m.type = t /\ m.arg = x
    BY <1>2 DEF Msg
  <2>2. <<m>> \in Seq(Reported) /\ Len(<<m>>) = 1 /\ <<m>>[1] = m
    BY <2>1
  <2>3. ~ Has(<<m>>, "eof")
    BY <1>2, <2>1, HasOne
  <2>4. \A i \in 1 .. Len(<<m>>) : i = 1 /\ <<m>>[i] = m /\ <<m>>[i].type # "port"
    BY <1>2, <2>1, <2>2
  <2>5. \A q \in Seq(Reported) : \A B : \A n \in 0 .. Len(q) :
          Leads(B, q, n, swPorts) => Leads(B, q \o <<m>>, n, swPorts')
    <3>1. swPorts' = swPorts /\ \A j \in 1 .. Len(<<m>>) : <<m>>[j].type # "port"
      BY <1>2, <2>4
    <3>2. PICK u \in Seq(Reported) : u = <<m>>
      BY <2>2
    <3>3. \A q \in Seq(Reported) : \A B : \A n \in 0 .. Len(q) :
            Leads(B, q, n, swPorts) => Leads(B, q \o u, n, swPorts)
      <4>1. \A j \in 1 .. Len(u) : u[j].type # "port"
        BY <3>1, <3>2
      <4>. QED
        BY ONLY u \in Seq(Reported), <4>1, LeadsConcat
    <3>. QED
      BY <3>1, <3>2, <3>3
  <2>6. \A i \in 1 .. Len(<<m>>) :
          <<m>>[i].type = "features" => i = Len(<<m>>) /\ <<m>>[i].arg = swPorts'
    BY <1>2, <2>1, <2>2, <2>4
  <2>7. Report(peer, <<m>>) /\ swPorts' = swPorts
    BY <1>2, <2>1
  <2>8. UNCHANGED <<mainVars, peer>> /\ peer # 0
    BY <1>2
  <2>. QED
    BY <2>2, <2>3, <2>5, <2>6, <2>7, <2>8, FollowReport
<1>3. CASE PeerAnswers
  <2>1. PICK i \in taken[peer] + 1 .. Len(wire[peer]) :
          /\ wire[peer][i].type \in {"features", "barrier"}
          /\ \E t \in Answers(wire[peer][i].type) : Report(peer, <<Msg(t, swPorts)>>)
    BY <1>3 DEF PeerAnswers
  <2>2. PICK t \in Answers(wire[peer][i].type) : Report(peer, <<Msg(t, swPorts)>>)
    BY <2>1
  <2>3. t \in {"features", "barrier", "refused"}
    BY <2>1, <2>2 DEF Answers
  <2>4. Msg(t, swPorts) \in Reported
    BY <2>3, Messages DEF TypeOK
  <2>5. peer # 0 /\ UNCHANGED <<mainVars, peer, swPorts>>
    BY <1>3 DEF PeerAnswers
  <2>. QED
    BY <1>2, <2>2, <2>3, <2>4, <2>5
<1>4. CASE PeerReports
  <2>1. peer # 0 /\ news + 1 \in Nat /\ UNCHANGED <<mainVars, peer>>
    BY <1>4 DEF PeerReports, TypeOK
  <2>2. ASSUME NEW o \in PortNos,
               swPorts' = IF o \in swPorts THEN swPorts \ {o} ELSE swPorts \cup {o},
               Report(peer, <<Msg("port", [port |-> o, added |-> o \notin swPorts])>>)
        PROVE  PortsFollow'
    <3>1. (o \notin swPorts) \in BOOLEAN
      OBVIOUS
    <3>2. Msg("port", [port |-> o, added |-> o \notin swPorts]) \in Reported
      BY <3>1, Messages
    <3>3. PICK m \in Reported :
            /\ m = Msg("port", [port |-> o, added |-> o \notin swPorts])
            /\ m.type = "port" /\ m.arg.port = o /\ (m.arg.added <=> o \notin swPorts)
      BY <3>2 DEF Msg
    <3>4. /\ <<m>> \in Seq(Reported) /\ Len(<<m>>) = 1
          /\ \A i \in 1 .. Len(<<m>>) : <<m>>[i] = m
      BY <3>3
    <3>5. ~ Has(<<m>>, "eof")
      BY <3>3, HasOne
    <3>6. /\ m.arg.added <=> o \in swPorts'
          /\ \A p \in PortNos \ {o} : p \in swPorts <=> p \in swPorts'
      BY <2>2, <3>3
    <3>7. \A q \in Seq(Reported) : \A B : \A n \in 0 .. Len(q) :
            Leads(B, q, n, swPorts) => Leads(B, q \o <<m>>, n, swPorts')
      BY <3>3, <3>6, LeadsChange
    <3>8. \A i \in 1 .. Len(<<m>>) : <<m>>[i].type # "features"
      BY <3>3, <3>4
    <3>. QED
      BY <2>1, <2>2, <3>3, <3>4, <3>5, <3>7, <3>8, FollowReport
  <2>3. ASSUME Report(peer, [i \in 1..2 |->
                              Msg("stats", [xid |-> news + 1, part |-> i, more |-> i = 1])]),
               UNCHANGED swPorts
        PROVE  PortsFollow'
    <3>. DEFINE f == [i \in 1..2 |-> Msg("stats", [xid |-> news + 1, part |-> i, more |-> i = 1])]
    <3>1. \A i \in 1 .. 2 : [xid |-> news + 1, part |-> i, more |-> i = 1] \in Part
      BY <2>1 DEF Part
    <3>2. \A i \in 1 .. 2 :
            Msg("stats", [xid |-> news + 1, part |-> i, more |-> i = 1]) \in Reported
      BY <3>1, Messages
    <3>3. f \in [1..2 -> Reported]
      BY <3>2, Zenon
    <3>4. \A i \in 1..2 : f[i].type = "stats"
      BY DEF Msg
    <3>. HIDE DEF f
    <3>5. f \in Seq(Reported) /\ f = <<f[1], f[2]>>
      BY <3>3, PairOf
    <3>6. Len(f) = 2
      BY <3>5
    <3>7. \A i \in 1 .. Len(f) : f[i].type = "stats"
      BY <3>4, <3>6
    <3>8. ~ Has(f, "eof")
      BY <3>7 DEF Has
    <3>9. \A q \in Seq(Reported) : \A B : \A n \in 0 .. Len(q) :
            Leads(B, q, n, swPorts) => Leads(B, q \o f, n, swPorts')
      BY <2>3, <3>5, <3>7, LeadsConcat
    <3>10. Report(peer, f)
      BY <2>3 DEF f
    <3>. QED
      BY <2>1, <3>5, <3>7, <3>8, <3>9, <3>10, FollowReport
  <2>4. ASSUME NEW t \in {"packet_in", "echo"}, UNCHANGED swPorts,
               Report(peer, <<Msg(t, [xid |-> news + 1, part |-> 1, more |-> FALSE])>>)
        PROVE  PortsFollow'
    <3>1. [xid |-> news + 1, part |-> 1, more |-> FALSE] \in Part
      BY <2>1 DEF Part
    <3>2. Msg(t, [xid |-> news + 1, part |-> 1, more |-> FALSE]) \in Reported
      BY <3>1, Messages
    <3>. QED
      BY <1>2, <2>1, <2>4, <3>2
  <2>. QED
    BY <1>4, <2>2, <2>3, <2>4 DEF PeerReports
<1>. QED
  BY <1>1, <1>3, <1>4, FollowConnects

\* Once all that the switch said on its connection has been read, and no change
\* was missed, the ports of the topology's switch are its ports: each features
\* reply or table of ports leads to them by the changes still under way
\* (_handle_con_PortStatus and _setConnection of openflow/topology.py).
THEOREM PortsAlwaysKnown == Spec => []PortsKnown
<1>1. Init => PortsFollow
  BY DEF Init, PortsFollow
<1>2. TypeOK /\ Handshake /\ PortsFollow /\ [Next]_vars => PortsFollow'
  BY FollowRead, FollowSends, FollowOther, FollowPeer DEF Next, Threads
<1>3. TypeOK /\ PortsFollow => PortsKnown
  <2>1. SUFFICES ASSUME TypeOK, PortsFollow, peer # 0, entity = peer, toCtl[peer] = <<>>, ~ missed
                 PROVE  ports = swPorts
    BY DEF PortsKnown
  <2>2. <<>> \in Seq(PortNos)
    OBVIOUS
  <2>3. \A p \in PortNos : Agrees(p, ports, <<>>, 0, swPorts)
    BY <2>1 DEF PortsFollow, Leads
  <2>4. \A p \in PortNos : p \in ports <=> p \in swPorts
    BY <2>2, <2>3, AgreesAtEnd
  <2>. QED
    BY <2>1, <2>4 DEF TypeOK
<1>. QED
  BY <1>1, <1>2, <1>3, Ordering, HandshakeKept, PTL DEF Spec
=============================================================================
