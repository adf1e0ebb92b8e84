-------------------------- MODULE VnsSessionProofs --------------------------
(***************************************************************************)
(* Theorems about VnsSession, for every set of sessions, whichever of them *)
(* have a key file, whatever their routing tables and the ports of the     *)
(* switch, and every number of packets and of connections of the switch.   *)
(***************************************************************************)
EXTENDS VnsSession, TLAPS

-----------------------------------------------------------------------------
(* What reading from and writing to a queue does to its messages.          *)

\* Appending x adds its type and keeps what was there.
LEMMA AppendHolds ==
    ASSUME NEW S, NEW q \in Seq(S), NEW x \in S
    PROVE  /\ Append(q, x) \in Seq(S)
           /\ \A m : Holds(m, Append(q, x)) <=> Holds(m, q) \/ m = x.type
           /\ \A m : AtMostOnce(m, q) /\ (m = x.type => ~Holds(m, q)) =>
                        AtMostOnce(m, Append(q, x))
<1>1. /\ Append(q, x) \in Seq(S) /\ Len(q) \in Nat /\ DOMAIN q = 1 .. Len(q)
      /\ DOMAIN Append(q, x) = 1 .. Len(q) + 1
      /\ \A i \in 1 .. Len(q) : Append(q, x)[i] = q[i]
      /\ Append(q, x)[Len(q) + 1] = x
  OBVIOUS
<1>2. \A m : Holds(m, Append(q, x)) <=> Holds(m, q) \/ m = x.type
  BY <1>1 DEF Holds
<1>3. \A m : AtMostOnce(m, q) /\ (m = x.type => ~Holds(m, q)) =>
                AtMostOnce(m, Append(q, x))
  BY <1>1 DEF Holds, AtMostOnce
<1>. QED
  BY <1>1, <1>2, <1>3

\* Taking the head leaves the rest, and no second copy of a message that was
\* there once.
LEMMA TailHolds ==
    ASSUME NEW S, NEW q \in Seq(S), q # <<>>
    PROVE  /\ Tail(q) \in Seq(S) /\ Head(q) \in S /\ Holds(Head(q).type, q)
           /\ \A m : Holds(m, q) <=> Holds(m, Tail(q)) \/ m = Head(q).type
           /\ \A m : AtMostOnce(m, q) => AtMostOnce(m, Tail(q))
           /\ AtMostOnce(Head(q).type, q) => ~Holds(Head(q).type, Tail(q))
<1>1. /\ Tail(q) \in Seq(S) /\ Len(q) \in Nat \ {0} /\ DOMAIN q = 1 .. Len(q)
      /\ DOMAIN Tail(q) = 1 .. Len(q) - 1
      /\ \A i \in 1 .. Len(q) - 1 : Tail(q)[i] = q[i + 1]
      /\ Head(q) = q[1] /\ Head(q) \in S
  OBVIOUS
<1>2. \A m : Holds(m, q) <=> Holds(m, Tail(q)) \/ m = Head(q).type
  <2>1. ASSUME NEW m, Holds(m, q), m # Head(q).type PROVE Holds(m, Tail(q))
    <3>1. PICK i \in 1 .. Len(q) : q[i].type = m
      BY <1>1, <2>1 DEF Holds
    <3>2. i - 1 \in 1 .. Len(q) - 1 /\ Tail(q)[i - 1].type = m
      BY <1>1, <2>1, <3>1
    <3>. QED
      BY <1>1, <3>2 DEF Holds
  <2>2. ASSUME NEW m, Holds(m, Tail(q)) PROVE Holds(m, q)
    BY <1>1, <2>2 DEF Holds
  <2>3. Holds(Head(q).type, q)
    BY <1>1 DEF Holds
  <2>. QED
    BY <2>1, <2>2, <2>3
<1>3. \A m : AtMostOnce(m, q) => AtMostOnce(m, Tail(q))
  BY <1>1 DEF AtMostOnce
<1>4. AtMostOnce(Head(q).type, q) => ~Holds(Head(q).type, Tail(q))
  BY <1>1 DEF Holds, AtMostOnce
<1>. QED
  BY <1>1, <1>2, <1>3, <1>4

-----------------------------------------------------------------------------
(* Type correctness.                                                       *)

\* The types of the sequences that begin empty and grow at the end.
LEMMA EmptyType == \A S : <<>> \in Seq(S)
  OBVIOUS
LEMMA AppendType ==
    \A S : \A q \in Seq(S) : \A x \in S :
       /\ Append(q, x) \in Seq(S) /\ Append(q, x) # <<>>
       /\ Len(Append(q, x)) = Len(q) + 1 /\ Len(q) \in Nat
  OBVIOUS

\* The messages that are made have the types of the queues.
LEMMA MessageTypes ==
    /\ \A m \in {"auth_request", "auth_status", "packet"} :
          /\ Plain(m) \in SrMessage /\ Plain(m).type = m
          /\ Plain(m).about = {}
    /\ \A m \in {"auth_reply", "open", "packet"} :
          Plain(m) \in PoxMessage /\ Plain(m).type = m
    /\ \A names \in SUBSET Interface :
          /\ Hwinfo(names) \in SrMessage /\ Hwinfo(names).type = "hwinfo"
          /\ Hwinfo(names).about = names
    /\ \A name \in Interface, size \in {"short", "whole", "long"} :
          /\ Packet(name, size) \in SrMessage /\ Packet(name, size).type = "packet"
          /\ Packet(name, size).about = {name}
  BY DEF Plain, Hwinfo, Packet, SrMessage, PoxMessage, Message

\* Init puts every variable into its type.
LEMMA TypeInit == Init => TypeOK
<1>1. SUFFICES ASSUME Init PROVE TypeOK
  OBVIOUS
<1>2. ToSet(srclients) = {} /\ DOMAIN srclients = {} /\ srclients \in Seq(Session)
  BY <1>1 DEF Init, ToSet
<1>3. /\ pc \in [Session -> Handshake \cup Ended \cup {"off", "main"}]
      /\ if_list \in [Session -> SUBSET Interface]
      /\ srv \in [Session -> {"none", "connecting", "listed", "open", "lost"}]
      /\ {s \in Session : srv[s] \in {"listed", "open", "lost"}} = {}
  BY <1>1 DEF Init
<1>4. /\ toSr \in [Session -> Seq(SrMessage)]
      /\ toPox \in [Session -> Seq(PoxMessage)]
  <2>1. <<>> \in Seq(SrMessage) /\ <<>> \in Seq(PoxMessage)
    BY EmptyType, Zenon
  <2>. QED
    BY <1>1, <2>1, Zenon DEF Init
<1>5. /\ Len(ofhandlers) <= MaxSwitch
      /\ walk \in 0 .. Len(srclients) + 1
      /\ packets \in 0 .. MaxPackets
  BY <1>1, BoundAssumption DEF Init
<1>6. /\ ofhandlers \in Seq(BOOLEAN)
      /\ interfaces \subseteq Interface /\ ports \subseteq Interface
      /\ down \in BOOLEAN
  <2>1. <<>> \in Seq(BOOLEAN)
    BY EmptyType, Zenon
  <2>. QED
    BY <1>1, <2>1, Zenon DEF Init
<1>7. message \in SrMessage /\ message.type = "packet"
  BY <1>1, MessageTypes DEF Init
<1>. QED
  BY <1>2, <1>3, <1>4, <1>5, <1>6, <1>7, Zenon DEF TypeOK

\* Writing to a connection and reading from it keep the types of the queues.
LEMMA QueueTypes ==
    ASSUME TypeOK, NEW s \in Session
    PROVE  /\ \A m \in SrMessage : ToSr(s, m) =>
                 toSr' \in [Session -> Seq(SrMessage)]
           /\ \A m \in SrMessage : Deliver(s, m) =>
                 toSr' \in [Session -> Seq(SrMessage)]
           /\ \A m \in PoxMessage : ToPox(s, m) =>
                 toPox' \in [Session -> Seq(PoxMessage)]
           /\ \A m : OnMessage(s, m) =>
                 toPox' \in [Session -> Seq(PoxMessage)]
<1>1. /\ toSr \in [Session -> Seq(SrMessage)] /\ toSr[s] \in Seq(SrMessage)
      /\ toPox \in [Session -> Seq(PoxMessage)]
      /\ toPox[s] \in Seq(PoxMessage)
  BY DEF TypeOK
<1>2. \A m \in SrMessage : ToSr(s, m) => toSr' \in [Session -> Seq(SrMessage)]
  BY <1>1 DEF ToSr
<1>3. \A m \in SrMessage : Deliver(s, m) => toSr' \in [Session -> Seq(SrMessage)]
  BY <1>1, <1>2 DEF Deliver
<1>4. \A m \in PoxMessage : ToPox(s, m) =>
         toPox' \in [Session -> Seq(PoxMessage)]
  BY <1>1 DEF ToPox
<1>5. \A m : OnMessage(s, m) =>
         toPox' \in [Session -> Seq(PoxMessage)]
  BY <1>1 DEF OnMessage
<1>. QED
  BY <1>2, <1>3, <1>4, <1>5

\* So do taking the next message and ending.
LEMMA TakingTypes ==
    ASSUME TypeOK, NEW s \in Session
    PROVE  /\ \A type : \A to \in {"expect_auth_status", "main"} :
                 Comes(s, type) /\ GoesOn(s, to) =>
                   /\ toSr' \in [Session -> Seq(SrMessage)]
                   /\ pc' \in [Session -> Handshake \cup Ended
                                             \cup {"off", "main"}]
           /\ \A how \in Ended : Ends(s, how) =>
                 /\ toSr' \in [Session -> Seq(SrMessage)]
                 /\ pc' \in [Session -> Handshake \cup Ended \cup {"off", "main"}]
<1>1. /\ toSr \in [Session -> Seq(SrMessage)] /\ toSr[s] \in Seq(SrMessage)
      /\ pc \in [Session -> Handshake \cup Ended \cup {"off", "main"}]
  BY DEF TypeOK
<1>2. <<>> \in Seq(SrMessage)
  BY EmptyType, Zenon
<1>3. ASSUME NEW type, NEW to \in {"expect_auth_status", "main"}, Comes(s, type),
             GoesOn(s, to)
      PROVE  /\ toSr' \in [Session -> Seq(SrMessage)]
             /\ pc' \in [Session -> Handshake \cup Ended \cup {"off", "main"}]
  <2>1. toSr[s] # <<>> /\ Tail(toSr[s]) \in Seq(SrMessage)
    BY <1>1, <1>3 DEF Comes
  <2>. QED
    BY <1>1, <1>3, <2>1 DEF GoesOn, Handshake
<1>4. ASSUME NEW how \in Ended, Ends(s, how)
      PROVE  /\ toSr' \in [Session -> Seq(SrMessage)]
             /\ pc' \in [Session -> Handshake \cup Ended \cup {"off", "main"}]
  BY <1>1, <1>2, <1>4 DEF Ends
<1>. QED
  BY <1>3, <1>4

\* What a step of sr leaves of the types when it has changed pc, the queues and
\* the list of interfaces only.
LEMMA TypeKept ==
    ASSUME TypeOK, UNCHANGED <<srv, srclients, pox>>,
           pc' \in [Session -> Handshake \cup Ended \cup {"off", "main"}],
           if_list' \in [Session -> SUBSET Interface],
           toSr' \in [Session -> Seq(SrMessage)],
           toPox' \in [Session -> Seq(PoxMessage)]
    PROVE  TypeOK'
  BY DEF TypeOK, pox

\* The steps of sr keep the types.
LEMMA TypeSr ==
    ASSUME TypeOK, TakingTurns, NEW s \in Session,
           Connect(s) \/ Read(s) \/ Spin(s) \/ Kill(s)
    PROVE  TypeOK'
<1>0. /\ pc \in [Session -> Handshake \cup Ended \cup {"off", "main"}]
      /\ if_list \in [Session -> SUBSET Interface]
      /\ toSr \in [Session -> Seq(SrMessage)]
      /\ toPox \in [Session -> Seq(PoxMessage)]
  BY DEF TypeOK
<1>e. {"failed", "aborted", "exited", "killed"} \subseteq Ended
  BY DEF Ended
<1>1. CASE Connect(s)
  <2>1. srv[s] = "none"
    BY <1>1 DEF Connect, TakingTurns, InTurn
  <2>2. {x \in Session : srv'[x] \in {"listed", "open", "lost"}}
          = {x \in Session : srv[x] \in {"listed", "open", "lost"}}
    BY <1>1, <2>1 DEF Connect, TypeOK
  <2>. QED
    BY <1>1, <2>2 DEF Connect, TypeOK, pox, Handshake
<1>2. CASE ReadAuthRequest(s)
  <2>1. toPox' \in [Session -> Seq(PoxMessage)]
    BY <1>0, <1>2, QueueTypes, MessageTypes DEF ReadAuthRequest
  <2>. QED
    BY <1>0, <1>e, <1>2, <2>1, TakingTypes, TypeKept DEF ReadAuthRequest
<1>3. CASE ReadAuthStatus(s)
  <2>1. toPox' \in [Session -> Seq(PoxMessage)]
    BY <1>0, <1>3, QueueTypes, MessageTypes DEF ReadAuthStatus
  <2>. QED
    BY <1>0, <1>3, <2>1, TakingTypes, TypeKept DEF ReadAuthStatus
<1>4. CASE ReadUnexpected(s)
  BY <1>0, <1>e, <1>4, TakingTypes, TypeKept DEF ReadUnexpected
<1>5. CASE ReadHwinfo(s)
  <2>1. Head(toSr[s]) \in SrMessage
    BY <1>0, <1>5 DEF ReadHwinfo, Comes
  <2>2. Head(toSr[s]).about \subseteq Interface
    BY <2>1 DEF SrMessage, Message
  <2>3. if_list' \in [Session -> SUBSET Interface]
    BY <1>0, <1>5, <2>2 DEF ReadHwinfo
  <2>. QED
    BY <1>0, <1>e, <1>5, <2>3, TakingTypes, TypeKept DEF ReadHwinfo
<1>6. ASSUME NEW reply \in BOOLEAN, ReadPacket(s, reply) PROVE TypeOK'
  <2>1. toPox' \in [Session -> Seq(PoxMessage)]
    BY <1>0, <1>6, QueueTypes, MessageTypes DEF ReadPacket
  <2>. QED
    BY <1>0, <1>e, <1>6, <2>1, TakingTypes, TypeKept DEF ReadPacket
<1>7. CASE ReadTooLong(s)
  BY <1>0, <1>e, <1>7, TakingTypes, TypeKept DEF ReadTooLong
<1>8. CASE Spin(s)
  BY <1>8 DEF Spin, vars, pox, TypeOK
<1>9. CASE Kill(s)
  BY <1>0, <1>e, <1>9, TakingTypes, TypeKept DEF Kill
<1>. QED
  BY <1>1, <1>2, <1>3, <1>4, <1>5, <1>6, <1>7, <1>8, <1>9 DEF Read

\* The steps of the reactor keep the types: a client that is listed is listed
\* once.
LEMMA TypeReactor ==
    ASSUME TypeOK, NEW s \in Session, Reactor(s) PROVE TypeOK'
<1>. USE DEF pox
<1>1. CASE NewClient(s)
  <2>1. srclients \in Seq(Session) /\ srclients' = Append(srclients, s)
    BY <1>1 DEF NewClient, TypeOK
  <2>2. /\ srclients' \in Seq(Session)
        /\ Len(srclients) \in Nat /\ Len(srclients') = Len(srclients) + 1
        /\ DOMAIN srclients = 1 .. Len(srclients)
        /\ DOMAIN srclients' = 1 .. Len(srclients) + 1
        /\ \A i \in 1 .. Len(srclients) : srclients'[i] = srclients[i]
        /\ srclients'[Len(srclients) + 1] = s
    BY <2>1
  <2>3. \A i \in DOMAIN srclients : srclients[i] # s
    <3>1. s \notin ToSet(srclients)
      BY <1>1 DEF NewClient, TypeOK
    <3>. QED
      BY <3>1 DEF ToSet
  <2>4. \A i, j \in DOMAIN srclients' : srclients'[i] = srclients'[j] => i = j
    <3>1. \A i, j \in 1 .. Len(srclients) : srclients[i] = srclients[j] => i = j
      BY <2>2 DEF TypeOK
    <3>. QED
      BY <2>2, <2>3, <3>1
  <2>5. ToSet(srclients') = ToSet(srclients) \cup {s}
    <3>1. \A x : x \in ToSet(srclients) <=>
                    \E i \in 1 .. Len(srclients) : x = srclients[i]
      BY <2>2 DEF ToSet
    <3>2. \A x : x \in ToSet(srclients') <=>
                    \E i \in 1 .. Len(srclients) + 1 : x = srclients'[i]
      BY <2>2 DEF ToSet
    <3>. QED
      BY <2>2, <3>1, <3>2
  <2>6. {x \in Session : srv'[x] \in {"listed", "open", "lost"}}
          = {x \in Session : srv[x] \in {"listed", "open", "lost"}} \cup {s}
    BY <1>1 DEF NewClient, TypeOK
  <2>7. ToSet(srclients') =
          {x \in Session : srv'[x] \in {"listed", "open", "lost"}}
    BY <2>5, <2>6 DEF TypeOK
  <2>8. walk' \in 0 .. Len(srclients') + 1
    BY <1>1, <2>2 DEF NewClient, TypeOK
  <2>9. srv' \in [Session -> {"none", "connecting", "listed", "open", "lost"}]
    BY <1>1 DEF NewClient, TypeOK
  <2>. QED
    BY <1>1, <2>2, <2>4, <2>7, <2>8, <2>9 DEF NewClient, TypeOK
<1>2. ASSUME NEW to \in {"open", "lost"}, srv[s] \in {"listed", "open"},
             srv' = [srv EXCEPT ![s] = to]
      PROVE  {x \in Session : srv'[x] \in {"listed", "open", "lost"}}
               = {x \in Session : srv[x] \in {"listed", "open", "lost"}}
  BY <1>2 DEF TypeOK
<1>3. CASE SendAuthRequest(s)
  <2>1. toSr' \in [Session -> Seq(SrMessage)]
    BY <1>3, QueueTypes, MessageTypes DEF SendAuthRequest
  <2>2. /\ {x \in Session : srv'[x] \in {"listed", "open", "lost"}}
             = {x \in Session : srv[x] \in {"listed", "open", "lost"}}
        /\ srv' \in [Session -> {"none", "connecting", "listed", "open", "lost"}]
    BY <1>2, <1>3 DEF SendAuthRequest, TypeOK
  <2>. QED
    BY <1>3, <2>1, <2>2 DEF SendAuthRequest, TypeOK
<1>4. CASE HandleAuthReply(s)
  <2>1. toSr' \in [Session -> Seq(SrMessage)]
    BY <1>4, QueueTypes, MessageTypes DEF HandleAuthReply
  <2>. QED
    BY <1>4, <2>1, QueueTypes DEF HandleAuthReply, TypeOK
<1>5. CASE HandleOpen(s)
  <2>1. toSr' \in [Session -> Seq(SrMessage)]
    BY <1>5, QueueTypes, MessageTypes DEF HandleOpen, TypeOK
  <2>. QED
    BY <1>5, <2>1, QueueTypes DEF HandleOpen, TypeOK
<1>6. CASE HandlePacket(s)
  BY <1>6, QueueTypes DEF HandlePacket, TypeOK
<1>7. CASE Disconnected(s)
  <2>1. /\ {x \in Session : srv'[x] \in {"listed", "open", "lost"}}
             = {x \in Session : srv[x] \in {"listed", "open", "lost"}}
        /\ srv' \in [Session -> {"none", "connecting", "listed", "open", "lost"}]
    BY <1>2, <1>7 DEF Disconnected, TypeOK
  <2>. QED
    BY <1>7, <2>1 DEF Disconnected, TypeOK
<1>. QED
  BY <1>1, <1>3, <1>4, <1>5, <1>6, <1>7 DEF Reactor

\* The steps of POX's own thread keep the types; broadcast stays within the
\* list although the reactor appends to it.
LEMMA TypePox ==
    ASSUME TypeOK,
           SwitchConnects \/ SwitchLeaves \/ PacketIn \/ BroadcastStep \/ GoingDown
    PROVE  TypeOK'
<1>0. ofhandlers \in Seq(BOOLEAN) /\ Len(srclients) \in Nat
  BY DEF TypeOK
<1>1. CASE SwitchConnects
  <2>1. /\ ofhandlers' = Append(ofhandlers, TRUE)
        /\ interfaces' \subseteq Interface /\ ports' \subseteq Interface
        /\ Len(ofhandlers) < MaxSwitch /\ toSr' = toSr
    BY <1>1, ConfigAssumption DEF SwitchConnects, OFHandler, RouterInfo, TypeOK
  <2>2. /\ ofhandlers' \in Seq(BOOLEAN) /\ Len(ofhandlers') <= MaxSwitch
        /\ ofhandlers' # <<>>
    <3>1. /\ ofhandlers' \in Seq(BOOLEAN) /\ ofhandlers' # <<>>
          /\ Len(ofhandlers') = Len(ofhandlers) + 1 /\ Len(ofhandlers) \in Nat
      <4>1. ofhandlers \in Seq(BOOLEAN) /\ TRUE \in BOOLEAN
        BY <1>0
      <4>2. /\ Append(ofhandlers, TRUE) \in Seq(BOOLEAN)
            /\ Append(ofhandlers, TRUE) # <<>>
            /\ Len(Append(ofhandlers, TRUE)) = Len(ofhandlers) + 1
            /\ Len(ofhandlers) \in Nat
        BY <4>1, AppendType
      <4>. QED
        BY <2>1, <4>2
    <3>2. Len(ofhandlers) < MaxSwitch
      BY <2>1, Zenon
    <3>3. /\ Len(ofhandlers') = Len(ofhandlers) + 1
          /\ Len(ofhandlers) \in Nat
      BY <3>1, Zenon
    <3>4. Len(ofhandlers') <= MaxSwitch
      BY <3>2, <3>3, BoundAssumption
    <3>. QED
      BY <3>1, <3>4, Zenon
  <2>. QED
    BY <1>1, <2>1, <2>2 DEF SwitchConnects, TypeOK
<1>2. CASE SwitchLeaves
  <2>1. PICK i \in DOMAIN ofhandlers : ofhandlers' = [ofhandlers EXCEPT ![i] = FALSE]
    BY <1>2 DEF SwitchLeaves
  <2>2. /\ ofhandlers' \in Seq(BOOLEAN) /\ Len(ofhandlers') = Len(ofhandlers)
        /\ ofhandlers # <<>> /\ ofhandlers' # <<>>
    BY <1>0, <2>1
  <2>. QED
    BY <1>2, <2>2 DEF SwitchLeaves, TypeOK
<1>3. CASE PacketIn
  <2>1. /\ walk' \in 0 .. Len(srclients) + 1
        /\ message' \in SrMessage /\ message'.type = "packet"
    BY <1>0, <1>3, MessageTypes DEF PacketIn, SRPacketIn, TypeOK
  <2>2. packets' \in 0 .. MaxPackets
    BY <1>3, BoundAssumption DEF PacketIn, TypeOK
  <2>. QED
    BY <1>3, <2>1, <2>2 DEF PacketIn, TypeOK
<1>4. CASE BroadcastStep
  <2>1. CASE walk <= Len(srclients)
    <3>1. walk \in 1 .. Len(srclients) /\ srclients[walk] \in Session
      BY <1>0, <1>4, <2>1 DEF BroadcastStep, TypeOK
    <3>2. toSr' \in [Session -> Seq(SrMessage)]
      BY <1>4, <2>1, <3>1, QueueTypes DEF BroadcastStep, TypeOK
    <3>3. /\ walk' \in 0 .. Len(srclients) + 1
          /\ message' \in SrMessage /\ message'.type = "packet"
      BY <1>0, <1>4, <2>1, <3>1 DEF BroadcastStep, TypeOK
    <3>. QED
      BY <1>4, <3>2, <3>3 DEF BroadcastStep, TypeOK
  <2>2. CASE ~(walk <= Len(srclients))
    <3>1. /\ walk' \in 0 .. Len(srclients) + 1 /\ toSr' = toSr
          /\ message' \in SrMessage /\ message'.type = "packet"
      BY <1>0, <1>4, <2>2, MessageTypes DEF BroadcastStep
    <3>. QED
      BY <1>4, <3>1 DEF BroadcastStep, TypeOK
  <2>. QED
    BY <2>1, <2>2
<1>5. CASE GoingDown
  BY <1>5 DEF GoingDown, TypeOK
<1>. QED
  BY <1>1, <1>2, <1>3, <1>4, <1>5

\* Every step keeps the types.
LEMMA TypeStep == ASSUME TypeOK, TakingTurns, [Next]_vars PROVE TypeOK'
<1>1. CASE UNCHANGED vars
  BY <1>1 DEF vars, pox, TypeOK
<1>. QED
  BY <1>1, TypeSr, TypeReactor, TypePox DEF Next

-----------------------------------------------------------------------------
(* The two sides take turns.                                               *)

ToSrStart == {"auth_request", "auth_status", "hwinfo"}
ToPoxStart == {"auth_reply", "open"}

\* A step that leaves session s alone.
Same(s) == /\ pc'[s] = pc[s] /\ if_list'[s] = if_list[s] /\ srv'[s] = srv[s]
           /\ toSr'[s] = toSr[s] /\ toPox'[s] = toPox[s]

\* A step that brings nothing new into the start of session s: nothing becomes
\* outstanding and the process goes on as it was or ends.
NothingNew(s) ==
    /\ \A m \in ToSrStart : /\ Holds(m, toSr'[s]) => Holds(m, toSr[s])
                            /\ AtMostOnce(m, toSr[s]) => AtMostOnce(m, toSr'[s])
    /\ \A m \in ToPoxStart : /\ Holds(m, toPox'[s]) => Holds(m, toPox[s])
                             /\ AtMostOnce(m, toPox[s]) =>
                                  AtMostOnce(m, toPox'[s])
    /\ if_list'[s] = if_list[s]
    /\ pc'[s] = pc[s] \/ (pc[s] # "off" /\ pc'[s] \in Ended)
    /\ \/ srv'[s] = srv[s]
       \/ srv[s] \in {"connecting", "listed"} /\ srv'[s] = "listed"
       \/ srv[s] \in {"open", "lost"} /\ srv'[s] \in {"open", "lost"}

\* What is outstanding, message by message.
LEMMA OutstandingIs ==
    \A s : /\ \A m \in ToSrStart : m \in Outstanding(s) <=> Holds(m, toSr[s])
           /\ \A m \in ToPoxStart : m \in Outstanding(s) <=> Holds(m, toPox[s])
           /\ "interfaces" \in Outstanding(s) <=> if_list[s] # {}
           /\ Outstanding(s) \subseteq ToSrStart \cup ToPoxStart \cup {"interfaces"}
  BY DEF Outstanding, ToSrStart, ToPoxStart
LEMMA OutstandingNext ==
    (\A s : /\ \A m \in ToSrStart : m \in Outstanding(s) <=> Holds(m, toSr[s])
            /\ \A m \in ToPoxStart : m \in Outstanding(s) <=> Holds(m, toPox[s])
            /\ "interfaces" \in Outstanding(s) <=> if_list[s] # {}
            /\ Outstanding(s) \subseteq
                  ToSrStart \cup ToPoxStart \cup {"interfaces"})'
  BY OutstandingIs, PTL

\* A session that is left alone stays in turn.
LEMMA SameIsNothingNew == ASSUME NEW s, Same(s) PROVE NothingNew(s)
  BY DEF Same, NothingNew

\* So does one to which nothing new comes.
LEMMA NothingNewStep ==
    ASSUME NEW s \in Session, InTurn(s), NothingNew(s) PROVE InTurn(s)'
<1>1. Outstanding(s)' \subseteq Outstanding(s)
  <2>1. ASSUME NEW m \in ToSrStart, m \in Outstanding(s)' PROVE m \in Outstanding(s)
    BY <2>1, OutstandingIs, OutstandingNext DEF NothingNew
  <2>2. ASSUME NEW m \in ToPoxStart, m \in Outstanding(s)'
        PROVE  m \in Outstanding(s)
    BY <2>2, OutstandingIs, OutstandingNext DEF NothingNew
  <2>3. "interfaces" \in Outstanding(s)' => "interfaces" \in Outstanding(s)
    BY OutstandingIs, OutstandingNext DEF NothingNew
  <2>. QED
    BY <2>1, <2>2, <2>3, OutstandingNext
<1>2. /\ \A m \in ToSrStart : AtMostOnce(m, toSr'[s])
      /\ \A m \in ToPoxStart : AtMostOnce(m, toPox'[s])
  BY DEF InTurn, NothingNew, ToSrStart, ToPoxStart
<1>. QED
  BY <1>1, <1>2 DEF InTurn, NothingNew, ToSrStart, ToPoxStart, Ended

\* A step that hands the turn on: what was outstanding is replaced by one thing
\* that the process and the connection, as they are now, may wait for.
LEMMA HandedOn ==
    ASSUME NEW s \in Session, NEW new, Outstanding(s)' \subseteq {new},
           \A m \in ToSrStart : AtMostOnce(m, toSr'[s]),
           \A m \in ToPoxStart : AtMostOnce(m, toPox'[s]),
           srv'[s] \in {"open", "lost"}, pc'[s] # "off",
           pc'[s] = "expect_auth_request" => new = "auth_request",
           pc'[s] = "expect_auth_status" => new \in {"auth_reply", "auth_status"},
           pc'[s] = "main" => new \in {"open", "hwinfo", "interfaces"}
    PROVE  InTurn(s)'
  BY DEF InTurn, ToSrStart, ToPoxStart

\* The processes and the bridge touch one session at a time.
LEMMA OneSession ==
    ASSUME TypeOK, NEW s \in Session, NEW x \in Session, x # s,
           Connect(s) \/ Read(s) \/ Spin(s) \/ Kill(s) \/ Reactor(s)
    PROVE  Same(x)
<1>0. /\ pc \in [Session -> Handshake \cup Ended \cup {"off", "main"}]
      /\ DOMAIN if_list = Session /\ DOMAIN toSr = Session
      /\ DOMAIN toPox = Session
      /\ srv \in [Session -> {"none", "connecting", "listed", "open", "lost"}]
  BY DEF TypeOK
<1>. USE DEF Same, pox
<1>. USE DEF GoesOn, Ends
<1>1. CASE Connect(s) \/ Spin(s) \/ Kill(s)
  BY <1>0, <1>1 DEF Connect, Spin, Kill, vars
<1>2. CASE ReadAuthRequest(s)
  BY <1>0, <1>2 DEF ReadAuthRequest, ToPox
<1>3. CASE ReadAuthStatus(s)
  BY <1>0, <1>3 DEF ReadAuthStatus, ToPox
<1>4. CASE ReadUnexpected(s) \/ ReadTooLong(s)
  BY <1>0, <1>4 DEF ReadUnexpected, ReadTooLong
<1>5. CASE ReadHwinfo(s)
  BY <1>0, <1>5 DEF ReadHwinfo
<1>6. ASSUME NEW reply \in BOOLEAN, ReadPacket(s, reply) PROVE Same(x)
  BY <1>0, <1>6 DEF ReadPacket, ToPox
<1>7. CASE NewClient(s) \/ SendAuthRequest(s) \/ Disconnected(s)
  BY <1>0, <1>7 DEF NewClient, SendAuthRequest, Disconnected, ToSr
<1>8. CASE HandleAuthReply(s)
  BY <1>0, <1>8 DEF HandleAuthReply, OnMessage, Deliver, ToSr
<1>9. CASE HandleOpen(s)
  BY <1>0, <1>9 DEF HandleOpen, OnMessage, Deliver, ToSr
<1>10. CASE HandlePacket(s)
  BY <1>0, <1>10 DEF HandlePacket, OnMessage
<1>. QED
  BY <1>1, <1>2, <1>3, <1>4, <1>5, <1>6, <1>7, <1>8, <1>9, <1>10
  DEF Read, Reactor

\* Taking a message, and losing what was unread, only remove from the queue.
LEMMA TakeFacts ==
    ASSUME TypeOK, NEW s \in Session, NEW m, Comes(s, m),
           toSr'[s] = Tail(toSr[s]) \/ toSr'[s] = <<>>
    PROVE  /\ Holds(m, toSr[s])
           /\ \A n : Holds(n, toSr'[s]) => Holds(n, toSr[s])
           /\ \A n : AtMostOnce(n, toSr[s]) => AtMostOnce(n, toSr'[s])
           /\ AtMostOnce(m, toSr[s]) => ~Holds(m, toSr'[s])
<1>1. /\ toSr[s] \in Seq(SrMessage) /\ toSr[s] # <<>> /\ Head(toSr[s]).type = m
  BY DEF TypeOK, Comes
<1>2. /\ Holds(Head(toSr[s]).type, toSr[s])
      /\ \A n : Holds(n, toSr[s]) <=>
                   Holds(n, Tail(toSr[s])) \/ n = Head(toSr[s]).type
      /\ \A n : AtMostOnce(n, toSr[s]) => AtMostOnce(n, Tail(toSr[s]))
      /\ AtMostOnce(Head(toSr[s]).type, toSr[s]) =>
            ~Holds(Head(toSr[s]).type, Tail(toSr[s]))
  BY <1>1, TailHolds
<1>3. \A n : ~Holds(n, <<>>) /\ AtMostOnce(n, <<>>)
  BY DEF Holds, AtMostOnce
<1>4. CASE toSr'[s] = Tail(toSr[s])
  BY <1>1, <1>2, <1>4
<1>5. CASE toSr'[s] = <<>>
  BY <1>1, <1>2, <1>3, <1>5
<1>. QED
  BY <1>4, <1>5

\* What GoesOn and Ends do to their session.
LEMMA TakeIs ==
    ASSUME TypeOK, NEW s \in Session
    PROVE  /\ \A to : GoesOn(s, to) => pc'[s] = to /\ toSr'[s] = Tail(toSr[s])
           /\ \A how : Ends(s, how) => pc'[s] = how /\ toSr'[s] = <<>>
  BY DEF TypeOK, GoesOn, Ends

LEMMA OnMessageFacts ==
    ASSUME TypeOK, NEW s \in Session, NEW m, OnMessage(s, m)
    PROVE  /\ Holds(m, toPox[s])
           /\ \A n : Holds(n, toPox'[s]) => Holds(n, toPox[s])
           /\ \A n : AtMostOnce(n, toPox[s]) => AtMostOnce(n, toPox'[s])
           /\ AtMostOnce(m, toPox[s]) => ~Holds(m, toPox'[s])
<1>1. /\ toPox[s] \in Seq(PoxMessage)
      /\ toPox[s] # <<>> /\ Head(toPox[s]).type = m
      /\ toPox'[s] = Tail(toPox[s])
  BY DEF TypeOK, OnMessage
<1>2. /\ Holds(Head(toPox[s]).type, toPox[s])
      /\ \A n : Holds(n, toPox[s]) <=>
                   Holds(n, Tail(toPox[s])) \/ n = Head(toPox[s]).type
      /\ \A n : AtMostOnce(n, toPox[s]) => AtMostOnce(n, Tail(toPox[s]))
      /\ AtMostOnce(Head(toPox[s]).type, toPox[s]) =>
            ~Holds(Head(toPox[s]).type, Tail(toPox[s]))
  BY <1>1, TailHolds
<1>. QED
  BY <1>1, <1>2

\* Writing one puts it there and nothing else.
LEMMA ToSrFacts ==
    ASSUME TypeOK, NEW s \in Session, NEW m \in SrMessage, ToSr(s, m)
    PROVE  /\ \A n : Holds(n, toSr'[s]) <=> Holds(n, toSr[s]) \/ n = m.type
           /\ \A n : AtMostOnce(n, toSr[s]) /\ (n = m.type => ~Holds(n, toSr[s])) =>
                        AtMostOnce(n, toSr'[s])
<1>1. toSr[s] \in Seq(SrMessage) /\ toSr'[s] = Append(toSr[s], m)
  BY DEF TypeOK, ToSr
<1>2. /\ \A n : Holds(n, Append(toSr[s], m)) <=> Holds(n, toSr[s]) \/ n = m.type
      /\ \A n : AtMostOnce(n, toSr[s]) /\ (n = m.type => ~Holds(n, toSr[s])) =>
                   AtMostOnce(n, Append(toSr[s], m))
  BY <1>1, AppendHolds
<1>. QED
  BY <1>1, <1>2

LEMMA ToPoxFacts ==
    ASSUME TypeOK, NEW s \in Session, NEW m \in PoxMessage,
           ToPox(s, m)
    PROVE  /\ \A n : Holds(n, toPox'[s]) <=> Holds(n, toPox[s]) \/ n = m.type
           /\ \A n : AtMostOnce(n, toPox[s]) /\ (n = m.type => ~Holds(n, toPox[s])) =>
                        AtMostOnce(n, toPox'[s])
<1>1. /\ toPox[s] \in Seq(PoxMessage)
      /\ toPox'[s] = Append(toPox[s], m)
  BY DEF TypeOK, ToPox
<1>2. /\ \A n : Holds(n, Append(toPox[s], m)) <=> Holds(n, toPox[s]) \/ n = m.type
      /\ \A n : AtMostOnce(n, toPox[s]) /\ (n = m.type => ~Holds(n, toPox[s])) =>
                   AtMostOnce(n, Append(toPox[s], m))
  BY <1>1, AppendHolds
<1>. QED
  BY <1>1, <1>2

\* A message at most once, in the words of TakingTurns.
LEMMA OnceEach ==
    ASSUME NEW s \in Session, InTurn(s)
    PROVE  /\ \A m \in ToSrStart : AtMostOnce(m, toSr[s])
           /\ \A m \in ToPoxStart : AtMostOnce(m, toPox[s])
  BY DEF InTurn, ToSrStart, ToPoxStart

\* A session that ends has nothing new to do.
LEMMA EndNothingNew ==
    ASSUME TypeOK, NEW s \in Session, NEW how \in Ended, Ends(s, how),
           pc[s] # "off", if_list'[s] = if_list[s], srv'[s] = srv[s],
           toPox' = toPox \/ ToPox(s, Plain("packet"))
    PROVE  NothingNew(s)
<1>1. pc'[s] = how /\ toSr'[s] = <<>>
  BY TakeIs
<1>2. \A n : ~Holds(n, toSr'[s]) /\ AtMostOnce(n, toSr'[s])
  BY <1>1 DEF Holds, AtMostOnce
<1>3. \A m \in ToPoxStart : /\ Holds(m, toPox'[s]) => Holds(m, toPox[s])
                            /\ AtMostOnce(m, toPox[s]) =>
                                 AtMostOnce(m, toPox'[s])
  BY ToPoxFacts, MessageTypes DEF ToPoxStart
<1>. QED
  BY <1>1, <1>2, <1>3 DEF NothingNew

\* Each step of sr keeps its session in turn.
LEMMA TurnSr ==
    ASSUME TypeOK, NEW s \in Session, InTurn(s),
           Connect(s) \/ Read(s) \/ Spin(s) \/ Kill(s)
    PROVE  InTurn(s)'
<1>. USE DEF pox
<1>0. /\ \A m, n \in Outstanding(s) : m = n
      /\ \A m \in Outstanding(s) : srv[s] \in {"open", "lost"}
  BY DEF InTurn, TypeOK
<1>1. CASE Connect(s)
  <2>1. /\ Outstanding(s) = {} /\ pc'[s] = "expect_auth_request"
        /\ srv'[s] = "connecting"
    BY <1>1 DEF Connect, InTurn, TypeOK
  <2>2. /\ toSr' = toSr /\ toPox' = toPox /\ if_list' = if_list
    BY <1>1 DEF Connect
  <2>3. Outstanding(s)' = Outstanding(s)
    BY <2>2 DEF Outstanding
  <2>. QED
    BY <2>1, <2>2, <2>3, OnceEach DEF InTurn, ToSrStart, ToPoxStart
<1>2. ASSUME NEW old \in ToSrStart, NEW new \in ToPoxStart,
             Comes(s, old), ToPox(s, Plain(new)), if_list' = if_list, srv' = srv,
             \/ GoesOn(s, "expect_auth_status") /\ new = "auth_reply"
             \/ GoesOn(s, "main") /\ new = "open"
      PROVE  InTurn(s)'
  <2>0. /\ toSr'[s] = Tail(toSr[s])
        /\ \/ pc'[s] = "expect_auth_status" /\ new = "auth_reply"
           \/ pc'[s] = "main" /\ new = "open"
        /\ Plain(new) \in PoxMessage /\ Plain(new).type = new
    BY <1>2, TakeIs, MessageTypes
  <2>1. old \in Outstanding(s)
    BY <1>2, <2>0, TakeFacts, OutstandingIs
  <2>2. old # new /\ old # "interfaces"
    BY <1>2 DEF ToSrStart, ToPoxStart
  <2>3. Outstanding(s)' \subseteq {new}
    <3>1. ASSUME NEW m \in ToSrStart, m \in Outstanding(s)' PROVE FALSE
      <4>1. Holds(m, toSr'[s])
        BY <3>1, OutstandingNext
      <4>2. m \in Outstanding(s)
        BY <1>2, <3>1, <4>1, <2>0, TakeFacts, OutstandingIs
      <4>3. m = old
        BY <1>0, <2>1, <4>2
      <4>. QED
        BY <1>2, <4>1, <4>3, OnceEach, <2>0, TakeFacts
    <3>2. ASSUME NEW m \in ToPoxStart, m \in Outstanding(s)' PROVE m = new
      <4>1. Holds(m, toPox[s]) \/ m = new
        BY <1>2, <2>0, <3>2, OutstandingNext, ToPoxFacts
      <4>2. Holds(m, toPox[s]) => m \in Outstanding(s)
        BY <3>2, OutstandingIs
      <4>3. m # old
        BY <1>2, <3>2 DEF ToSrStart, ToPoxStart
      <4>. QED
        BY <1>0, <2>1, <4>1, <4>2, <4>3
    <3>3. "interfaces" \notin Outstanding(s)'
      BY <1>0, <1>2, <2>1, <2>2, OutstandingIs, OutstandingNext
    <3>. QED
      BY <3>1, <3>2, <3>3, OutstandingNext
  <2>4. \A m \in ToSrStart : AtMostOnce(m, toSr'[s])
    BY <1>2, OnceEach, <2>0, TakeFacts
  <2>5. \A m \in ToPoxStart : AtMostOnce(m, toPox'[s])
    <3>1. ~Holds(new, toPox[s])
      BY <1>0, <1>2, <2>1, <2>2, OutstandingIs
    <3>. QED
      BY <1>2, <2>0, <3>1, OnceEach, ToPoxFacts
  <2>6. srv'[s] \in {"open", "lost"}
    BY <1>0, <1>2, <2>1
  <2>. QED
    BY <2>0, <2>3, <2>4, <2>5, <2>6, HandedOn
<1>3. CASE ReadAuthRequest(s) \/ ReadAuthStatus(s)
  <2>1. CASE ReadAuthRequest(s) /\ s \notin KeyFile
    <3>1. NothingNew(s)
      BY <2>1, EndNothingNew DEF ReadAuthRequest, Ended
    <3>. QED
      BY <3>1, NothingNewStep
  <2>2. CASE ReadAuthRequest(s) /\ s \in KeyFile
    BY <1>2, <2>2 DEF ReadAuthRequest, ToSrStart, ToPoxStart
  <2>3. CASE ReadAuthStatus(s)
    BY <1>2, <2>3 DEF ReadAuthStatus, ToSrStart, ToPoxStart
  <2>. QED
    BY <1>3, <2>1, <2>2, <2>3
<1>4. CASE ReadUnexpected(s) \/ ReadTooLong(s) \/ Kill(s)
  <2>1. NothingNew(s)
    BY <1>4, EndNothingNew
    DEF ReadUnexpected, ReadTooLong, Kill, Reading, Ended, Handshake
  <2>. QED
    BY <2>1, NothingNewStep
<1>5. CASE ReadHwinfo(s)
  <2>1. /\ Comes(s, "hwinfo") /\ srv' = srv /\ toPox' = toPox
        /\ toSr'[s] = Tail(toSr[s]) \/ toSr'[s] = <<>>
        /\ pc'[s] \in {"main", "exited"}
    BY <1>5, TakeIs DEF ReadHwinfo
  <2>2. "hwinfo" \in Outstanding(s)
    BY <2>1, TakeFacts, OutstandingIs DEF ToSrStart
  <2>3. Outstanding(s)' \subseteq {"interfaces"}
    <3>1. ASSUME NEW m \in ToSrStart, m \in Outstanding(s)' PROVE FALSE
      <4>1. Holds(m, toSr'[s])
        BY <3>1, OutstandingNext
      <4>2. m \in Outstanding(s)
        BY <2>1, <3>1, <4>1, TakeFacts, OutstandingIs
      <4>3. m = "hwinfo"
        BY <1>0, <2>2, <4>2
      <4>. QED
        BY <2>1, <3>1, <4>1, <4>3, OnceEach, TakeFacts
    <3>2. ASSUME NEW m \in ToPoxStart, m \in Outstanding(s)' PROVE FALSE
      <4>1. m \in Outstanding(s)
        BY <2>1, <3>2, OutstandingNext, OutstandingIs
      <4>. QED
        BY <1>0, <2>2, <3>2, <4>1 DEF ToPoxStart
    <3>. QED
      BY <3>1, <3>2, OutstandingNext
  <2>4. \A m \in ToSrStart : AtMostOnce(m, toSr'[s])
    BY <2>1, OnceEach, TakeFacts
  <2>5. \A m \in ToPoxStart : AtMostOnce(m, toPox'[s])
    BY <2>1, OnceEach
  <2>6. srv'[s] \in {"open", "lost"}
    BY <1>0, <2>1, <2>2
  <2>. QED
    BY <2>1, <2>3, <2>4, <2>5, <2>6, HandedOn
<1>6. ASSUME NEW reply \in BOOLEAN, ReadPacket(s, reply) PROVE InTurn(s)'
  <2>1. /\ Comes(s, "packet") /\ if_list' = if_list /\ srv' = srv
        /\ pc[s] = "main"
        /\ toPox' = toPox \/ ToPox(s, Plain("packet"))
        /\ GoesOn(s, "main") \/ \E how \in Ended : Ends(s, how)
    BY <1>6 DEF ReadPacket, Ended
  <2>2. CASE \E how \in Ended : Ends(s, how)
    <3>1. NothingNew(s)
      BY <2>1, <2>2, EndNothingNew
    <3>. QED
      BY <3>1, NothingNewStep
  <2>3. CASE GoesOn(s, "main")
    <3>1. pc'[s] = pc[s] /\ toSr'[s] = Tail(toSr[s])
      BY <2>1, <2>3, TakeIs
    <3>2. \A m \in ToPoxStart : /\ Holds(m, toPox'[s]) => Holds(m, toPox[s])
                                /\ AtMostOnce(m, toPox[s]) =>
                                     AtMostOnce(m, toPox'[s])
      BY <2>1, ToPoxFacts, MessageTypes DEF ToPoxStart
    <3>3. NothingNew(s)
      BY <2>1, <3>1, <3>2, TakeFacts DEF NothingNew
    <3>. QED
      BY <3>3, NothingNewStep
  <2>. QED
    BY <2>1, <2>2, <2>3
<1>7. CASE Spin(s)
  <2>1. NothingNew(s)
    BY <1>7 DEF Spin, vars, NothingNew
  <2>. QED
    BY <2>1, NothingNewStep
<1>. QED
  BY <1>1, <1>3, <1>4, <1>5, <1>6, <1>7 DEF Read

\* Each step of the reactor keeps its session in turn.
LEMMA TurnReactor ==
    ASSUME TypeOK, NEW s \in Session, InTurn(s), Reactor(s) PROVE InTurn(s)'
<1>. USE DEF pox
<1>0. /\ \A m, n \in Outstanding(s) : m = n
      /\ \A m \in Outstanding(s) : srv[s] \in {"open", "lost"} /\ pc[s] # "off"
  BY DEF InTurn, TypeOK
<1>1. CASE NewClient(s)
  <2>1. NothingNew(s)
    BY <1>1 DEF NewClient, NothingNew, TypeOK
  <2>. QED
    BY <2>1, NothingNewStep
<1>2. CASE SendAuthRequest(s)
  <2>1. /\ ToSr(s, Plain("auth_request")) /\ srv'[s] = "open" /\ Outstanding(s) = {}
        /\ pc' = pc /\ if_list' = if_list /\ toPox' = toPox
        /\ pc[s] \in {"expect_auth_request"} \cup Ended
        /\ Plain("auth_request") \in SrMessage
        /\ Plain("auth_request").type = "auth_request"
    BY <1>2, MessageTypes DEF SendAuthRequest, TypeOK, InTurn
  <2>2. Outstanding(s)' \subseteq {"auth_request"}
    <3>1. ASSUME NEW m \in ToSrStart, m \in Outstanding(s)'
          PROVE  m = "auth_request"
      <4>1. Holds(m, toSr[s]) \/ m = "auth_request"
        BY <2>1, <3>1, OutstandingNext, ToSrFacts
      <4>. QED
        BY <2>1, <3>1, <4>1, OutstandingIs
    <3>2. ASSUME NEW m \in ToPoxStart, m \in Outstanding(s)' PROVE FALSE
      BY <2>1, <3>2, OutstandingNext, OutstandingIs
    <3>3. "interfaces" \notin Outstanding(s)'
      BY <2>1, OutstandingIs, OutstandingNext
    <3>. QED
      BY <3>1, <3>2, <3>3, OutstandingNext
  <2>3. \A m \in ToSrStart : AtMostOnce(m, toSr'[s])
    <3>1. ~Holds("auth_request", toSr[s])
      BY <2>1, OutstandingIs DEF ToSrStart
    <3>. QED
      BY <2>1, <3>1, OnceEach, ToSrFacts
  <2>4. \A m \in ToPoxStart : AtMostOnce(m, toPox'[s])
    BY <2>1, OnceEach
  <2>. QED
    BY <2>1, <2>2, <2>3, <2>4, HandedOn DEF Ended
<1>3. ASSUME NEW old \in ToPoxStart, NEW new \in ToSrStart,
             NEW m0 \in SrMessage, m0.type = new,
             OnMessage(s, old), ToSr(s, m0), if_list' = if_list,
             pc'[s] = pc[s], srv'[s] = srv[s],
             pc[s] = "expect_auth_request" => new = "auth_request",
             pc[s] = "expect_auth_status" => new \in {"auth_reply", "auth_status"},
             pc[s] = "main" => new \in {"open", "hwinfo", "interfaces"}
      PROVE  InTurn(s)'
  <2>1. old \in Outstanding(s)
    BY <1>3, OnMessageFacts, OutstandingIs
  <2>2. Outstanding(s)' \subseteq {new}
    <3>1. ASSUME NEW m \in ToSrStart, m \in Outstanding(s)' PROVE m = new
      <4>1. Holds(m, toSr[s]) \/ m = new
        BY <1>3, <3>1, OutstandingNext, ToSrFacts
      <4>2. Holds(m, toSr[s]) => m \in Outstanding(s)
        BY <3>1, OutstandingIs
      <4>3. m # old
        BY <1>3, <3>1 DEF ToSrStart, ToPoxStart
      <4>. QED
        BY <1>0, <2>1, <4>1, <4>2, <4>3
    <3>2. ASSUME NEW m \in ToPoxStart, m \in Outstanding(s)' PROVE FALSE
      <4>1. Holds(m, toPox'[s])
        BY <3>2, OutstandingNext
      <4>2. m \in Outstanding(s)
        BY <1>3, <3>2, <4>1, OnMessageFacts, OutstandingIs
      <4>3. m = old
        BY <1>0, <2>1, <4>2
      <4>. QED
        BY <1>3, <4>1, <4>3, OnceEach, OnMessageFacts
    <3>3. "interfaces" \notin Outstanding(s)'
      <4>1. old # "interfaces"
        BY <1>3 DEF ToPoxStart
      <4>. QED
        BY <1>0, <1>3, <2>1, <4>1, OutstandingIs, OutstandingNext
    <3>. QED
      BY <3>1, <3>2, <3>3, OutstandingNext
  <2>3. \A m \in ToSrStart : AtMostOnce(m, toSr'[s])
    <3>1. ~Holds(new, toSr[s])
      <4>1. new # old
        BY <1>3 DEF ToSrStart, ToPoxStart
      <4>. QED
        BY <1>0, <1>3, <2>1, <4>1, OutstandingIs
    <3>. QED
      BY <1>3, <3>1, OnceEach, ToSrFacts
  <2>4. \A m \in ToPoxStart : AtMostOnce(m, toPox'[s])
    BY <1>3, OnceEach, OnMessageFacts
  <2>5. srv'[s] \in {"open", "lost"} /\ pc'[s] # "off"
    BY <1>0, <1>3, <2>1
  <2>. QED
    BY <1>3, <2>2, <2>3, <2>4, <2>5, HandedOn
<1>4. ASSUME NEW m, OnMessage(s, m), toSr' = toSr, UNCHANGED <<pc, if_list, srv>>
      PROVE  InTurn(s)'
  <2>1. NothingNew(s)
    BY <1>4, OnMessageFacts DEF NothingNew
  <2>. QED
    BY <2>1, NothingNewStep
<1>5. CASE HandleAuthReply(s)
  <2>1. OnMessage(s, "auth_reply") /\ UNCHANGED <<pc, if_list, srv>>
    BY <1>5 DEF HandleAuthReply
  <2>2. CASE pc[s] \in Ended
    BY <1>4, <1>5, <2>1, <2>2 DEF HandleAuthReply, Deliver
  <2>3. CASE pc[s] \notin Ended
    <3>1. ToSr(s, Plain("auth_status"))
      BY <1>5, <2>3 DEF HandleAuthReply, Deliver
    <3>2. "auth_reply" \in Outstanding(s)
      BY <2>1, OnMessageFacts, OutstandingIs DEF ToPoxStart
    <3>3. pc[s] \notin {"expect_auth_request", "main"}
      BY <3>2 DEF InTurn
    <3>. QED
      BY <1>3, <2>1, <3>1, <3>3, MessageTypes DEF ToPoxStart, ToSrStart
  <2>. QED
    BY <2>2, <2>3
<1>6. CASE HandleOpen(s)
  <2>1. OnMessage(s, "open") /\ UNCHANGED <<pc, if_list, srv>>
    BY <1>6 DEF HandleOpen
  <2>2. CASE pc[s] \in Ended \/ ofhandlers = <<>>
    BY <1>4, <1>6, <2>1, <2>2 DEF HandleOpen, Deliver
  <2>3. CASE pc[s] \notin Ended /\ ofhandlers # <<>>
    <3>1. ToSr(s, Hwinfo(interfaces)) /\ interfaces \in SUBSET Interface
      BY <1>6, <2>3 DEF HandleOpen, Deliver, TypeOK
    <3>2. "open" \in Outstanding(s)
      BY <2>1, OnMessageFacts, OutstandingIs DEF ToPoxStart
    <3>3. pc[s] \notin Handshake
      BY <3>2 DEF InTurn, Handshake
    <3>. QED
      BY <1>3, <2>1, <3>1, <3>3, MessageTypes DEF ToPoxStart, ToSrStart, Handshake
  <2>. QED
    BY <2>2, <2>3
<1>7. CASE HandlePacket(s)
  BY <1>4, <1>7 DEF HandlePacket
<1>8. CASE Disconnected(s)
  <2>1. NothingNew(s)
    BY <1>8 DEF Disconnected, NothingNew, TypeOK
  <2>. QED
    BY <2>1, NothingNewStep
<1>. QED
  BY <1>1, <1>2, <1>5, <1>6, <1>7, <1>8 DEF Reactor

\* POX's own thread brings packets and nothing of the start of a session.
LEMMA TurnPox ==
    ASSUME TypeOK, NEW s \in Session,
           SwitchConnects \/ SwitchLeaves \/ PacketIn \/ BroadcastStep \/ GoingDown
    PROVE  NothingNew(s)
<1>1. /\ UNCHANGED <<pc, if_list, toPox, srv>>
      /\ \/ toSr' = toSr
         \/ \E x \in Session : ToSr(x, message)
  <2>1. CASE BroadcastStep
    <3>1. CASE walk <= Len(srclients)
      <4>1. srclients[walk] \in Session
        BY <2>1, <3>1 DEF BroadcastStep, TypeOK
      <4>. QED
        BY <2>1, <3>1, <4>1 DEF BroadcastStep, Deliver
    <3>2. CASE ~(walk <= Len(srclients))
      BY <2>1, <3>2 DEF BroadcastStep
    <3>. QED
      BY <3>1, <3>2
  <2>. QED
    BY <2>1 DEF SwitchConnects, SwitchLeaves, PacketIn, GoingDown, OFHandler,
                RouterInfo
<1>2. \A m \in ToSrStart : /\ Holds(m, toSr'[s]) => Holds(m, toSr[s])
                           /\ AtMostOnce(m, toSr[s]) => AtMostOnce(m, toSr'[s])
  <2>1. CASE toSr' = toSr
    BY <2>1
  <2>2. ASSUME NEW x \in Session, ToSr(x, message)
        PROVE  \A m \in ToSrStart :
                  /\ Holds(m, toSr'[s]) => Holds(m, toSr[s])
                  /\ AtMostOnce(m, toSr[s]) => AtMostOnce(m, toSr'[s])
    <3>1. CASE x = s
      <4>1. message \in SrMessage /\ message.type = "packet"
        BY DEF TypeOK
      <4>. QED
        BY <2>2, <3>1, <4>1, ToSrFacts DEF ToSrStart
    <3>2. CASE x # s
      BY <2>2, <3>2 DEF ToSr, TypeOK
    <3>. QED
      BY <3>1, <3>2
  <2>. QED
    BY <1>1, <2>1, <2>2
<1>. QED
  BY <1>1, <1>2 DEF NothingNew

\* Every step keeps every session in turn.
LEMMA TurnStep == ASSUME TypeOK, TakingTurns, [Next]_vars PROVE TakingTurns'
<1>1. SUFFICES ASSUME NEW x \in Session PROVE InTurn(x)'
  BY DEF TakingTurns
<1>2. InTurn(x)
  BY DEF TakingTurns
<1>3. ASSUME NEW s \in Session,
             Connect(s) \/ Read(s) \/ Spin(s) \/ Kill(s) \/ Reactor(s)
      PROVE  InTurn(x)'
  <2>1. CASE x = s
    BY <1>2, <1>3, <2>1, TurnSr, TurnReactor
  <2>2. CASE x # s
    BY <1>2, <1>3, <2>2, OneSession, SameIsNothingNew, NothingNewStep
  <2>. QED
    BY <2>1, <2>2
<1>4. CASE SwitchConnects \/ SwitchLeaves \/ PacketIn \/ BroadcastStep
            \/ GoingDown
  BY <1>2, <1>4, TurnPox, NothingNewStep
<1>5. CASE UNCHANGED vars
  <2>1. NothingNew(x)
    BY <1>5 DEF vars, NothingNew
  <2>. QED
    BY <1>2, <2>1, NothingNewStep
<1>. QED
  BY <1>3, <1>4, <1>5 DEF Next

\* Nothing is outstanding at the start.
LEMMA TurnInit == Init => TakingTurns
<1>1. SUFFICES ASSUME Init, NEW s \in Session PROVE InTurn(s)
  BY DEF TakingTurns
<1>2. /\ pc[s] = "off" /\ srv[s] = "none" /\ if_list[s] = {}
      /\ toSr[s] = <<>> /\ toPox[s] = <<>>
  BY <1>1 DEF Init
<1>3. \A m : /\ ~Holds(m, toSr[s]) /\ ~Holds(m, toPox[s])
             /\ AtMostOnce(m, toSr[s]) /\ AtMostOnce(m, toPox[s])
  BY <1>2 DEF Holds, AtMostOnce
<1>4. Outstanding(s) = {}
  BY <1>2, <1>3 DEF Outstanding
<1>. QED
  BY <1>2, <1>3, <1>4 DEF InTurn

-----------------------------------------------------------------------------
(* The invariant.                                                          *)

\* HwinfoOnce is what taking turns means for the interfaces.
LEMMA TurnsMeanOnce == TakingTurns => HwinfoOnce
<1>1. SUFFICES ASSUME NEW s \in Session, InTurn(s)
               PROVE  /\ AtMostOnce("hwinfo", toSr[s])
                      /\ AtMostOnce("open", toPox[s])
                      /\ Holds("hwinfo", toSr[s]) => if_list[s] = {}
                      /\ Holds("open", toPox[s]) =>
                            if_list[s] = {} /\ ~Holds("hwinfo", toSr[s])
                      /\ pc[s] \in Handshake =>
                            /\ if_list[s] = {} /\ ~Holds("hwinfo", toSr[s])
                            /\ ~Holds("open", toPox[s])
  BY DEF TakingTurns, HwinfoOnce
<1>2. /\ "hwinfo" \in Outstanding(s) <=> Holds("hwinfo", toSr[s])
      /\ "open" \in Outstanding(s) <=> Holds("open", toPox[s])
      /\ "interfaces" \in Outstanding(s) <=> if_list[s] # {}
  BY OutstandingIs DEF ToSrStart, ToPoxStart
<1>. QED
  BY <1>1, <1>2 DEF InTurn, Handshake

\* Without traffic there is no packet for sr, and the start meets only what it
\* expects.
LEMMA QuietStep ==
    ASSUME TypeOK, TakingTurns, QuietSessionsSucceed, [Next]_vars
    PROVE  QuietSessionsSucceed'
<1>1. SUFFICES ASSUME packets' = 0 PROVE QuietSessionsSucceed'
  BY DEF QuietSessionsSucceed
<1>2. packets = 0 /\ ~PacketIn
  BY <1>1 DEF Next, vars, pox, Connect, Read, Spin, Kill, Reactor,
     ReadAuthRequest, ReadAuthStatus, ReadUnexpected, ReadHwinfo, ReadPacket,
     ReadTooLong, NewClient, SendAuthRequest, HandleAuthReply, HandleOpen, HandlePacket,
     Disconnected, SwitchConnects, SwitchLeaves, PacketIn, BroadcastStep,
     GoingDown, TypeOK
<1>3. /\ walk = 0
      /\ \A s \in KeyFile : pc[s] \notin {"failed", "aborted"}
      /\ \A s \in Session : ~Holds("packet", toSr[s])
  BY <1>2 DEF QuietSessionsSucceed
<1>4. ~BroadcastStep /\ walk' = 0
  BY <1>2, <1>3 DEF Next, vars, pox, Connect, Read, Spin, Kill, Reactor,
     ReadAuthRequest, ReadAuthStatus, ReadUnexpected, ReadHwinfo, ReadPacket,
     ReadTooLong, NewClient, SendAuthRequest, HandleAuthReply, HandleOpen, HandlePacket,
     Disconnected, SwitchConnects, SwitchLeaves, BroadcastStep, GoingDown
<1>. DEFINE Good(x) == /\ ~Holds("packet", toSr'[x])
                       /\ x \in KeyFile => pc'[x] \notin {"failed", "aborted"}
<1>5. ASSUME NEW s \in Session, Connect(s) \/ Read(s) \/ Spin(s) \/ Kill(s)
      PROVE  Good(s)
  <2>0. ~Holds("packet", toSr[s]) /\ InTurn(s)
    BY <1>3 DEF TakingTurns
  <2>. USE DEF pox
  <2>1. ASSUME NEW how, Ends(s, how), s \in KeyFile => how \notin {"failed", "aborted"}
        PROVE  Good(s)
    BY <2>1, TakeIs DEF Holds
  <2>2. ASSUME NEW m, NEW to \in {"expect_auth_status", "main"}, Comes(s, m),
               GoesOn(s, to)
        PROVE  Good(s)
    BY <2>0, <2>2, TakeIs, TakeFacts
  <2>3. CASE Connect(s) \/ Spin(s)
    BY <1>3, <2>0, <2>3 DEF Connect, Spin, vars, TypeOK
  <2>4. CASE ReadAuthRequest(s)
    BY <2>1, <2>2, <2>4 DEF ReadAuthRequest
  <2>5. CASE ReadAuthStatus(s)
    BY <2>2, <2>5 DEF ReadAuthStatus
  <2>6. CASE ReadHwinfo(s)
    BY <2>1, <2>2, <2>6 DEF ReadHwinfo
  <2>7. CASE ReadTooLong(s) \/ Kill(s)
    BY <2>1, <2>7 DEF ReadTooLong, Kill
  <2>8. ASSUME NEW reply \in BOOLEAN, ReadPacket(s, reply) PROVE FALSE
    <3>1. Comes(s, "packet") /\ toSr[s] \in Seq(SrMessage)
      BY <2>8 DEF ReadPacket, TypeOK
    <3>. QED
      BY <2>0, <3>1, TailHolds DEF Comes
  <2>9. CASE ReadUnexpected(s)
    <3>1. toSr[s] \in Seq(SrMessage) /\ toSr[s] # <<>> /\ pc[s] \in Handshake
      BY <2>9 DEF ReadUnexpected, TypeOK
    <3>2. Head(toSr[s]) \in SrMessage /\ Holds(Head(toSr[s]).type, toSr[s])
      BY <3>1, TailHolds
    <3>3. Head(toSr[s]).type \in ToSrStart
      BY <2>0, <3>2 DEF SrMessage, Message, ToSrStart
    <3>4. Head(toSr[s]).type \in Outstanding(s)
      BY <3>2, <3>3, OutstandingIs
    <3>. QED
      BY <2>0, <2>9, <3>3, <3>4 DEF ReadUnexpected, InTurn, Handshake, ToSrStart
  <2>. QED
    BY <1>5, <2>3, <2>4, <2>5, <2>6, <2>7, <2>8, <2>9 DEF Read
<1>6. ASSUME NEW s \in Session, Reactor(s) PROVE Good(s)
  <2>1. pc' = pc
    BY <1>6 DEF Reactor, NewClient, SendAuthRequest, HandleAuthReply, HandleOpen,
                HandlePacket, Disconnected
  <2>2. \/ toSr' = toSr
        \/ \E m \in SrMessage : ToSr(s, m) /\ m.type # "packet"
    BY <1>6, MessageTypes
    DEF Reactor, NewClient, SendAuthRequest, HandleAuthReply, HandleOpen,
        HandlePacket, Disconnected, Deliver, TypeOK
  <2>3. ASSUME NEW m \in SrMessage, ToSr(s, m), m.type # "packet"
        PROVE  ~Holds("packet", toSr'[s])
    BY <1>3, <2>3, ToSrFacts
  <2>. QED
    BY <1>3, <2>1, <2>2, <2>3
<1>7. ASSUME NEW x \in Session, Same(x) PROVE Good(x)
  BY <1>3, <1>7 DEF Same
<1>8. ASSUME NEW x \in Session PROVE Good(x)
  <2>1. CASE SwitchConnects \/ SwitchLeaves \/ GoingDown \/ UNCHANGED vars
    BY <1>7, <2>1 DEF SwitchConnects, SwitchLeaves, GoingDown, OFHandler,
       RouterInfo, vars, Same
  <2>2. ASSUME NEW s \in Session,
               Connect(s) \/ Read(s) \/ Spin(s) \/ Kill(s) \/ Reactor(s)
        PROVE  Good(x)
    BY <1>5, <1>6, <1>7, <2>2, OneSession
  <2>. QED
    BY <1>2, <1>4, <2>1, <2>2 DEF Next
<1>. QED
  BY <1>4, <1>8, ConfigAssumption DEF QuietSessionsSucceed

\* A router without a key never gets past the authentication, and one without
\* a fitting table ends when its interfaces come.
LEMMA SilentStep ==
    ASSUME TypeOK, TakingTurns, MisconfiguredSilent, [Next]_vars
    PROVE  MisconfiguredSilent'
<1>. DEFINE Good(x) ==
              /\ x \notin KeyFile => pc'[x] \notin {"expect_auth_status", "main"}
              /\ pc'[x] = "main" /\ if_list'[x] # {} => Verified(x, if_list'[x])
              /\ Holds("packet", toPox'[x]) =>
                    x \in KeyFile /\ Verified(x, if_list'[x])
<1>1. SUFFICES ASSUME NEW x \in Session PROVE Good(x)
  BY DEF MisconfiguredSilent, Verified
<1>2. /\ InTurn(x)
      /\ x \notin KeyFile => pc[x] \notin {"expect_auth_status", "main"}
      /\ pc[x] = "main" /\ if_list[x] # {} => Verified(x, if_list[x])
      /\ Holds("packet", toPox[x]) => x \in KeyFile /\ Verified(x, if_list[x])
  BY DEF MisconfiguredSilent, TakingTurns
<1>3. CASE Same(x)
  BY <1>2, <1>3 DEF Same
<1>4. CASE Connect(x) \/ Read(x) \/ Spin(x) \/ Kill(x)
  <2>. USE DEF pox
  <2>1. ASSUME NEW how \in Ended, Ends(x, how), toPox' = toPox,
               if_list'[x] = if_list[x]
        PROVE  Good(x)
    BY <1>2, <2>1, TakeIs DEF Ended
  <2>2. CASE Connect(x) \/ Spin(x)
    BY <1>2, <2>2 DEF Connect, Spin, vars, TypeOK
  <2>3. CASE ReadAuthRequest(x)
    <3>1. CASE x \in KeyFile
      <4>1. /\ ToPox(x, Plain("auth_reply")) /\ pc'[x] = "expect_auth_status"
            /\ if_list' = if_list
        BY <2>3, <3>1, TakeIs DEF ReadAuthRequest
      <4>2. Holds("packet", toPox'[x]) => Holds("packet", toPox[x])
        BY <4>1, ToPoxFacts, MessageTypes
      <4>. QED
        BY <1>2, <3>1, <4>1, <4>2
    <3>2. CASE x \notin KeyFile
      BY <2>1, <2>3, <3>2 DEF ReadAuthRequest, Ended
    <3>. QED
      BY <3>1, <3>2
  <2>4. CASE ReadAuthStatus(x)
    <3>1. /\ x \in KeyFile /\ ToPox(x, Plain("open")) /\ if_list' = if_list
          /\ Comes(x, "auth_status") /\ pc'[x] = "main"
          /\ toSr'[x] = Tail(toSr[x])
      BY <1>2, <2>4, TakeIs DEF ReadAuthStatus
    <3>2. if_list[x] = {}
      <4>1. "auth_status" \in Outstanding(x)
        BY <3>1, TakeFacts, OutstandingIs DEF ToSrStart
      <4>2. "interfaces" \notin Outstanding(x)
        BY <1>2, <4>1 DEF InTurn
      <4>. QED
        BY <4>2, OutstandingIs
    <3>3. Holds("packet", toPox'[x]) => Holds("packet", toPox[x])
      BY <3>1, ToPoxFacts, MessageTypes
    <3>. QED
      BY <1>2, <3>1, <3>2, <3>3
  <2>5. CASE ReadHwinfo(x)
    <3>1. /\ pc[x] = "main" /\ Comes(x, "hwinfo") /\ toPox' = toPox
          /\ pc'[x] = "main" => Verified(x, if_list'[x])
          /\ toSr'[x] = Tail(toSr[x]) \/ toSr'[x] = <<>>
      BY <2>5, TakeIs DEF ReadHwinfo
    <3>2. if_list[x] = {}
      <4>1. "hwinfo" \in Outstanding(x)
        BY <3>1, TakeFacts, OutstandingIs DEF ToSrStart
      <4>2. "interfaces" \notin Outstanding(x)
        BY <1>2, <4>1 DEF InTurn
      <4>. QED
        BY <4>2, OutstandingIs
    <3>3. ~Holds("packet", toPox[x])
      BY <1>2, <3>2 DEF Verified
    <3>. QED
      BY <1>2, <3>1, <3>3
  <2>6. ASSUME NEW reply \in BOOLEAN, ReadPacket(x, reply) PROVE Good(x)
    <3>1. pc[x] = "main" /\ if_list' = if_list
      BY <2>6 DEF ReadPacket
    <3>2. CASE Aborts(Head(toSr[x]), if_list[x])
      BY <2>1, <2>6, <3>2 DEF ReadPacket, Ended
    <3>3. CASE ~Aborts(Head(toSr[x]), if_list[x])
      <4>1. x \in KeyFile /\ Verified(x, if_list[x])
        BY <1>2, <3>1, <3>3 DEF Aborts
      <4>. QED
        BY <3>1, <4>1
    <3>. QED
      BY <3>2, <3>3
  <2>7. CASE ReadUnexpected(x) \/ ReadTooLong(x) \/ Kill(x)
    BY <2>1, <2>7 DEF ReadUnexpected, ReadTooLong, Kill, Ended
  <2>. QED
    BY <1>4, <2>2, <2>3, <2>4, <2>5, <2>6, <2>7 DEF Read
<1>5. CASE Reactor(x)
  <2>1. pc' = pc /\ if_list' = if_list
    BY <1>5 DEF pox, Reactor, NewClient, SendAuthRequest, HandleAuthReply,
                HandleOpen, HandlePacket, Disconnected
  <2>2. toPox' = toPox \/ \E m : OnMessage(x, m)
    BY <1>5 DEF Reactor, NewClient, SendAuthRequest, HandleAuthReply,
                HandleOpen, HandlePacket, Disconnected
  <2>. QED
    BY <1>2, <2>1, <2>2, OnMessageFacts
<1>6. CASE SwitchConnects \/ SwitchLeaves \/ PacketIn \/ BroadcastStep
            \/ GoingDown \/ UNCHANGED vars
  <2>1. UNCHANGED <<pc, if_list, toPox>>
    BY <1>6 DEF SwitchConnects, SwitchLeaves, PacketIn, BroadcastStep,
                GoingDown, vars
  <2>. QED
    BY <1>2, <2>1
<1>7. ASSUME NEW s \in Session,
             Connect(s) \/ Read(s) \/ Spin(s) \/ Kill(s) \/ Reactor(s)
      PROVE  Good(x)
  BY <1>2, <1>3, <1>4, <1>5, <1>7, OneSession
<1>. QED
  BY <1>6, <1>7 DEF Next

-----------------------------------------------------------------------------
(* The names in use.                                                       *)

\* The messages in a queue name nothing but known.
Names(q, known) == \A i \in DOMAIN q : q[i].about \subseteq known

\* Reading and writing, and knowing more, keep it.
LEMMA NamesFacts ==
    ASSUME NEW q \in Seq(SrMessage), NEW known, Names(q, known)
    PROVE  /\ \A x \in SrMessage : x.about \subseteq known =>
                  Names(Append(q, x), known)
           /\ q # <<>> => Names(Tail(q), known) /\ Head(q).about \subseteq known
           /\ \A more : known \subseteq more => Names(q, more)
<1>1. ASSUME NEW x \in SrMessage, x.about \subseteq known
      PROVE  Names(Append(q, x), known)
  <2>1. /\ DOMAIN q = 1 .. Len(q) /\ DOMAIN Append(q, x) = 1 .. Len(q) + 1
        /\ \A i \in 1 .. Len(q) : Append(q, x)[i] = q[i]
        /\ Append(q, x)[Len(q) + 1] = x /\ Len(q) \in Nat
    OBVIOUS
  <2>. QED
    BY <1>1, <2>1 DEF Names
<1>2. ASSUME q # <<>>
      PROVE  Names(Tail(q), known) /\ Head(q).about \subseteq known
  <2>1. /\ DOMAIN q = 1 .. Len(q) /\ DOMAIN Tail(q) = 1 .. Len(q) - 1
        /\ \A i \in 1 .. Len(q) - 1 : Tail(q)[i] = q[i + 1]
        /\ Head(q) = q[1] /\ Len(q) \in Nat \ {0}
    BY <1>2
  <2>. QED
    BY <2>1 DEF Names
<1>3. \A more : known \subseteq more => Names(q, more)
  BY DEF Names
<1>. QED
  BY <1>1, <1>2, <1>3

\* What names an interface names one that some switch has announced.
LEMMA NamesStep ==
    ASSUME TypeOK, NamesKnown, [Next]_vars PROVE NamesKnown'
<1>. DEFINE Good(x) == if_list'[x] \subseteq ports' /\ Names(toSr'[x], ports')
<1>0. /\ interfaces \subseteq ports /\ message.about \subseteq ports
      /\ message \in SrMessage
      /\ \A x \in Session : /\ if_list[x] \subseteq ports
                           /\ Names(toSr[x], ports)
                           /\ toSr[x] \in Seq(SrMessage)
  BY DEF NamesKnown, Names, TypeOK
<1>1. ASSUME /\ interfaces' \subseteq ports' /\ message'.about \subseteq ports'
             /\ \A x \in Session : Good(x)
      PROVE  NamesKnown'
  BY <1>1 DEF NamesKnown, Names
<1>2. ASSUME NEW s \in Session, Connect(s) \/ Read(s) \/ Spin(s) \/ Kill(s),
             ports' = ports
      PROVE  Good(s)
  <2>0. /\ Names(<<>>, ports)
        /\ toSr[s] # <<>> => /\ Names(Tail(toSr[s]), ports)
                             /\ Head(toSr[s]).about \subseteq ports
    BY <1>0, NamesFacts DEF Names
  <2>1. CASE if_list' = if_list
    <3>1. \/ toSr'[s] = toSr[s]
          \/ toSr'[s] = <<>>
          \/ toSr'[s] = Tail(toSr[s]) /\ toSr[s] # <<>>
      BY <1>2, TakeIs DEF Connect, Read, Spin, Kill, vars, ReadAuthRequest,
         ReadAuthStatus, ReadUnexpected, ReadHwinfo, ReadPacket, ReadTooLong, Comes
    <3>. QED
      BY <1>0, <1>2, <2>0, <2>1, <3>1
  <2>2. CASE ReadHwinfo(s)
    <3>1. /\ toSr[s] # <<>> /\ toSr'[s] \in {Tail(toSr[s]), <<>>}
          /\ if_list'[s] = if_list[s] \cup Head(toSr[s]).about
      BY <2>2, TakeIs DEF ReadHwinfo, Comes, TypeOK
    <3>. QED
      BY <1>0, <1>2, <2>0, <3>1
  <2>3. if_list' = if_list \/ ReadHwinfo(s)
    BY <1>2 DEF Connect, Read, Spin, Kill, vars, ReadAuthRequest,
       ReadAuthStatus, ReadUnexpected, ReadPacket, ReadTooLong
  <2>. QED
    BY <2>1, <2>2, <2>3
<1>3. ASSUME NEW s \in Session, NEW m \in SrMessage, m.about \subseteq ports,
             ToSr(s, m) \/ toSr' = toSr, if_list' = if_list, ports' = ports
      PROVE  \A x \in Session : Good(x)
  <2>1. Names(Append(toSr[s], m), ports)
    BY <1>0, <1>3, NamesFacts
  <2>2. \A x \in Session : \/ toSr'[x] = toSr[x]
                           \/ x = s /\ toSr'[x] = Append(toSr[s], m)
    BY <1>3 DEF ToSr, TypeOK
  <2>. QED
    BY <1>0, <1>3, <2>1, <2>2
<1>4. ASSUME NEW s \in Session, Connect(s) \/ Read(s) \/ Spin(s) \/ Kill(s)
      PROVE  NamesKnown'
  <2>1. UNCHANGED <<interfaces, ports, message>>
    BY <1>4 DEF pox, vars, Connect, Read, Spin, Kill, ReadAuthRequest,
       ReadAuthStatus, ReadUnexpected, ReadHwinfo, ReadPacket, ReadTooLong
  <2>2. \A x \in Session : Same(x) \/ x = s
    BY <1>4, OneSession
  <2>. QED
    BY <1>0, <1>1, <1>2, <1>4, <2>1, <2>2 DEF Same
<1>5. ASSUME NEW s \in Session, Reactor(s) PROVE NamesKnown'
  <2>1. UNCHANGED <<if_list, interfaces, ports, message>>
    BY <1>5 DEF pox, Reactor, NewClient, SendAuthRequest, HandleAuthReply,
                HandleOpen, HandlePacket, Disconnected
  <2>2. \/ toSr' = toSr
        \/ \E m \in SrMessage : ToSr(s, m) /\ m.about \subseteq ports
    <3>1. CASE SendAuthRequest(s) \/ HandleAuthReply(s)
      <4>1. /\ \/ toSr' = toSr \/ ToSr(s, Plain("auth_request"))
               \/ ToSr(s, Plain("auth_status"))
            /\ Plain("auth_request").about \subseteq ports
            /\ Plain("auth_status").about \subseteq ports
        BY <3>1, MessageTypes DEF SendAuthRequest, HandleAuthReply, Deliver
      <4>. QED
        BY <4>1, MessageTypes
    <3>2. CASE HandleOpen(s)
      <4>1. /\ toSr' = toSr \/ ToSr(s, Hwinfo(interfaces))
            /\ interfaces \in SUBSET Interface
        BY <3>2 DEF HandleOpen, Deliver, TypeOK
      <4>2. Hwinfo(interfaces) \in SrMessage /\ Hwinfo(interfaces).about = interfaces
        BY <4>1, MessageTypes
      <4>. QED
        BY <1>0, <4>1, <4>2
    <3>3. CASE NewClient(s) \/ HandlePacket(s) \/ Disconnected(s)
      BY <3>3 DEF NewClient, HandlePacket, Disconnected
    <3>. QED
      BY <1>5, <3>1, <3>2, <3>3 DEF Reactor
  <2>3. CASE toSr' = toSr
    BY <1>0, <1>1, <2>1, <2>3
  <2>4. ASSUME NEW m \in SrMessage, ToSr(s, m), m.about \subseteq ports
        PROVE  NamesKnown'
    BY <1>0, <1>1, <1>3, <2>1, <2>4
  <2>. QED
    BY <2>2, <2>3, <2>4
<1>6. CASE SwitchConnects
  <2>1. PICK names \in Announced : OFHandler(names)
    BY <1>6 DEF SwitchConnects
  <2>2. /\ interfaces' = names /\ ports' = ports \cup names /\ toSr' = toSr
        /\ if_list' = if_list /\ message' = message
    BY <1>6, <2>1 DEF SwitchConnects, OFHandler, RouterInfo
  <2>3. ASSUME NEW x \in Session PROVE Good(x)
    BY <1>0, <2>2, NamesFacts
  <2>. QED
    BY <1>0, <1>1, <2>2, <2>3
<1>7. CASE PacketIn
  <2>1. /\ UNCHANGED <<interfaces, ports, toSr, if_list>>
        /\ message'.about \subseteq ports
    BY <1>0, <1>7, MessageTypes DEF PacketIn, SRPacketIn
  <2>. QED
    BY <1>0, <1>1, <2>1
<1>8. CASE BroadcastStep
  <2>1. /\ UNCHANGED <<interfaces, ports, if_list>>
        /\ message'.about \subseteq ports
    BY <1>0, <1>8, MessageTypes DEF BroadcastStep
  <2>2. CASE toSr' = toSr
    BY <1>0, <1>1, <2>1, <2>2
  <2>3. CASE toSr' # toSr
    <3>1. srclients[walk] \in Session /\ ToSr(srclients[walk], message)
      BY <1>8, <2>3 DEF BroadcastStep, Deliver, TypeOK
    <3>. QED
      BY <1>0, <1>1, <1>3, <2>1, <3>1
  <2>. QED
    BY <2>2, <2>3
<1>9. CASE SwitchLeaves \/ GoingDown \/ UNCHANGED vars
  <2>1. UNCHANGED <<interfaces, ports, toSr, if_list, message>>
    BY <1>9 DEF SwitchLeaves, GoingDown, vars, pox
  <2>. QED
    BY <1>0, <1>1, <2>1
<1>. QED
  BY <1>4, <1>5, <1>6, <1>7, <1>8, <1>9 DEF Next

-----------------------------------------------------------------------------
(* The theorems.                                                           *)

\* However processes start, switches come and go and messages are handled, the
\* bridge confuses no session: interfaces are listed once, the two sides take
\* turns, without traffic no configured session fails, a router that is not set
\* up is silent, and every interface in use has its port in the bridge's maps.
THEOREM SessionsSafe == Spec => []SessionsUnconfused
<1>1. Init => SessionsUnconfused
  <2>1. SUFFICES ASSUME Init PROVE SessionsUnconfused
    OBVIOUS
  <2>2. /\ walk = 0
        /\ \A s \in Session : /\ pc[s] = "off" /\ if_list[s] = {}
                             /\ toSr[s] = <<>> /\ toPox[s] = <<>>
    BY <2>1 DEF Init
  <2>3. \A s \in Session : ~Holds("packet", toSr[s]) /\ ~Holds("packet", toPox[s])
    BY <2>2 DEF Holds
  <2>4. QuietSessionsSucceed /\ MisconfiguredSilent
    BY <2>2, <2>3, ConfigAssumption DEF QuietSessionsSucceed, MisconfiguredSilent
  <2>5. NamesKnown
    BY <2>1, <2>2, MessageTypes DEF Init, NamesKnown
  <2>. QED
    BY <2>1, <2>4, <2>5, TypeInit, TurnInit, TurnsMeanOnce DEF SessionsUnconfused
<1>2. TakingTurns' => HwinfoOnce'
  BY TurnsMeanOnce, PTL
<1>3. SessionsUnconfused /\ [Next]_vars => SessionsUnconfused'
  BY <1>2, TypeStep, TurnStep, QuietStep, SilentStep, NamesStep
  DEF SessionsUnconfused
<1>. QED
  BY <1>1, <1>3, PTL DEF Spec

\* A session that has its interfaces is past every danger of the start: as long
\* as the controller runs it ends only when it is stopped from outside, by a
\* message that is too long for it, or by a whole frame from a port that some
\* switch has announced but the session was not told of.
THEOREM ReadySessionsSafe == Spec => ReadyIsSafe
<1>1. SessionsUnconfused /\ [Next]_vars => [KeepsReady]_vars
  <2>. DEFINE Good(x) == \/ pc'[x] \in {"main", "killed"}
                         \/ toSr[x] # <<>> /\ EndedBy(x, Head(toSr[x]))
  <2>1. SUFFICES ASSUME SessionsUnconfused, Next, NEW x \in Session,
                        if_list[x] # {}, pc[x] = "main", ~down
                 PROVE  Good(x)
    BY DEF KeepsReady
  <2>2. TypeOK /\ InTurn(x) /\ toSr[x] \in Seq(SrMessage) /\ Names(toSr[x], ports)
    BY <2>1 DEF SessionsUnconfused, TakingTurns, TypeOK, NamesKnown, Names
  <2>3. CASE Same(x)
    BY <2>1, <2>3 DEF Same
  <2>4. toSr[x] # <<>> => /\ Head(toSr[x]).type = "packet"
                          /\ Head(toSr[x]).about \subseteq ports
    <3>1. SUFFICES ASSUME toSr[x] # <<>>
                   PROVE  /\ Head(toSr[x]).type = "packet"
                          /\ Head(toSr[x]).about \subseteq ports
      OBVIOUS
    <3>2. /\ Head(toSr[x]) \in SrMessage /\ Holds(Head(toSr[x]).type, toSr[x])
          /\ Head(toSr[x]).about \subseteq ports
      BY <2>2, <3>1, TailHolds, NamesFacts
    <3>3. Head(toSr[x]).type \notin ToSrStart
      <4>1. "interfaces" \in Outstanding(x) /\ "interfaces" \notin ToSrStart
        BY <2>1, OutstandingIs DEF ToSrStart
      <4>. QED
        BY <2>2, <3>2, <4>1, OutstandingIs DEF InTurn
    <3>. QED
      BY <3>2, <3>3 DEF SrMessage, Message, ToSrStart
  <2>5. CASE Connect(x) \/ Read(x) \/ Spin(x) \/ Kill(x)
    <3>1. ~ReadHwinfo(x)
      BY <2>4 DEF ReadHwinfo, Comes
    <3>2. CASE Kill(x)
      BY <2>2, <3>2, TakeIs DEF Kill
    <3>3. ASSUME NEW reply \in BOOLEAN, ReadPacket(x, reply) PROVE Good(x)
      <4>1. CASE Aborts(Head(toSr[x]), if_list[x])
        BY <2>1, <2>4, <3>3, <4>1 DEF ReadPacket, Comes, Aborts, EndedBy
      <4>2. CASE ~Aborts(Head(toSr[x]), if_list[x])
        BY <2>2, <3>3, <4>2, TakeIs DEF ReadPacket
      <4>. QED
        BY <4>1, <4>2
    <3>4. CASE ReadTooLong(x)
      BY <2>4, <3>4 DEF ReadTooLong, EndedBy
    <3>. QED
      BY <2>1, <2>5, <3>1, <3>2, <3>3, <3>4
      DEF Read, Connect, ReadAuthRequest, ReadAuthStatus, ReadUnexpected,
          Handshake, Spin, vars
  <2>6. CASE Reactor(x)
    BY <2>1, <2>6 DEF Reactor, NewClient, SendAuthRequest, HandleAuthReply,
                      HandleOpen, HandlePacket, Disconnected
  <2>7. CASE SwitchConnects \/ SwitchLeaves \/ PacketIn \/ BroadcastStep
              \/ GoingDown
    BY <2>1, <2>7 DEF SwitchConnects, SwitchLeaves, PacketIn, BroadcastStep,
                      GoingDown
  <2>8. ASSUME NEW s \in Session,
               Connect(s) \/ Read(s) \/ Spin(s) \/ Kill(s) \/ Reactor(s)
        PROVE  Good(x)
    BY <2>2, <2>3, <2>5, <2>6, <2>8, OneSession
  <2>. QED
    BY <2>1, <2>7, <2>8 DEF Next
<1>. QED
  BY <1>1, SessionsSafe, PTL DEF Spec, ReadyIsSafe

\* A session waits in vain for its interfaces only if its VNSOPEN was handled
\* before any switch had connected (_handle_open_msg).
THEOREM UnansweredOnlyEarly == Spec => OnlyEarlyUnanswered
<1>. DEFINE OnlyEarly ==
              \A s \in Session : Unanswered(s)' => Unanswered(s) \/ ofhandlers = <<>>
<1>1. SessionsUnconfused /\ [Next]_vars => [OnlyEarly]_vars
  <2>1. SUFFICES ASSUME SessionsUnconfused, Next, NEW x \in Session,
                        Unanswered(x)', ~Unanswered(x), ofhandlers # <<>>
                 PROVE  FALSE
    OBVIOUS
  <2>2. /\ TypeOK /\ InTurn(x) /\ toSr[x] \in Seq(SrMessage)
        /\ interfaces \in SUBSET Interface
    BY <2>1 DEF SessionsUnconfused, TakingTurns, TypeOK
  <2>3. /\ pc'[x] = "main" /\ Outstanding(x)' = {}
        /\ pc[x] = "main" => Outstanding(x) # {}
    BY <2>1 DEF Unanswered
  <2>4. /\ \A m \in ToSrStart : ~Holds(m, toSr'[x])
        /\ \A m \in ToPoxStart : ~Holds(m, toPox'[x])
        /\ if_list'[x] = {}
    BY <2>3, OutstandingNext
  <2>5. ASSUME pc[x] = "main", if_list'[x] = if_list[x],
               \A m \in ToSrStart : Holds(m, toSr[x]) => Holds(m, toSr'[x]),
               \A m \in ToPoxStart : Holds(m, toPox[x]) => Holds(m, toPox'[x])
        PROVE  FALSE
    BY <2>3, <2>4, <2>5, OutstandingIs
  <2>6. CASE Same(x)
    BY <2>3, <2>5, <2>6 DEF Same
  <2>7. CASE Connect(x) \/ Read(x) \/ Spin(x) \/ Kill(x)
    <3>1. CASE ReadAuthStatus(x)
      BY <2>2, <2>4, <3>1, ToPoxFacts, MessageTypes
      DEF ReadAuthStatus, ToPoxStart
    <3>2. CASE ReadHwinfo(x)
      <4>1. ~Verified(x, if_list'[x])
        BY <2>4 DEF Verified
      <4>. QED
        BY <2>2, <2>3, <3>2, <4>1, TakeIs DEF ReadHwinfo
    <3>3. ASSUME NEW reply \in BOOLEAN, ReadPacket(x, reply) PROVE FALSE
      <4>1. /\ pc[x] = "main" /\ if_list' = if_list /\ Comes(x, "packet")
            /\ toSr'[x] = Tail(toSr[x])
            /\ toPox' = toPox \/ ToPox(x, Plain("packet"))
        BY <2>2, <2>3, <3>3, TakeIs DEF ReadPacket
      <4>2. \A m \in ToSrStart : Holds(m, toSr[x]) => Holds(m, toSr'[x])
        <5>1. /\ toSr[x] # <<>> /\ Head(toSr[x]).type \notin ToSrStart
              /\ \A m : Holds(m, toSr[x]) <=>
                           Holds(m, Tail(toSr[x])) \/ m = Head(toSr[x]).type
          BY <2>2, <4>1, TailHolds DEF Comes, ToSrStart
        <5>. QED
          BY <4>1, <5>1
      <4>3. \A m \in ToPoxStart : Holds(m, toPox[x]) => Holds(m, toPox'[x])
        BY <2>2, <4>1, ToPoxFacts, MessageTypes
      <4>. QED
        BY <2>5, <4>1, <4>2, <4>3
    <3>4. CASE \/ Connect(x) \/ ReadAuthRequest(x) \/ ReadUnexpected(x)
               \/ ReadTooLong(x) \/ Kill(x)
      BY <2>2, <2>3, <3>4, TakeIs
      DEF Connect, ReadAuthRequest, ReadUnexpected, ReadTooLong, Kill, TypeOK
    <3>5. CASE Spin(x)
      BY <2>6, <3>5 DEF Spin, vars, Same
    <3>. QED
      BY <2>7, <3>1, <3>2, <3>3, <3>4, <3>5 DEF Read
  <2>8. CASE Reactor(x)
    <3>1. pc' = pc /\ if_list' = if_list /\ pc[x] = "main"
      BY <2>3, <2>8 DEF pox, Reactor, NewClient, SendAuthRequest,
         HandleAuthReply, HandleOpen, HandlePacket, Disconnected
    <3>2. CASE \E m \in SrMessage : ToSr(x, m) /\ m.type \in ToSrStart
      BY <2>2, <2>4, <3>2, ToSrFacts
    <3>3. CASE SendAuthRequest(x) \/ HandleAuthReply(x) \/ HandleOpen(x)
      BY <2>1, <2>2, <3>1, <3>2, <3>3, MessageTypes
      DEF SendAuthRequest, HandleAuthReply, HandleOpen, Deliver, Ended, ToSrStart
    <3>4. CASE NewClient(x) \/ Disconnected(x)
      BY <2>5, <3>1, <3>4 DEF NewClient, Disconnected
    <3>5. CASE HandlePacket(x)
      <4>1. OnMessage(x, "packet") /\ toSr' = toSr
        BY <3>5 DEF HandlePacket
      <4>2. /\ toPox[x] \in Seq(PoxMessage) /\ toPox[x] # <<>>
            /\ Head(toPox[x]).type = "packet" /\ toPox'[x] = Tail(toPox[x])
        BY <2>2, <4>1 DEF OnMessage, TypeOK
      <4>3. \A m \in ToPoxStart : Holds(m, toPox[x]) => Holds(m, toPox'[x])
        BY <4>2, TailHolds DEF ToPoxStart
      <4>. QED
        BY <2>5, <3>1, <4>1, <4>3
    <3>. QED
      BY <2>8, <3>3, <3>4, <3>5 DEF Reactor
  <2>9. CASE SwitchConnects \/ SwitchLeaves \/ PacketIn \/ BroadcastStep
              \/ GoingDown
    <3>1. /\ UNCHANGED <<pc, if_list, toPox>>
          /\ \/ toSr' = toSr
             \/ \E s \in Session : ToSr(s, message)
      <4>1. CASE BroadcastStep
        BY <2>2, <4>1 DEF BroadcastStep, Deliver, TypeOK
      <4>. QED
        BY <2>9, <4>1 DEF SwitchConnects, SwitchLeaves, PacketIn, GoingDown,
           OFHandler, RouterInfo
    <3>2. \A m \in ToSrStart : Holds(m, toSr[x]) => Holds(m, toSr'[x])
      <4>1. ASSUME NEW s \in Session, ToSr(s, message)
            PROVE  \A m \in ToSrStart : Holds(m, toSr[x]) => Holds(m, toSr'[x])
        <5>1. message \in SrMessage
          BY <2>2 DEF TypeOK
        <5>2. CASE s = x
          BY <2>2, <4>1, <5>1, <5>2, ToSrFacts
        <5>3. CASE s # x
          BY <2>2, <4>1, <5>3 DEF ToSr, TypeOK
        <5>. QED
          BY <5>2, <5>3
      <4>. QED
        BY <3>1, <4>1
    <3>. QED
      BY <2>3, <2>5, <3>1, <3>2
  <2>10. ASSUME NEW s \in Session,
                Connect(s) \/ Read(s) \/ Spin(s) \/ Kill(s) \/ Reactor(s)
         PROVE  FALSE
    BY <2>2, <2>6, <2>7, <2>8, <2>10, OneSession
  <2>. QED
    BY <2>1, <2>9, <2>10 DEF Next
<1>. QED
  BY <1>1, SessionsSafe, PTL DEF Spec, OnlyEarlyUnanswered

=============================================================================
