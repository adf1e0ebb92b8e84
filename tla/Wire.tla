-------------------------------- MODULE Wire --------------------------------
(***************************************************************************)
(* Messages over a stream of octets, and the loops that cut the stream     *)
(* into messages again:                                                    *)
(*   controller   Connection.read of pox/openflow/of_01.py                 *)
(*   switch       ControllerConnection.read of pox/openflow/switch_impl.py *)
(*   sr           sr_read_from_server_expect of router/sr_vns_comm.c       *)
(*   bridge       the protocol library under VNSProtocol.py (external)     *)
(* The sender packs messages of the classes it sends; the network delivers *)
(* the octets in pieces of any size; the reader parses what has arrived.   *)
(* Nothing but the length in a message's header says where the next one    *)
(* starts, and unpack is handed the whole buffer, later messages included. *)
(***************************************************************************)
EXTENDS WireTables

CONSTANTS
    MaxSent,    \* bound: messages sent
    Split       \* where pieces end: so many octets into a message (besides:
                \* one octet before its end, and at its end)

ASSUME WireAssumption == MaxSent \in Nat /\ Split \subseteq Nat \ {0}

VARIABLES
    classes,    \* the tables of classes and of elements, filled at start-up
    items,
    reader,     \* which of the four loops reads this stream
    sent,       \* the messages packed so far
    arrived,    \* octets received
    pos,        \* octets parsed: buf is what lies between pos and arrived
    parsing,    \* the reader is inside its while loop
    got,        \* what unpack made of each message
    failed,     \* the handler of the last message raised an exception
    state       \* "up", "lost" (pos is not where a message starts) or "closed"

vars == <<classes, items, reader, sent, arrived, pos, parsing, got, failed, state>>

-----------------------------------------------------------------------------
(* Packing.                                                                *)

TailOctets(us) == FoldLeft(LAMBDA a, u : a + items[u].octets, 0, us)
TailLen(us) == FoldLeft(LAMBDA a, u : a + items[u].size, 0, us)

\* A message; list says that the body of an ofp_stats_reply was given as a list
\* of elements rather than as one element (which it must be for two).
Msg(cls, tail, list) == [cls |-> cls, tail |-> tail, list |-> list]

\* The handlers of the switch that raise whatever the message says: SwitchImpl
\* has none for port_mod and the queue request, and its statistics handlers use
\* what unpack returns (the octets left over) as the request.
Raises(m) ==
    \/ m.cls \in {"port_mod", "queue_get_config_request"}
    \/ m.cls = "stats_request" /\ m.tail # <<>>

\* What may follow the fixed part: the tails that are tried.
Sequences1(us) == {<<>>} \cup {<<u>> : u \in us}
Tails(cls) ==
    CASE classes[cls].tail = "none" -> {<<>>}
      [] classes[cls].tail = "dropped" ->
           IF cls = "error" THEN {<<>>, <<"data">>} ELSE {<<>>, <<"queue", "prop_header">>, <<"queue", "min_rate">>}
      [] cls = "vendor" -> {<<>>, <<"data">>, <<"role_data">>}
      [] classes[cls].tail = "data" -> {<<>>, <<"data">>}
      [] classes[cls].tail = "ports" -> {<<>>, <<"phy_port">>, <<"phy_port", "phy_port">>}
      [] classes[cls].tail \in {"actions", "out"} ->
           Sequences1(DOMAIN ActionItem) \cup {<<"output", "dl_addr">>, <<"enqueue", "output">>}
             \cup (IF cls = "packet_out" THEN {<<"data">>, <<"output", "data">>} ELSE {})
      [] cls = "hwinfo" -> {<<"interface">>, <<"interface", "interface">>}
      [] cls = "stats_request" -> Sequences1(DOMAIN StatsRequestItem)
      [] cls = "stats_reply" -> Sequences1(DOMAIN StatsItem) \cup {<<"port_stats", "port_stats">>}

\* The messages that are tried.
MessagesTo(r) ==
    UNION {{Msg(c, t, FALSE) : t \in {x \in Tails(c) : ~ (c = "stats_reply" /\ Len(x) > 1)}}
             : c \in SentTo[r]}
      \cup (IF r = "controller"
              THEN {Msg("stats_reply", t, TRUE) : t \in Tails("stats_reply") \ {<<>>}}
              ELSE {})

\* The octets pack writes, and the length it writes into the header.
Size(m) == classes[m.cls].octets + TailOctets(m.tail)
HeaderLength(m) ==
    LET c == classes[m.cls] IN
    CASE c.length # Computed -> c.length
      [] m.list -> c.size + Len(m.tail)
      [] OTHER -> c.size + TailLen(m.tail)

-----------------------------------------------------------------------------
(* Unpacking.                                                              *)

\* The elements that lie within the first n octets of a tail (none when n is
\* negative: an empty slice).
Within(us, n) == {k \in 0..Len(us) : k = 0 \/ TailOctets(SubSeq(us, 1, k)) <= n}
Cut(us, n) == SubSeq(us, 1, CHOOSE k \in Within(us, n) : \A j \in Within(us, n) : j <= k)

\* _unpack_actions steps by the length field of each action.
unpack_actions(us) ==
    IF \A i \in DOMAIN us : items[us[i]].rest = items[us[i]].octets THEN us ELSE <<>>

\* What unpack makes of the message at the front of the buffer: whether its
\* fields are those packed, the elements that follow, and which of them are not
\* as they were packed.
unpack(m, buffered) ==
    LET c == classes[m.cls]
        span == HeaderLength(m) - c.need
        tail == CASE c.tail \in {"none", "dropped"} -> <<>>
                  [] c.tail \in {"data", "body"} -> Cut(m.tail, span)
                  [] c.tail = "ports" -> SubSeq(m.tail, 1, span \div items["phy_port"].size)
                  [] OTHER -> unpack_actions(Cut(m.tail, span)) IN
    IF buffered < c.need
      THEN [fields |-> FALSE, tail |-> <<>>, changed |-> {}]
      ELSE [fields |-> c.kept, tail |-> tail,
            changed |-> {u \in ToSet(tail) : ~ items[u].kept}]

\* get_banners: a text of n octets, in pieces of at most 255.  The last piece
\* of get_banners_and_close is the VNSClose.
get_banners(n) == [i \in 1..(n \div 255 + 1) |->
                     IF i * 255 <= n THEN 255 ELSE n - (i - 1) * 255]

-----------------------------------------------------------------------------
(* The stream.                                                             *)

Total == FoldLeft(LAMBDA a, m : a + Size(m), 0, sent)
StartOf(i) == FoldLeft(LAMBDA a, m : a + Size(m), 0, SubSeq(sent, 1, i - 1))
First == sent[Len(got) + 1]
Buffered == arrived - pos

Init ==
    /\ classes = ClassTable
    /\ items = ItemTable
    /\ reader \in {"controller", "switch", "sr", "bridge"}
    /\ sent = <<>>
    /\ arrived = 0
    /\ pos = 0
    /\ parsing = FALSE
    /\ got = <<>>
    /\ failed = FALSE
    /\ state = "up"

\* The other side packs a message and writes it to its socket (bound: at most
\* MaxSent messages, one of them with anything behind its fixed part).
Send ==
    /\ Len(sent) < MaxSent
    /\ \E m \in MessagesTo(reader) :
         /\ m.tail = <<>> \/ \A i \in DOMAIN sent : sent[i].tail = <<>>
         /\ sent' = Append(sent, m)
    /\ UNCHANGED <<classes, items, reader, arrived, pos, parsing, got, failed, state>>

\* The bridge says something to the user: banners, the last piece in a close.
SendText ==
    /\ reader = "sr"
    /\ sent = <<>>
    /\ \E n \in {0, 254, 255, 256, 510} :
         LET k == Len(get_banners(n)) IN
         sent' = [i \in 1..k |-> Msg(IF i < k THEN "banner" ELSE "close", <<>>, FALSE)]
    /\ UNCHANGED <<classes, items, reader, arrived, pos, parsing, got, failed, state>>

\* recv returns some of the octets on their way, at most 2048; the loop starts.
Pieces == UNION {{StartOf(i) + k : k \in Split}
                   \cup {StartOf(i + 1) - 1, StartOf(i + 1)} : i \in DOMAIN sent}
Receive ==
    /\ state = "up" /\ ~ parsing
    /\ \E n \in Pieces \cap (arrived + 1)..(arrived + 2048) :
         n <= Total /\ arrived' = n
    /\ parsing' = TRUE
    /\ UNCHANGED <<classes, items, reader, sent, pos, got, failed, state>>

\* The octets the loop wants before it looks at the length field, and whether
\* the whole message is there.  sr blocks in read() instead of returning.
HeaderThere == Buffered > 4 \/ (reader \in {"sr", "bridge"} /\ Buffered = 4)
MoreThanMessageThere == HeaderThere /\ HeaderLength(First) < Buffered
MessageThere == HeaderThere /\ HeaderLength(First) <= Buffered

\* while l > 4, packet_length > l: break
Break ==
    /\ state = "up" /\ parsing
    /\ Len(got) < Len(sent) => ~ MessageThere
    /\ parsing' = FALSE
    /\ UNCHANGED <<classes, items, reader, sent, arrived, pos, got, failed, state>>

\* The highest type has no entry in the table of classes (range(0, max)): the
\* IndexError leaves read.  VNSCLOSE ends the session.
Ends(m) == m.cls \in {"queue_get_config_reply", "close"}

\* One turn of the loop: unpack, drop packet_length octets, call the handler.
\* ControllerConnection.read returns when a handler has raised.
Parse ==
    /\ state = "up" /\ parsing
    /\ Len(got) < Len(sent)
    /\ MessageThere
    /\ IF First.cls = "queue_get_config_reply"
         THEN got' = got /\ pos' = pos
         ELSE got' = Append(got, unpack(First, Buffered)) /\ pos' = pos + HeaderLength(First)
    /\ failed' = Raises(First)
    /\ state' = CASE Ends(First) -> "closed"
                  [] HeaderLength(First) # Size(First) -> "lost"
                  [] OTHER -> "up"
    /\ parsing' = (state' = "up" /\ (reader = "switch" => ~ failed'))
    /\ UNCHANGED <<classes, items, reader, sent, arrived>>

Next == Send \/ SendText \/ Receive \/ Break \/ Parse

\* The loops never stop by themselves: once an octet has arrived, they run.
Fairness == WF_vars(Receive) /\ WF_vars(Break) /\ WF_vars(Parse)
Spec == Init /\ [][Next]_vars /\ Fairness

-----------------------------------------------------------------------------
(* Properties.                                                             *)

\* The messages whose header does not say how long they are: echo messages
\* with a body and bare vendor headers keep the length __init__ gave them, and
\* a statistics reply made from a list counts the elements, not their octets.
Stale(m) ==
    \/ m.cls \in {"echo_request", "echo_reply"} /\ m.tail # <<>>
    \/ m.cls = "vendor_header"
    \/ m.list

\* When a reader goes back to waiting for octets, no complete message is left in
\* its buffer; only the switch leaves one, and only behind a message whose
\* handler raised (ControllerConnection.read returns, switch_impl.py:585).
NothingWaits ==
    (state = "up" /\ ~ parsing /\ Len(got) < Len(sent) /\ MessageThere)
        => reader = "switch" /\ failed

\* A reader keeps in step with the stream.  It loses its place only right after
\* one of those messages (Connection.read, of_01.py:611-618): for every other
\* class, pack, __len__ and unpack agree on how many octets the message has.
\* And it does not fall behind.
InStep == (state = "lost" => Stale(sent[Len(got)])) /\ NothingWaits

\* Whatever unpack leaves in the object is what the sender packed, each field
\* and each element, even when the buffer it is handed also holds later
\* messages ("msg.unpack implicitly only examines its own bytes",
\* of_01.py:615).  Lost on the way: the data of an error, the vendor of a vendor
\* action, and the body of a message whose header is stale.
ReceivedAsSent ==
    \A i \in DOMAIN got :
        Stale(sent[i]) \/ /\ got[i].fields
                          /\ got[i].changed \subseteq {"vendor"}
                          /\ \/ got[i].tail = sent[i].tail
                             \/ sent[i].cls = "error" /\ got[i].tail = <<>>

\* Every message that is sent is parsed in the end, unless the reader lost its
\* place or closed; the switch may leave the last ones in its buffer.
AllParsed ==
    \A n \in 1..MaxSent :
        (Len(sent) >= n /\ reader # "switch") ~> (Len(got) >= n \/ state # "up")
=============================================================================
