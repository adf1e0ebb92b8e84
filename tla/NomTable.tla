------------------------------ MODULE NomTable ------------------------------
(***************************************************************************)
(* The controller's copy of a switch's flow table (NOMFlowTable of         *)
(* pox/openflow/flow_table.py, kept by OpenFlowSwitch of                   *)
(* pox/openflow/topology.py) with the switch (SwitchFlowTable).  A change  *)
(* is pending until the barrier sent behind it is answered; connections    *)
(* break, the switch may lose its table, and the copy is then sent again.  *)
(*                                                                         *)
(* Two entries with the same match and priority are the same flow.         *)
(* FlowRemoved is not among the messages: to_flow_mod never sets the flag  *)
(* that asks a switch for it.                                              *)
(***************************************************************************)
EXTENDS FlowTable

CONSTANTS
    Entries,    \* the TableEntry objects that callers install and remove
    NoBuffer,   \* those of them whose buffer_id is None, as it is by default
    MaxAsked,   \* bound: calls of install and remove
    MaxBreaks   \* bound: connections lost

ASSUME NomAssumption == MaxAsked \in Nat /\ MaxBreaks \in Nat /\ NoBuffer \subseteq Entries

VARIABLES
    nom,        \* flow_table.entries
    pending,    \* operations that no barrier has confirmed
    barriers,   \* pending_barrier_to_ops
    xid,        \* of the last barrier
    connected,  \* switch.connected
    toSwitch,   \* messages on their way to the switch
    replies,    \* barrier replies on their way back
    switch,     \* the table of the switch
    raised,     \* did _handle_BarrierIn raise ValueError?
    want,       \* flow |-> what callers last asked for: "in", "out" or "any"
    twice,      \* was an operation asked for while a barrier waited for the same one?
    misled,     \* had it raised ValueError when the switch last connected?
    asked, breaks

vars == <<nom, pending, barriers, xid, connected, toSwitch, replies, switch,
          raised, want, twice, misled, asked, breaks>>

Op(cmd, e) == [command |-> cmd, entry |-> e]
Barrier(x) == [command |-> "barrier", entry |-> NoEntry, xid |-> x]
FlowMod(op) == [command |-> op.command, entry |-> op.entry, xid |-> 0]
FlowMods(ops) == [i \in DOMAIN ops |-> FlowMod(ops[i])]

\* pack computes buffer_id & 0xffffffff, which is a TypeError for None.
Packs(op) == op.entry \notin NoBuffer

Flow(e) == <<e.match, e.priority>>
Flows(S) == {Flow(e) : e \in S}
Pending(cmds) == {pending[i].entry : i \in {j \in DOMAIN pending : pending[j].command \in cmds}}

Init ==
    /\ nom = <<>> /\ pending = <<>> /\ barriers = <<>> /\ xid = 0
    /\ connected = FALSE
    /\ toSwitch = <<>> /\ replies = <<>> /\ switch = <<>>
    /\ raised = FALSE /\ twice = FALSE /\ misled = FALSE /\ asked = 0 /\ breaks = 0
    /\ want = [f \in Flows(Entries) |-> "any"]

-----------------------------------------------------------------------------
(* The controller.                                                         *)

\* A flow_mod that does not pack ends the sending: what stands before it is on its
\* way, and no barrier follows it.
Sent(first, ops, known) ==
    LET bad == {i \in DOMAIN ops : ~ Packs(ops[i])} IN
    IF bad = {}
      THEN /\ toSwitch' = toSwitch \o first \o FlowMods(ops) \o <<Barrier(xid + 1)>>
           /\ barriers' = (xid + 1 :> ops) @@ known
           /\ xid' = xid + 1
      ELSE /\ toSwitch' = toSwitch \o first \o FlowMods(SubSeq(ops, 1, Min(bad) - 1))
           /\ barriers' = known
           /\ UNCHANGED xid

\* Everything pending is sent again, also what an earlier barrier already waits
\* for: the time limit is compared with the function time.time, which Python
\* takes to be greater than any number.
sync_pending(ops) ==
    IF connected THEN Sent(<<>>, ops, barriers)
                 ELSE UNCHANGED <<toSwitch, barriers, xid>>

\* The operations of the barriers that are on their way, there or back.
OnTheWay == Range(replies) \cup {toSwitch[i].xid : i \in {j \in DOMAIN toSwitch : toSwitch[j].command = "barrier"}}
Awaited == UNION {Range(barriers[x]) : x \in OnTheWay \cap DOMAIN barriers}

\* A strict removal forgets that the same object was to be added.
StillPending(cmd, e) ==
    IF cmd = "delete_strict" THEN SelectSeq(pending, LAMBDA op : op # Op("add", e)) ELSE pending

\* A removal with wildcards raises AttributeError when an addition is pending
\* (a TableEntry has no matches_with_wildcards).
mod(cmd, e) ==
    /\ asked < MaxAsked /\ asked' = asked + 1
    /\ cmd = "delete" => Pending({"add"}) = {}
    /\ pending' = Append(StillPending(cmd, e), Op(cmd, e))
    /\ sync_pending(pending')
    /\ want' = [f \in DOMAIN want |->
                  IF f = Flow(e) THEN (IF cmd = "add" THEN "in" ELSE "out")
                  ELSE IF cmd = "delete" /\ matches_with_wildcards(e.match, f[1], TRUE) THEN "any"
                  ELSE want[f]]
    /\ twice' = (twice \/ Op(cmd, e) \in Awaited)
    /\ UNCHANGED <<nom, connected, replies, switch, raised, misled, breaks>>

install == \E e \in Entries : mod("add", e)
remove_strict == \E e \in Entries : mod("delete_strict", e)
remove_with_wildcards == \E e \in Entries : mod("delete", e)

\* _sync_pending(clear): removals that were not confirmed are dropped, then the
\* switch is told to forget everything and is sent the table and the additions.
Clear == [command |-> "delete", entry |-> Entry(2^15, AnyMatch, <<>>), xid |-> 0]
ResendUnconfirmedOnly == SelectSeq(pending, LAMBDA op : op.command = "add")
Resend == [i \in DOMAIN nom |-> Op("add", nom[i])]
          \o SelectSeq(pending, LAMBDA op : op.command = "add")

handle_SwitchConnectionUp ==
    /\ ~ connected /\ connected' = TRUE
    /\ pending' = SelectSeq(pending, LAMBDA op : op.command = "add")
    /\ Sent(<<Clear, Barrier(0)>>, Resend, <<>>)
    /\ want' = [f \in DOMAIN want |->
                  IF f \in Flows(Pending({"delete", "delete_strict"})) /\ want[f] = "out"
                    THEN "any" ELSE want[f]]
    /\ \E t \in {switch, <<>>} : switch' = t        \* it may have restarted
    /\ misled' = raised
    /\ UNCHANGED <<nom, replies, raised, twice, asked, breaks>>

\* OpenFlowTopology takes the connection from the switch object.  The table is not
\* told: of_01 raises ConnectionDown on the nexus and not on the connection.
handle_ConnectionDown ==
    /\ connected /\ breaks < MaxBreaks
    /\ connected' = FALSE /\ breaks' = breaks + 1
    /\ toSwitch' = <<>> /\ replies' = <<>>
    /\ UNCHANGED <<nom, pending, barriers, xid, switch, raised, want, twice, misled, asked>>

AppliedAddsOnly(t, op) == IF op.command = "add" THEN add_entry(t, op.entry) ELSE t
Applied(t, op) ==
    IF op.command = "add" THEN add_entry(t, op.entry)
    ELSE remove_matching_entries(t, op.entry.match, op.entry.priority, op.command = "delete_strict")

\* The operations of the barrier are carried out one by one; the first that is
\* not pending any more raises ValueError after it has changed the table.
Confirmed(ops, p) ==
    LET Times(q, op) == Cardinality({i \in DOMAIN q : q[i] = op})
        bad == {i \in DOMAIN ops : Times(p, ops[i]) < Times(SubSeq(ops, 1, i), ops[i])}
        upto == IF bad = {} THEN Len(ops) ELSE Min(bad)
        done == IF bad = {} THEN ops ELSE SubSeq(ops, 1, upto - 1)
    IN [nom |-> FoldLeft(Applied, nom, SubSeq(ops, 1, upto)),
        pending |-> FoldLeft(LAMBDA q, op : RemoveFirst(q, op), p, done),
        raised |-> bad # {}]

handle_BarrierIn ==
    /\ replies # <<>> /\ replies' = Tail(replies)
    /\ IF replies[1] \in DOMAIN barriers
         THEN LET c == Confirmed(barriers[replies[1]], pending) IN
              /\ nom' = c.nom /\ pending' = c.pending
              /\ raised' = (raised \/ c.raised)
              /\ barriers' = IF c.raised THEN barriers
                             ELSE [x \in DOMAIN barriers \ {replies[1]} |-> barriers[x]]
         ELSE UNCHANGED <<nom, pending, raised, barriers>>
    /\ UNCHANGED <<xid, connected, toSwitch, switch, want, twice, misled, asked, breaks>>

-----------------------------------------------------------------------------
(* The switch takes the next message of the connection.                    *)

SwitchReceives ==
    /\ toSwitch # <<>> /\ toSwitch' = Tail(toSwitch)
    /\ IF toSwitch[1].command = "barrier"
         THEN replies' = Append(replies, toSwitch[1].xid) /\ UNCHANGED switch
         ELSE switch' = process_flow_mod(switch, toSwitch[1]) /\ UNCHANGED replies
    /\ UNCHANGED <<nom, pending, barriers, xid, connected, raised, want, twice, misled, asked, breaks>>

Next ==
    \/ install \/ remove_strict \/ remove_with_wildcards
    \/ handle_SwitchConnectionUp \/ handle_ConnectionDown \/ handle_BarrierIn
    \/ SwitchReceives

Spec == Init /\ [][Next]_vars

-----------------------------------------------------------------------------
Quiet == connected /\ toSwitch = <<>> /\ replies = <<>>

\* An operation on the flow that stands in the list of pending ones at, or behind,
\* one that does not pack.
HeldBack(f) ==
    \E i \in DOMAIN pending : Flow(pending[i].entry) = f /\ \E j \in 1 .. i : ~ Packs(pending[j])

\* Once the connection is quiet, the switch has every flow that callers asked
\* for last to be installed, and none whose removal they asked for last: repeated
\* sending, changes of mind, reconnections and a restarted switch neither lose an
\* installation nor bring a confirmed removal back (_mod, _sync_pending).
\* Removals still pending when the connection broke are given up (want is "any").
\* Excepted are three cases.  An entry without a buffer_id raises TypeError in
\* _sync_pending each time, and everything pending behind it waits with it.  The
\* copy, from which a switch that connects again gets its table, is wrong once
\* _handle_BarrierIn has stopped with a ValueError.  And an operation that is asked
\* for again while a barrier of the same operation is unanswered is confirmed by
\* that answer, whether it was sent or not.
SwitchFollowsRequests ==
    Quiet /\ ~ misled /\ ~ twice =>
      \A f \in DOMAIN want :
        \/ HeldBack(f)
        \/ /\ want[f] = "in" => f \in Flows(Range(switch))
           /\ want[f] = "out" => f \notin Flows(Range(switch))

\* On a quiet connection the copy holds no flow that the switch does not have,
\* unless its removal still waits for confirmation: the barrier keeps the copy
\* from running ahead of a switch that loses its table or its connection between
\* the flow_mod and the reply, also when _sync_pending stops with a TypeError.
\* It holds until a reply makes _handle_BarrierIn raise ValueError: operations
\* that were sent again before they were confirmed are then carried out in part.
CopyNotAhead ==
    Quiet /\ ~ raised =>
      Flows(Range(nom)) \ Flows(Range(switch)) \subseteq Flows(Pending({"delete", "delete_strict"}))

\* "Keep in sync with a switch through a connection": on a quiet connection with
\* nothing pending the copy has the flows of the switch that callers want.
InSync ==
    Quiet /\ pending = <<>> =>
      \A f \in DOMAIN want : want[f] = "in" => (f \in Flows(Range(nom)) <=> f \in Flows(Range(switch)))

=============================================================================
