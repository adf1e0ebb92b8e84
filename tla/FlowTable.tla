----------------------------- MODULE FlowTable -----------------------------
(***************************************************************************)
(* Matches, flow table entries and flow tables: ofp_match of               *)
(* pox/openflow/libopenflow_01.py, TableEntry, FlowTable and               *)
(* SwitchFlowTable of pox/openflow/flow_table.py.                          *)
(*                                                                         *)
(* A match is [in_port, dl_src, dl_dst, nw_dst]: a value or Wild for the    *)
(* first three, which stand for all the fields that are compared whole,    *)
(* and [addr, bits] for an IP address with a prefix length.  Addresses     *)
(* have NwBits bits.  A packet is a match with everything set; a packet    *)
(* that is not IP has no address (bits = 0).                               *)
(***************************************************************************)
EXTENDS Integers, Sequences, FiniteSets, SequencesExt

CONSTANTS
    Wild,        \* a wildcarded field
    NwBits      \* the width of an IP address (32 in the code)

ASSUME NwBitsAssumption == NwBits \in Nat \ {0}

-----------------------------------------------------------------------------
(* ofp_match.                                                              *)

Match(p, s, d, nw) == [in_port |-> p, dl_src |-> s, dl_dst |-> d, nw_dst |-> nw]
Nw(a, b) == [addr |-> a, bits |-> b]
AnyNw == Nw(0, 0)
AnyMatch == Match(Wild, Wild, Wild, AnyNw)
Whole == {"in_port", "dl_src", "dl_dst"}

is_wildcarded(m) == (\E f \in Whole : m[f] = Wild) \/ m.nw_dst.bits < NwBits

\* from_packet; without an in_port the match leaves the port open.
from_packet(p) == p
match_left_out(p) == AnyMatch
from_packet_any_port(p) == [p EXCEPT !.in_port = Wild]

\* IPAddr.inNetwork masks its own address, not the network's.
inNetwork(a, n, wild) == (a \div 2^wild) * 2^wild = n

\* Does m encompass the match o?  With wildcards (an update of entries) every
\* wildcard of o must be one of m; a packet is compared by its fields alone.
matches_with_wildcards(m, o, wildcards) ==
    \/ m = o
    \/ /\ wildcards => \A f \in Whole : o[f] = Wild => m[f] = Wild
       /\ \A f \in Whole : m[f] = Wild \/ m[f] = o[f]
       /\ \/ m.nw_dst.bits = 0
          \/ /\ m.nw_dst.bits <= o.nw_dst.bits
             /\ inNetwork(o.nw_dst.addr, m.nw_dst.addr, NwBits - m.nw_dst.bits)

-----------------------------------------------------------------------------
(* TableEntry and FlowTable.  A table is the list self._table.             *)

Entry(prio, m, acts) == [priority |-> prio, match |-> m, actions |-> acts]

is_matched_by(e, m, prio, strict) ==
    IF strict THEN e.match = m /\ e.priority = prio
              ELSE matches_with_wildcards(m, e.match, TRUE)

\* Exact matches go first, whatever their priority (which has 16 bits).
SortKey(e) == IF is_wildcarded(e.match) THEN e.priority ELSE 2^16 + 1

\* Number n (from 0) of some numbers in their order, and the elements of t at
\* some of its indices: SelectSeq, told by the indices it keeps.
Nth(S, n) == CHOOSE i \in S : Cardinality({j \in S : j < i}) = n
AtIndices(t, S) == [k \in 1..Cardinality(S) |-> t[Nth(S, k - 1)]]

\* The sort is stable: a new entry comes after those of its own key.
add_entry(t, e) ==
    AtIndices(t, {i \in DOMAIN t : SortKey(t[i]) >= SortKey(e)}) \o <<e>>
        \o AtIndices(t, {i \in DOMAIN t : SortKey(t[i]) < SortKey(e)})

remove_entry(t, e) == RemoveFirst(t, e)

\* The indices of the entries that are matched.
matching_entries(t, m, prio, strict) ==
    {i \in DOMAIN t : is_matched_by(t[i], m, prio, strict)}
remove_matching_entries(t, m, prio, strict) ==
    AtIndices(t, DOMAIN t \ matching_entries(t, m, prio, strict))

\* The first entry of the list that matches; NoEntry when there is none.
NoEntry == [priority |-> -1, match |-> AnyMatch, actions |-> <<>>]
entry_for_packet(t, p) ==
    LET hits == {i \in DOMAIN t : matches_with_wildcards(t[i].match, from_packet(p), FALSE)} IN
    IF hits = {} THEN NoEntry ELSE t[Min(hits)]

-----------------------------------------------------------------------------
(* SwitchFlowTable.process_flow_mod, for the five commands.  A delete is   *)
(* always strict: is_strict is computed and not used.                      *)

ModifyActions(t, fm, strict) ==
    [i \in DOMAIN t |-> IF is_matched_by(t[i], fm.entry.match, fm.entry.priority, strict)
                          THEN [t[i] EXCEPT !.actions = fm.entry.actions] ELSE t[i]]

process_flow_mod(t, fm) ==
    LET e == fm.entry
        strict == fm.command = "modify_strict" IN
    CASE fm.command = "add" ->
           add_entry(remove_matching_entries(t, e.match, e.priority, TRUE), e)
      [] fm.command \in {"modify", "modify_strict"} ->
           IF matching_entries(t, e.match, e.priority, strict) = {}
             THEN add_entry(t, e) ELSE ModifyActions(t, fm, strict)
      [] fm.command \in {"delete", "delete_strict"} ->
           remove_matching_entries(t, e.match, e.priority, TRUE)
=============================================================================
