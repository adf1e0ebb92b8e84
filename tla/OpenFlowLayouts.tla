--------------------------- MODULE OpenFlowLayouts ---------------------------
(***************************************************************************)
(* The OpenFlow 1.0 messages of pox/openflow/libopenflow_01.py: for every  *)
(* class with pack and unpack methods, its layout as those methods have it *)
(* (see Layout).  The classes are kept under their own names.              *)
(***************************************************************************)
EXTENDS Layout

\* What follows the fixed part of a message, and how unpack takes it:
\*   none      nothing follows
\*   dropped   written by pack, not read by unpack
\*   data      opaque octets, up to the length in the header
\*   body      a list of elements, up to the length in the header
\*   ports     as many ports as the length in the header leaves room for
\*   actions   _unpack_actions over what the length in the header leaves
\*   out       the actions that actions_len says, then opaque octets

-----------------------------------------------------------------------------
(* Structures inside messages.                                             *)

HeaderFields == <<B("version"), B("header_type"), H("length"), L("xid")>>
ofp_header == Class(HeaderFields, At(0, HeaderFields), 8, 8, 8, "none")

\* A message with no fields of its own.
HeaderOnly == ofp_header

PortWords == <<L("config"), L("state"), L("curr"), L("advertised"),
               L("supported"), L("peer")>>
ofp_phy_port ==
    Item(<<H("port_no"), S("hw_addr", 6), S("name", 16)>> \o PortWords,
         At(0, <<H("port_no")>>) \cup {Place("hw_addr", 2, 6), Place("name", 8, 16)}
             \cup At(24, PortWords),
         48, 48, 48)

ofp_queue_prop_header ==
    LET fs == <<H("property"), H("length")>> IN
    Item(fs \o <<Pad(4)>>, At(0, fs), 8, 8, 8)

ofp_queue_prop_min_rate ==
    Item(ofp_queue_prop_header.pack \o <<H("rate"), Pad(6)>>,
         ofp_queue_prop_header.reads \cup At(8, <<H("rate")>>), 16, 16, 16)

\* The properties that pack writes behind a queue are not read by unpack.
ofp_packet_queue ==
    LET fs == <<L("queue_id"), H("length")>> IN
    Item(fs \o <<Pad(2)>>, At(0, fs), 8, 8, 8)

ofp_match ==
    LET link == <<L("wildcards"), H("dl_in_port")>>
        eth  == <<S("dl_src", 6), S("dl_dst", 6)>>
        vlan == <<H("dl_vlan"), B("dl_vlan_pcp")>>
        net  == <<H("dl_type"), B("nw_tos"), B("nw_proto")>>
        addr == <<L("nw_src"), L("nw_dst"), H("tp_src"), H("tp_dst")>> IN
    Item(link \o eth \o vlan \o <<Pad(1)>> \o net \o <<Pad(2)>> \o addr,
         At(0, link) \cup At(6, eth) \cup At(18, vlan) \cup At(22, net)
             \cup At(28, addr),
         40, 40, 40)
Match(o) == {[p EXCEPT !.at = @ + o] : p \in ofp_match.reads}

-----------------------------------------------------------------------------
(* Actions.  Each has a length field that __init__ sets.                   *)

Action(fs, pad, size) == Item(fs \o <<Pad(pad)>>, At(0, fs), size, size, size)
ActionFields == <<H("type"), H("length")>>

ofp_action_header == Action(ActionFields, 4, 8)
ofp_action_output == Action(ActionFields \o <<H("port"), H("max_len")>>, 0, 8)
ofp_action_enqueue ==
    LET fs == ActionFields \o <<H("port")>> IN
    Item(fs \o <<Pad(6), L("queue_id")>>, At(0, fs) \cup At(12, <<L("queue_id")>>),
         16, 16, 16)
ofp_action_push_mpls == Action(ActionFields \o <<H("ethertype")>>, 2, 8)
ofp_action_mpls_label == Action(ActionFields \o <<L("mpls_label")>>, 0, 8)
ofp_action_mpls_tc == Action(ActionFields \o <<B("mpls_tc")>>, 3, 8)
ofp_action_mpls_ttl == Action(ActionFields \o <<B("mpls_ttl")>>, 3, 8)
ofp_action_mpls_dec_ttl == ofp_action_header
ofp_action_resubmit == ofp_action_header
ofp_action_pop_mpls == Action(ActionFields \o <<H("ethertype")>>, 2, 8)
ofp_action_vlan_vid == Action(ActionFields \o <<H("vlan_vid")>>, 2, 8)
ofp_action_vlan_pcp == Action(ActionFields \o <<B("vlan_pcp")>>, 3, 8)
ofp_action_dl_addr == Action(ActionFields \o <<S("dl_addr", 6)>>, 6, 16)
ofp_action_nw_addr == Action(ActionFields \o <<L("nw_addr")>>, 0, 8)
ofp_action_nw_tos == Action(ActionFields \o <<B("nw_tos")>>, 3, 8)
ofp_action_tp_port == Action(ActionFields \o <<H("tp_port")>>, 2, 8)
ofp_action_vendor_header == Action(ActionFields \o <<L("vendor")>>, 0, 8)

-----------------------------------------------------------------------------
(* Elements of statistics bodies.                                          *)

ofp_desc_stats ==
    Item(<<S("mfr_desc", 256), S("hw_desc", 256), S("sw_desc", 256),
           S("serial_num", 32), S("dp_desc", 256)>>,
         {Place("mfr_desc", 0, 256), Place("hw_desc", 256, 256),
          Place("sw_desc", 512, 256), Place("serial_num", 768, 32),
          Place("dp_desc", 800, 256)},
         1056, 1056, 1056)

\* unpack returns binaryString[len(self)], one octet instead of the rest: an
\* IndexError when the element ends its buffer.
ofp_flow_stats_request ==
    LET fs == <<B("table_id"), Pad(1), H("out_port")>> IN
    Item(ofp_match.pack \o fs, Match(0) \cup At(40, fs), 44, 44, 44)

\* The length field is 0 unless whoever makes the entry sets it.
ofp_flow_stats ==
    LET head  == <<H("length"), B("table_id"), Pad(1)>>
        times == <<L("duration_sec"), L("duration_nsec"), H("priority"),
                   H("idle_timeout"), H("hard_timeout")>>
        count == <<Q("cookie"), Q("packet_count"), Q("byte_count")>> IN
    Item(head \o ofp_match.pack \o times \o <<Pad(6)>> \o count,
         At(0, head) \cup Match(4) \cup At(44, times) \cup At(64, count),
         88, 88, Own)

ofp_aggregate_stats_request ==
    LET fs == <<B("table_id"), Pad(1), H("out_port")>> IN
    Item(ofp_match.pack \o fs, Match(0) \cup At(40, fs), 44, 44, 44)

ofp_aggregate_stats ==
    LET fs == <<Q("packet_count"), Q("byte_count"), L("flow_count")>> IN
    Item(fs \o <<Pad(4)>>, At(0, fs), 24, 24, 24)

ofp_table_stats ==
    LET counts == <<L("wildcards"), L("max_entries"), L("active_count"),
                    Q("lookup_count"), Q("matched_count")>> IN
    Item(<<B("table_id"), Pad(3), S("name", 32)>> \o counts,
         At(0, <<B("table_id")>>) \cup {Place("name", 4, 32)} \cup At(36, counts),
         64, 64, 64)

ofp_port_stats_request ==
    Item(<<H("port_no"), Pad(6)>>, At(0, <<H("port_no")>>), 8, 8, 8)

ofp_port_stats ==
    LET counts == <<Q("rx_packets"), Q("tx_packets"), Q("rx_bytes"), Q("tx_bytes"),
                    Q("rx_dropped"), Q("tx_dropped"), Q("rx_errors"), Q("tx_errors"),
                    Q("rx_frame_err"), Q("rx_over_err"), Q("rx_crc_err"),
                    Q("collisions")>> IN
    Item(<<H("port_no"), Pad(6)>> \o counts,
         At(0, <<H("port_no")>>) \cup At(8, counts), 104, 104, 104)

ofp_queue_stats_request ==
    Item(<<H("port_no"), Pad(2), L("queue_id")>>,
         At(0, <<H("port_no")>>) \cup At(4, <<L("queue_id")>>), 8, 8, 8)

ofp_queue_stats ==
    LET counts == <<L("queue_id"), Q("tx_bytes"), Q("tx_packets"), Q("tx_errors")>> IN
    Item(<<H("port_no"), Pad(2)>> \o counts,
         At(0, <<H("port_no")>>) \cup At(4, counts), 32, 32, 32)

\* The data of Nicira's vendor messages (pox/openflow/nicira_ext.py).
nx_data == Item(<<L("subtype")>>, At(0, <<L("subtype")>>), 4, 4, 4)
role_data ==
    Item(nx_data.pack \o <<L("role")>>, nx_data.reads \cup At(4, <<L("role")>>), 8, 8, 8)

-----------------------------------------------------------------------------
(* Messages: a header, fields of their own, and what follows.              *)

Message(fs, reads, need, length, tail) ==
    Class(HeaderFields \o fs, At(0, HeaderFields) \cup reads, need, need, length, tail)
Plain(fs, need, length, tail) == Message(fs, At(8, fs), need, length, tail)

ofp_features_reply ==
    LET ids  == <<Q("datapath_id"), L("n_buffers"), B("n_tables")>>
        caps == <<L("capabilities"), L("actions")>> IN
    Message(ids \o <<Pad(3)>> \o caps, At(8, ids) \cup At(24, caps),
            32, Computed, "ports")

ofp_switch_config == Plain(<<H("flags"), H("miss_send_len")>>, 12, 12, "none")

ofp_flow_mod ==
    LET fs == <<Q("cookie"), H("command"), H("idle_timeout"), H("hard_timeout"),
                H("priority"), L("buffer_id"), H("out_port"), H("flags")>> IN
    Message(ofp_match.pack \o fs, Match(8) \cup At(48, fs), 72, Computed, "actions")

ofp_port_mod ==
    LET fs == <<L("config"), L("mask"), L("advertise")>> IN
    Message(<<H("port_no"), S("hw_addr", 6)>> \o fs \o <<Pad(4)>>,
            At(8, <<H("port_no")>>) \cup {Place("hw_addr", 10, 6)} \cup At(16, fs),
            32, 32, "none")

ofp_queue_get_config_request ==
    Message(<<H("port"), Pad(2)>>, At(8, <<H("port")>>), 12, 12, "none")

ofp_queue_get_config_reply ==
    Message(<<H("port"), Pad(6)>>, At(8, <<H("port")>>), 16, 16, "dropped")

ofp_stats_request == Plain(<<H("type"), H("flags")>>, 12, Computed, "body")
ofp_stats_reply == Plain(<<H("type"), H("flags")>>, 12, Computed, "body")

packet_out_fixed_length ==
    Plain(<<L("buffer_id"), H("in_port"), H("actions_len")>>, 16, 16, "out")
ofp_packet_out ==
    Plain(<<L("buffer_id"), H("in_port"), H("actions_len")>>, 16, Computed, "out")

ofp_barrier_reply == HeaderOnly
ofp_barrier_request == HeaderOnly

ofp_packet_in ==
    Plain(<<L("buffer_id"), H("_total_len"), H("in_port"), B("reason"), Pad(1)>>,
          18, Computed, "data")

flow_removed_pad_forgotten ==
    LET what  == <<Q("cookie"), H("priority"), B("reason")>>
        times == <<L("duration_sec"), L("duration_nsec"), H("idle_timeout")>>
        count == <<Q("packet_count"), Q("byte_count")>> IN
    Message(ofp_match.pack \o what \o <<Pad(1)>> \o times \o <<Pad(2)>> \o count,
            Match(8) \cup At(48, what) \cup At(60, times) \cup At(70, count),
            88, 88, "none")
ofp_flow_removed ==
    LET what  == <<Q("cookie"), H("priority"), B("reason")>>
        times == <<L("duration_sec"), L("duration_nsec"), H("idle_timeout")>>
        count == <<Q("packet_count"), Q("byte_count")>> IN
    Message(ofp_match.pack \o what \o <<Pad(1)>> \o times \o <<Pad(2)>> \o count,
            Match(8) \cup At(48, what) \cup At(60, times) \cup At(72, count),
            88, 88, "none")

ofp_port_status ==
    Message(<<B("reason"), Pad(7)>> \o ofp_phy_port.pack,
            At(8, <<B("reason")>>)
                \cup {[p EXCEPT !.at = @ + 16] : p \in ofp_phy_port.reads},
            64, 64, "none")

ofp_error == Plain(<<H("type"), H("code")>>, 12, Computed, "dropped")

ofp_hello == HeaderOnly
ofp_echo_request == Plain(<<>>, 8, 8, "data")
ofp_echo_reply == Plain(<<>>, 8, 8, "data")
\* The length field keeps the 8 of ofp_header.__init__.
ofp_vendor_header == Plain(<<L("vendor")>>, 12, 8, "none")
ofp_vendor == Plain(<<L("vendor")>>, 12, Computed, "data")
ofp_features_request == HeaderOnly
ofp_get_config_request == HeaderOnly
ofp_get_config_reply == Plain(<<H("flags"), H("miss_send_len")>>, 12, 12, "none")
ofp_set_config == Plain(<<H("flags"), H("miss_send_len")>>, 12, 12, "none")
=============================================================================
