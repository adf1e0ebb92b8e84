----------------------------- MODULE WireTables -----------------------------
(***************************************************************************)
(* The tables the streams are read with: every class and every element by  *)
(* name, what each side sends, and the messages that are tried.            *)
(***************************************************************************)
EXTENDS OpenFlowLayouts, VnsLayouts

-----------------------------------------------------------------------------
(* Classes.                                                                *)

\* The elements that can follow the fixed part of a message.  An action is
\* packed by its class; UnpacksItem says which class unpacks it.
ActionItem ==
    [output |-> ofp_action_output, vlan_vid |-> ofp_action_vlan_vid,
     vlan_pcp |-> ofp_action_vlan_pcp, dl_addr |-> ofp_action_dl_addr,
     nw_addr |-> ofp_action_nw_addr, nw_tos |-> ofp_action_nw_tos,
     tp_port |-> ofp_action_tp_port, enqueue |-> ofp_action_enqueue,
     push_mpls |-> ofp_action_push_mpls, pop_mpls |-> ofp_action_pop_mpls,
     mpls_label |-> ofp_action_mpls_label, mpls_tc |-> ofp_action_mpls_tc,
     mpls_ttl |-> ofp_action_mpls_ttl, mpls_dec_ttl |-> ofp_action_mpls_dec_ttl,
     resubmit |-> ofp_action_resubmit, vendor |-> ofp_action_vendor_header,
     strip_vlan |-> ofp_action_header]
StatsItem ==
    [desc_stats |-> ofp_desc_stats, flow_stats |-> ofp_flow_stats,
     aggregate_stats |-> ofp_aggregate_stats, table_stats |-> ofp_table_stats,
     port_stats |-> ofp_port_stats, queue_stats |-> ofp_queue_stats]
StatsRequestItem ==
    [flow_stats_request |-> ofp_flow_stats_request,
     aggregate_stats_request |-> ofp_aggregate_stats_request,
     port_stats_request |-> ofp_port_stats_request,
     queue_stats_request |-> ofp_queue_stats_request]
Data == Item(<<S("octets", 5)>>, {Place("octets", 0, 5)}, 5, 5, 5)
OtherItem ==
    [data |-> Data, phy_port |-> ofp_phy_port, queue |-> ofp_packet_queue,
     prop_header |-> ofp_queue_prop_header, min_rate |-> ofp_queue_prop_min_rate,
     role_data |-> role_data, interface |-> VNSInterface]
AllItems == ActionItem @@ StatsItem @@ StatsRequestItem @@ OtherItem

\* make_type_to_class_table: a class per OFPT_ constant, found by its name.
OfpClass ==
    [hello |-> ofp_hello, error |-> ofp_error, echo_request |-> ofp_echo_request,
     echo_reply |-> ofp_echo_reply, vendor |-> ofp_vendor,
     features_request |-> ofp_features_request, features_reply |-> ofp_features_reply,
     get_config_request |-> ofp_get_config_request,
     get_config_reply |-> ofp_get_config_reply, set_config |-> ofp_set_config,
     packet_in |-> ofp_packet_in, flow_removed |-> ofp_flow_removed,
     port_status |-> ofp_port_status, packet_out |-> ofp_packet_out,
     flow_mod |-> ofp_flow_mod, port_mod |-> ofp_port_mod,
     stats_request |-> ofp_stats_request, stats_reply |-> ofp_stats_reply,
     barrier_request |-> ofp_barrier_request, barrier_reply |-> ofp_barrier_reply,
     queue_get_config_request |-> ofp_queue_get_config_request,
     queue_get_config_reply |-> ofp_queue_get_config_reply]
\* Classes that can be packed but that no type is mapped to: the receiver
\* unpacks an ofp_vendor and an ofp_set_config.
AliasClass == [vendor_header |-> ofp_vendor_header, switch_config |-> ofp_switch_config]
VnsClass ==
    [open |-> VNSOpen, open_template |-> VNSOpenTemplate, auth_reply |-> VNSAuthReply,
     packet_from_sr |-> VNSPacketFromSr,
     packet |-> VNSPacket, close |-> VNSClose, banner |-> VNSBanner,
     hwinfo |-> VNSHardwareInfo, rtable |-> VNSRtable,
     auth_request |-> VNSAuthRequest, auth_status |-> VNSAuthStatus]
AllClasses == OfpClass @@ AliasClass @@ VnsClass
Unpacks(c) == CASE c = "vendor_header" -> ofp_vendor
                [] c = "switch_config" -> ofp_set_config
                [] OTHER -> AllClasses[c]

\* OFPAT_VENDOR has no entry in _action_map: _unpack_actions falls back on the
\* bare header, which skips the vendor.
UnpacksItem(u) == IF u = "vendor" THEN ofp_action_header ELSE AllItems[u]

\* What the layouts amount to: the octets written, what __len__ counts, what the
\* length field says, where unpack starts on the tail, and whether it reads
\* every field where it was packed.
ClassTable ==
    LET cs == AllClasses IN
    [c \in DOMAIN cs |->
       [octets |-> Octets(cs[c].pack), size |-> cs[c].size, length |-> cs[c].length,
        need |-> Unpacks(c).need, tail |-> Unpacks(c).tail,
        kept |-> Unpacks(c).reads = At(0, cs[c].pack)]]
ItemTable ==
    LET us == AllItems IN
    [u \in DOMAIN us |->
       [octets |-> Octets(us[u].pack), size |-> us[u].size,
        rest |-> UnpacksItem(u).rest,
        kept |-> UnpacksItem(u).reads = At(0, us[u].pack)]]

\* What each side sends.
SentTo ==
    [controller |->
        {"hello", "error", "echo_request", "echo_reply", "vendor", "vendor_header",
         "features_reply", "get_config_reply", "packet_in", "flow_removed",
         "port_status", "stats_reply", "barrier_reply", "queue_get_config_reply"},
     switch |->
        {"hello", "echo_request", "echo_reply", "vendor", "features_request",
         "get_config_request", "set_config", "switch_config", "packet_out",
         "flow_mod", "port_mod", "stats_request", "barrier_request",
         "queue_get_config_request"},
     sr |-> {"packet", "close", "banner", "hwinfo", "rtable", "auth_request", "auth_status"},
     bridge |-> {"open", "open_template", "auth_reply", "packet_from_sr"}]
=============================================================================
