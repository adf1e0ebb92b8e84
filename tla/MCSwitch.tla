------------------------------ MODULE MCSwitch ------------------------------
EXTENDS Switch

\* A request for the master role, one whose handler raises, a flow to the
\* controller for everything from a to b and a packet_out that rewrites.
MCRequests ==
    {Msg("master", 0, Free.pkt, <<>>), Msg("table_stats", 0, Free.pkt, <<>>),
     Msg("packet_out", 0, Packet("a", "b"),
         <<Act("set_dl_dst", "a"), Output(CONTROLLER), Act("push_mpls", 0), Act("pop_mpls", 0)>>)}
ASSUME MCRequestsApart == RequestsApart
MCHome == ("a" :> 1) @@ ("b" :> 2)
=============================================================================
