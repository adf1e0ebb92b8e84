---------------------------- MODULE MCVnsSession ----------------------------
(***************************************************************************)
(* An instance of VnsSession for TLC: two runs of sr, whose routing tables *)
(* use one and two of the interfaces, and a switch that may have any of    *)
(* them each time it connects.                                             *)
(***************************************************************************)
EXTENDS VnsSession, TLC

CONSTANTS s1, s2, eth1, eth2

MCRTable == s1 :> {eth1} @@ s2 :> {eth1, eth2}

\* The switch has the first port only, or both.
MCAnnounced == {{eth1}, {eth1, eth2}}

=============================================================================
