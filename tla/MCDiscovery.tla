---------------------------- MODULE MCDiscovery -----------------------------
EXTENDS Hosts

Setup(cables, n, k) ==
    [cables |-> cables, faults |-> n, overdue |-> k, app |-> "none", hosts |-> {}, plugs |-> {}]
WithHosts(name, those, ps) ==
    [Setup({Link(1, 1, 2, 1)}, 1, 1) EXCEPT !.app = name, !.hosts = those, !.plugs = ps]

\* A triangle with one fault; two switches with two cables between them; a switch between
\* two others, two of which lose their connections, one while links to the other are
\* being deleted; and two switches with hosts, also with two cables.
Triangle == {Link(1, 1, 2, 1), Link(2, 2, 3, 1), Link(3, 2, 1, 2)}
Double == {Link(1, 1, 2, 1), Link(1, 2, 2, 2)}
Star == {Link(1, 1, 2, 1), Link(1, 2, 3, 1)}
MCSetups ==
    {Setup(Triangle, 1, 1), Setup(Double, 2, 2), Setup(Star, 2, 0),
     WithHosts("l2_multi", {"h1", "h2"}, {<<1, 3>>, <<2, 3>>}),
     [WithHosts("l2_multi", {"h1"}, {<<1, 3>>}) EXCEPT !.cables = Double],
     WithHosts("host_tracker", {"h1"}, {<<1, 3>>})}
MCHosts == {s \in MCSetups : s.hosts # {}}

\* The star with links that expire too.
MCStar == {Setup(Star, 2, 2)}
=============================================================================
