---------------------------- MODULE ArpRefinement ----------------------------
(* ArpCache implements ArpResolver.                                        *)
EXTENDS ArpCache

\* The mapping sr_arpcache_lookup would return for ip, or Null.
Known(ip) == IF Cached(ip) THEN entries[CHOOSE i \in SlotsFor(ip) : TRUE].mac
                           ELSE Null

\* The packets on the request for ip, if one is queued.
Waiting(ip) == IF RequestsFor(ip) = {} THEN <<>>
                 ELSE req[CHOOSE r \in RequestsFor(ip) : TRUE].pkts

Resolver == INSTANCE ArpResolver WITH
    known <- [ip \in IP |-> Known(ip)],
    waiting <- [ip \in IP |-> Waiting(ip)]

\* Every step of the two threads and of the clock is a step of the resolver
\* or leaves it alone: a packet is sent, queued, lost or reported only as the
\* abstract resolver allows, and a mapping appears only through a reply and
\* disappears only through expiry.
ImplementsResolver == Resolver!Spec

=============================================================================
