----------------------------- MODULE ArpResolver -----------------------------
(***************************************************************************)
(* What address resolution does for the packets of the router, seen from   *)
(* outside router/sr_arpcache.c: no mutex, threads, slots, request objects *)
(* or clocks.  Each address is known, waited for, or neither; each packet  *)
(* has a fate.  ArpCache implements this specification.                    *)
(***************************************************************************)
EXTENDS Sequences

CONSTANTS IP, MAC, Packet, Null

VARIABLES
    known,     \* the MAC the router would use for an address, or Null
    waiting,   \* the packets queued for an address, the newest first
    fate       \* what became of each packet

vars == <<known, waiting, fate>>

Waits(p, ip) == \E k \in DOMAIN waiting[ip] : waiting[ip][k] = p

Init ==
    /\ known = [ip \in IP |-> Null]
    /\ waiting = [ip \in IP |-> <<>>]
    /\ fate = [p \in Packet |-> "new"]

\* A packet arrives that must be forwarded.
Accept(p) ==
    /\ fate[p] = "new"
    /\ fate' = [fate EXCEPT ![p] = "held"]
    /\ UNCHANGED <<known, waiting>>

\* The mapping is known: the packet leaves.
SendNow(p, ip) ==
    /\ fate[p] = "held"
    /\ known[ip] # Null
    /\ fate' = [fate EXCEPT ![p] = "sent"]
    /\ UNCHANGED <<known, waiting>>

\* The mapping is not known: the packet waits.
Enqueue(p, ip) ==
    /\ fate[p] = "held"
    /\ known[ip] = Null
    /\ waiting' = [waiting EXCEPT ![ip] = <<p>> \o @]
    /\ fate' = [fate EXCEPT ![p] = "queued"]
    /\ UNCHANGED known

\* A reply for an address that is not known.  The mapping is stored if the
\* table has room.  Nobody waits for the address any more: the newest packet
\* is sent and the others are lost.
Resolve(ip, mac) ==
    /\ known[ip] = Null
    /\ known' \in {[known EXCEPT ![ip] = mac], known}
    /\ waiting' = [waiting EXCEPT ![ip] = <<>>]
    /\ fate' = [p \in Packet |->
                  IF ~Waits(p, ip) THEN fate[p]
                  ELSE IF p = waiting[ip][1] THEN "sent" ELSE "leaked"]

\* Old mappings are forgotten.
Expire(S) ==
    /\ known' = [ip \in IP |-> IF ip \in S THEN Null ELSE known[ip]]
    /\ UNCHANGED <<waiting, fate>>

\* The newest packet for an address is reported as undeliverable.  It goes on
\* waiting.
GiveUp(ip) ==
    /\ waiting[ip] # <<>>
    /\ fate' = [fate EXCEPT ![waiting[ip][1]] = "reported"]
    /\ UNCHANGED <<known, waiting>>

Next ==
    \/ \E p \in Packet : Accept(p)
    \/ \E p \in Packet, ip \in IP : SendNow(p, ip) \/ Enqueue(p, ip)
    \/ \E ip \in IP, mac \in MAC : Resolve(ip, mac)
    \/ \E S \in SUBSET IP : Expire(S)
    \/ \E ip \in IP : GiveUp(ip)

Spec == Init /\ [][Next]_vars

=============================================================================
