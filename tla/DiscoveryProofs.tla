--------------------------- MODULE DiscoveryProofs --------------------------
(***************************************************************************)
(* Proofs about Hosts and Discovery, for every network, whatever links     *)
(* come and go and wherever closed sockets are found (one of them where    *)
(* there are hosts, see HostsAssumption).                                  *)
(*                                                                         *)
(* host_tracker is the smaller part: EntriesOK says what an entry looks    *)
(* like, and that the addresses from ARP have expired when their host has. *)
(*                                                                         *)
(* The neighbours of l2_multi follow the links that Discovery knows with a *)
(* delay: each loop of _deleteLinks on the stack is raising a LinkEvent    *)
(* that l2_multi has not handled.  Linked says that they agree for all     *)
(* pairs of switches but those with such an event on the stack (Gone,      *)
(* Come); StackOK that a link whose removal is announced is out of the     *)
(* adjacency, also when loops are nested.  An empty stack leaves           *)
(* NeighboursAgree.  Where hosts may get is then a matter of one step      *)
(* (StaysOutside), which uses that a port has one cable.                   *)
(***************************************************************************)
EXTENDS Hosts, FiniteSetTheorems, TLAPS

-----------------------------------------------------------------------------
(* host_tracker.                                                           *)

\* What is known of an address, and of a host.
IsAddress(x) == x = [hasARP |-> x.hasARP, expired |-> x.expired, pending |-> x.pending]
IsEntry(x) == x = [dpid |-> x.dpid, port |-> x.port, heard |-> x.heard, ips |-> x.ips]

AddressesOK(ips) ==
    /\ ips = [i \in DOMAIN ips |-> ips[i]]
    /\ DOMAIN ips \subseteq Ip
    /\ \A i \in DOMAIN ips : IsAddress(ips[i])

\* Its addresses from ARP have expired when a host has.
ArpExpired(ips) == \A i \in DOMAIN ips : ips[i].hasARP => ips[i].expired

EntryOK(x) ==
    /\ IsEntry(x) /\ AddressesOK(x.ips)
    /\ x.heard \in {"recent", "quiet", "expired"}
    /\ x.heard = "expired" => ArpExpired(x.ips)

EntriesOK ==
    /\ setup \in Setups
    /\ entryByMAC = [h \in Mac |-> entryByMAC[h]]
    /\ \A h \in Mac : entryByMAC[h] # None => EntryOK(entryByMAC[h])

LEMMA OneMoreAddress ==
    ASSUME NEW ips, AddressesOK(ips), NEW ip \in Ip, NEW x, IsAddress(x)
    PROVE  AddressesOK([i \in DOMAIN ips \cup {ip} |-> IF i = ip THEN x ELSE ips[i]])
<1>. DEFINE more == [i \in DOMAIN ips \cup {ip} |-> IF i = ip THEN x ELSE ips[i]]
<1>1. /\ DOMAIN more = DOMAIN ips \cup {ip}
      /\ more = [i \in DOMAIN more |-> more[i]]
  OBVIOUS
<1>2. DOMAIN more \subseteq Ip
  BY <1>1 DEF AddressesOK
<1>3. ASSUME NEW i \in DOMAIN more PROVE IsAddress(more[i])
  <2>1. CASE i = ip
    BY <2>1, <1>1
  <2>2. CASE i # ip
    BY <2>2, <1>1 DEF AddressesOK
  <2>. QED
    BY <2>1, <2>2
<1>. HIDE DEF more
<1>. QED
  BY <1>1, <1>2, <1>3 DEF AddressesOK

LEMMA UpdatedAddresses ==
    ASSUME NEW ips, AddressesOK(ips), NEW ip \in Ip, NEW hasARP
    PROVE  AddressesOK(updateIPInfo(ips, ip, hasARP))
<1>. DEFINE old == IF ip \in DOMAIN ips THEN ips[ip] ELSE IpEntry(hasARP)
            new == [hasARP |-> old.hasARP, expired |-> FALSE,
                    pending |-> IF hasARP THEN 0 ELSE old.pending]
<1>1. IsAddress(old)
  BY DEF AddressesOK, IsAddress, IpEntry
<1>2. IsAddress(new)
  BY DEF IsAddress
<1>3. updateIPInfo(ips, ip, hasARP)
        = [i \in DOMAIN ips \cup {ip} |-> IF i = ip THEN new ELSE ips[i]]
  BY DEF updateIPInfo
<1>. HIDE DEF old, new
<1>. QED
  BY <1>2, <1>3, OneMoreAddress

LEMMA WithoutAddresses ==
    ASSUME NEW ips, AddressesOK(ips), NEW gone
    PROVE  /\ AddressesOK(Without(ips, gone))
           /\ DOMAIN Without(ips, gone) = DOMAIN ips \ gone
           /\ \A i \in DOMAIN ips \ gone : Without(ips, gone)[i] = ips[i]
BY DEF AddressesOK, Without

\* An entry with other addresses, or heard of at another time.
WithIps(x, ips) == [x EXCEPT !.ips = ips]
WithHeard(x, heard) == [x EXCEPT !.heard = heard]

LEMMA EntryFields ==
    ASSUME NEW x, IsEntry(x), NEW heard, NEW ips
    PROVE  /\ IsEntry(WithIps(x, ips))
           /\ WithIps(x, ips).ips = ips /\ WithIps(x, ips).heard = x.heard
           /\ IsEntry(WithHeard(x, heard))
           /\ WithHeard(x, heard).ips = x.ips /\ WithHeard(x, heard).heard = heard
<1>1. PICK a, b, c, d : x = [dpid |-> a, port |-> b, heard |-> c, ips |-> d]
  BY DEF IsEntry
<1>2. WithIps(x, ips) = [dpid |-> a, port |-> b, heard |-> c, ips |-> ips]
  BY <1>1 DEF WithIps
<1>3. WithHeard(x, heard) = [dpid |-> a, port |-> b, heard |-> heard, ips |-> d]
  BY <1>1 DEF WithHeard
<1>. QED
  BY <1>1, <1>2, <1>3 DEF IsEntry

LEMMA OverAddress ==
    ASSUME NEW x, IsAddress(x), NEW y \in BOOLEAN
    PROVE  /\ IsAddress([x EXCEPT !.expired = y])
           /\ [x EXCEPT !.expired = y].hasARP = x.hasARP
           /\ [x EXCEPT !.expired = y].expired = y
<1>1. PICK a, b, c : x = [hasARP |-> a, expired |-> b, pending |-> c]
  BY DEF IsAddress
<1>2. [x EXCEPT !.expired = y] = [hasARP |-> a, expired |-> y, pending |-> c]
  BY <1>1
<1>. QED
  BY <1>1, <1>2 DEF IsAddress

LEMMA SentAddress ==
    ASSUME NEW x, IsAddress(x)
    PROVE  /\ IsAddress(sent(x))
           /\ sent(x).hasARP = x.hasARP /\ sent(x).expired = x.expired
<1>1. PICK a, b, c : x = [hasARP |-> a, expired |-> b, pending |-> c]
  BY DEF IsAddress
<1>2. PICK q : q = x.pending + 2
  OBVIOUS
<1>3. sent(x) = [hasARP |-> a, expired |-> b, pending |-> q]
  BY <1>1, <1>2 DEF sent
<1>. QED
  BY <1>1, <1>3 DEF IsAddress

LEMMA EntrySet ==
    ASSUME EntriesOK, NEW h \in Mac, NEW x, x # None => EntryOK(x),
           entryByMAC' = [entryByMAC EXCEPT ![h] = x], setup' = setup
    PROVE  EntriesOK'
<1>1. entryByMAC' = [g \in Mac |-> IF g = h THEN x ELSE entryByMAC[g]]
  BY DEF EntriesOK
<1>2. /\ entryByMAC' = [g \in Mac |-> entryByMAC'[g]]
      /\ \A g \in Mac : entryByMAC'[g] = IF g = h THEN x ELSE entryByMAC[g]
  BY <1>1
<1>. QED
  BY <1>2 DEF EntriesOK

\* A frame was seen.
LEMMA SeenKeeps ==
    ASSUME EntriesOK, NEW h \in Mac, NEW e, NEW info \in getSrcIPandARP,
           HostSeen(h, e, info)
    PROVE  EntriesOK' /\ checking' = checking
<1>. DEFINE old == entryByMAC[h]
            entry == IF old = None THEN MacEntry(e)
                     ELSE [dpid |-> e[1], port |-> old.port, heard |-> "recent",
                           ips |-> old.ips]
            new == IF info[1] = None THEN entry
                   ELSE [entry EXCEPT !.ips = updateIPInfo(@, info[1], info[2])]
<1>1. entryByMAC' = [entryByMAC EXCEPT ![h] = new] /\ setup' = setup /\ checking' = checking
  BY DEF HostSeen, Set, vars, netVars
<1>2. EntryOK(entry) /\ entry.heard = "recent"
  <2>1. CASE old = None
    <3>1. entry = [dpid |-> e[1], port |-> e[2], heard |-> "recent", ips |-> <<>>]
      BY <2>1 DEF MacEntry
    <3>2. AddressesOK(<<>>)
      BY DEF AddressesOK
    <3>. HIDE DEF entry
    <3>. QED
      BY <3>1, <3>2 DEF EntryOK, IsEntry
  <2>2. CASE old # None
    <3>1. entry = [dpid |-> e[1], port |-> old.port, heard |-> "recent", ips |-> old.ips]
      BY <2>2
    <3>2. AddressesOK(old.ips)
      BY <2>2 DEF EntriesOK, EntryOK
    <3>. HIDE DEF entry, old
    <3>. QED
      BY <3>1, <3>2 DEF EntryOK, IsEntry
  <2>. QED
    BY <2>1, <2>2
<1>3. EntryOK(new)
  <2>. HIDE DEF entry
  <2>1. CASE info[1] = None
    BY <2>1, <1>2
  <2>2. CASE info[1] # None
    <3>1. info[1] \in Ip /\ info[2] \in BOOLEAN
      <4>1. CASE info = <<None, FALSE>>
        BY <4>1, <2>2
      <4>2. CASE info \in Ip \X BOOLEAN
        BY <4>2
      <4>. QED
        BY <4>1, <4>2 DEF getSrcIPandARP
    <3>2. PICK ips : ips = updateIPInfo(entry.ips, info[1], info[2])
      OBVIOUS
    <3>3. AddressesOK(ips)
      BY <3>1, <3>2, <1>2, UpdatedAddresses DEF EntryOK
    <3>4. new = WithIps(entry, ips)
      BY <2>2, <3>2 DEF WithIps
    <3>. HIDE DEF new
    <3>5. IsEntry(new) /\ new.ips = ips /\ new.heard = entry.heard
      <4>1. IsEntry(entry)
        BY <1>2, Zenon DEF EntryOK
      <4>. QED
        BY <3>4, <4>1, EntryFields, Zenon
    <3>. QED
      BY <3>3, <3>5, <1>2 DEF EntryOK
  <2>. QED
    BY <2>1, <2>2
<1>. HIDE DEF new
<1>. QED
  BY <1>1, <1>3, EntrySet

\* The addresses of a host one of which, or each of which, may be over.
Overdue(ips, over) ==
    [i \in DOMAIN ips |-> [ips[i] EXCEPT !.expired = over[i]]]

LEMMA OverdueAddresses ==
    ASSUME NEW ips, AddressesOK(ips), NEW over \in [DOMAIN ips -> BOOLEAN]
    PROVE  /\ AddressesOK(Overdue(ips, over))
           /\ DOMAIN Overdue(ips, over) = DOMAIN ips
           /\ \A i \in DOMAIN ips : /\ Overdue(ips, over)[i].hasARP = ips[i].hasARP
                                    /\ Overdue(ips, over)[i].expired = over[i]
<1>. DEFINE new(i) == [ips[i] EXCEPT !.expired = over[i]]
<1>1. ASSUME NEW i \in DOMAIN ips
      PROVE  IsAddress(new(i)) /\ new(i).hasARP = ips[i].hasARP /\ new(i).expired = over[i]
  BY OverAddress DEF AddressesOK
<1>2. Overdue(ips, over) = [i \in DOMAIN ips |-> new(i)]
  BY Zenon DEF Overdue
<1>. HIDE DEF new
<1>. QED
  BY <1>1, <1>2 DEF AddressesOK

\* Time passes.
LEMMA QuietKeeps ==
    ASSUME EntriesOK, NEW h \in Mac, Quiet(h)
    PROVE  EntriesOK' /\ checking' = checking
<1>. DEFINE old == entryByMAC[h]
            over == [i \in DOMAIN old.ips |->
                       old.ips[i].expired \/ ExpiresWithHost(old.ips[i].hasARP)]
            ips == [i \in DOMAIN old.ips |-> [old.ips[i] EXCEPT !.expired = over[i]]]
            new == IF old.heard = "recent" THEN WithHeard(old, "quiet")
                   ELSE [dpid |-> old.dpid, port |-> old.port, heard |-> "expired", ips |-> ips]
<1>1. /\ entryByMAC' = [entryByMAC EXCEPT ![h] = new]
      /\ setup' = setup /\ checking' = checking /\ old # None
  BY DEF Quiet, Set, vars, netVars, WithHeard
<1>2. EntryOK(old) /\ IsEntry(old) /\ AddressesOK(old.ips)
  BY <1>1 DEF EntriesOK, EntryOK
<1>3. EntryOK(new)
  <2>1. CASE old.heard = "recent"
    <3>1. new = WithHeard(old, "quiet")
      BY <2>1
    <3>. HIDE DEF new, old
    <3>. QED
      BY <3>1, <1>2, EntryFields DEF EntryOK
  <2>2. CASE old.heard # "recent"
    <3>1. new = [dpid |-> old.dpid, port |-> old.port, heard |-> "expired", ips |-> ips]
      BY <2>2
    <3>. HIDE DEF old
    <3>2. /\ over \in [DOMAIN old.ips -> BOOLEAN]
          /\ \A i \in DOMAIN old.ips : old.ips[i].hasARP => over[i]
      BY DEF ExpiresWithHost
    <3>3. ips = Overdue(old.ips, over)
      BY DEF Overdue
    <3>. HIDE DEF ips, over
    <3>4. AddressesOK(ips) /\ ArpExpired(ips)
      BY <1>2, <3>2, <3>3, OverdueAddresses DEF ArpExpired
    <3>. HIDE DEF new
    <3>. QED
      BY <3>1, <3>4 DEF EntryOK, IsEntry
  <2>. QED
    BY <2>1, <2>2
<1>. HIDE DEF new
<1>. QED
  BY <1>1, <1>3, EntrySet

LEMMA IpQuietKeeps ==
    ASSUME EntriesOK, NEW h \in Mac, NEW ip \in Ip, IpQuiet(h, ip)
    PROVE  EntriesOK' /\ checking' = checking
<1>. DEFINE old == entryByMAC[h]
            new == [old EXCEPT !.ips[ip].expired = TRUE]
<1>1. /\ entryByMAC' = [entryByMAC EXCEPT ![h] = new]
      /\ setup' = setup /\ checking' = checking /\ old # None /\ ip \in DOMAIN old.ips
  BY DEF IpQuiet, Set, vars, netVars
<1>2. EntryOK(old) /\ IsEntry(old) /\ AddressesOK(old.ips)
  BY <1>1 DEF EntriesOK, EntryOK
<1>. HIDE DEF old
<1>3. PICK ips : ips = [old.ips EXCEPT ![ip].expired = TRUE]
  OBVIOUS
<1>4. new = WithIps(old, ips)
  BY <1>3 DEF WithIps
<1>5. /\ DOMAIN ips = DOMAIN old.ips /\ ips = [i \in DOMAIN ips |-> ips[i]]
      /\ ips[ip] = [old.ips[ip] EXCEPT !.expired = TRUE]
      /\ \A i \in DOMAIN ips \ {ip} : ips[i] = old.ips[i]
  BY <1>1, <1>3
<1>6. IsAddress(ips[ip]) /\ ips[ip].expired = TRUE
  BY <1>1, <1>2, <1>5, OverAddress DEF AddressesOK
<1>7. AddressesOK(ips) /\ (ArpExpired(old.ips) => ArpExpired(ips))
  BY <1>2, <1>5, <1>6 DEF AddressesOK, ArpExpired
<1>8. EntryOK(new)
  <2>. HIDE DEF new
  <2>. QED
    BY <1>2, <1>4, <1>7, EntryFields DEF EntryOK
<1>. HIDE DEF new
<1>. QED
  BY <1>1, <1>8, EntrySet

\* ips is what is left of the addresses of x when those in reached were pinged.
LeftOver(x, reached, ips) ==
    /\ AddressesOK(ips)
    /\ DOMAIN ips = DOMAIN x.ips \ (Failed(x) \cup (Pinged(x) \ reached))
    /\ \A i \in DOMAIN ips : /\ ips[i].hasARP = x.ips[i].hasARP
                             /\ ips[i].expired = x.ips[i].expired

LEMMA AddressesPinged ==
    ASSUME NEW x, EntryOK(x), NEW reached
    PROVE  LeftOver(x, reached, AfterPings(x, reached))
<1>. DEFINE gone == Failed(x) \cup (Pinged(x) \ reached)
            kept == Without(x.ips, gone)
            ips == AfterPings(x, reached)
<1>. HIDE DEF gone
<1>1. AddressesOK(x.ips)
  BY DEF EntryOK
<1>2. /\ AddressesOK(kept) /\ DOMAIN kept = DOMAIN x.ips \ gone
      /\ \A i \in DOMAIN x.ips \ gone : kept[i] = x.ips[i]
  BY <1>1, WithoutAddresses
<1>3. ips = [i \in DOMAIN kept |-> IF i \in reached THEN sent(kept[i]) ELSE kept[i]]
  BY Zenon DEF AfterPings, gone
<1>. HIDE DEF kept, ips
<1>4. DOMAIN ips = DOMAIN kept /\ ips = [i \in DOMAIN ips |-> ips[i]]
  BY <1>3
<1>5. ASSUME NEW i \in DOMAIN ips
      PROVE  /\ IsAddress(ips[i])
             /\ ips[i].hasARP = kept[i].hasARP /\ ips[i].expired = kept[i].expired
  <2>1. IsAddress(kept[i])
    BY <1>2, <1>4 DEF AddressesOK
  <2>2. ips[i] = IF i \in reached THEN sent(kept[i]) ELSE kept[i]
    BY <1>3, <1>4
  <2>. QED
    BY <2>1, <2>2, SentAddress
<1>6. AddressesOK(ips)
  BY <1>2, <1>4, <1>5 DEF AddressesOK
<1>7. LeftOver(x, reached, ips)
  BY <1>2, <1>4, <1>5, <1>6 DEF LeftOver, gone
<1>. QED
  BY <1>7 DEF ips

LEMMA TwoElements ==
    ASSUME NEW a, NEW b, a # b
    PROVE  Cardinality({a, b}) = 2
<1>. DEFINE one == {b}
<1>1. IsFiniteSet(one) /\ Cardinality(one) = 1 /\ a \notin one
  BY FS_Singleton
<1>2. {a, b} = one \cup {a}
  OBVIOUS
<1>. HIDE DEF one
<1>3. Cardinality(one \cup {a}) = Cardinality(one) + 1
  BY <1>1, FS_AddElement
<1>. QED
  BY <1>1, <1>2, <1>3

\* An expired host that was not pinged keeps the addresses that have not expired, none
\* of which is from ARP; a KeyError needs one that is not the last of the loop.
LEMMA TimerEndsOverIp ==
    ASSUME NEW x, EntryOK(x), x # None, NEW reached \in Reached(x),
           x.heard = "expired", Pinged(x) = {},
           NEW last \in DOMAIN x.ips \cup {None}, last = None <=> DOMAIN x.ips = {},
           DOMAIN AfterPings(x, reached) \notin {{}, {last}}
    PROVE  EndsTimer(x)
<1>. DEFINE left == DOMAIN AfterPings(x, reached)
<1>1. left = DOMAIN x.ips \ Failed(x)
  <2>1. left = DOMAIN x.ips \ (Failed(x) \cup (Pinged(x) \ reached))
    BY AddressesPinged, Zenon DEF LeftOver
  <2>. QED
    BY <2>1
<1>2. PICK i \in left : i # last
  OBVIOUS
<1>3. i \in DOMAIN x.ips /\ ~x.ips[i].expired
  BY <1>1, <1>2 DEF Failed, Pinged
<1>4. ~x.ips[i].hasARP
  BY <1>3 DEF EntryOK, ArpExpired
<1>5. last \in DOMAIN x.ips
  BY <1>3
<1>6. IsFiniteSet(DOMAIN x.ips)
  BY FS_Subset, HostsAssumption DEF EntryOK, AddressesOK
<1>7. Cardinality(DOMAIN x.ips) > 1
  <2>1. {i, last} \subseteq DOMAIN x.ips
    BY <1>3, <1>5
  <2>2. Cardinality({i, last}) = 2
    BY <1>2, TwoElements
  <2>3. Cardinality({i, last}) <= Cardinality(DOMAIN x.ips)
    BY <2>1, <1>6, FS_Subset
  <2>4. Cardinality(DOMAIN x.ips) \in Nat
    BY <1>6, FS_CardinalityType
  <2>. QED
    BY <2>2, <2>3, <2>4
<1>. QED
  BY <1>3, <1>4, <1>7 DEF EndsTimer

LEMMA TimeoutsKeep ==
    ASSUME EntriesOK, NEW h \in Mac, _check_timeouts(h)
    PROVE  EntriesOK' /\ (checking' \/ EndsTimer(entryByMAC[h]))
<1>. DEFINE entry == entryByMAC[h]
<1>1. entry # None /\ EntryOK(entry) /\ IsEntry(entry) /\ setup' = setup /\ checking
  BY DEF _check_timeouts, EntriesOK, EntryOK, netVars
<1>2. PICK reached \in Reached(entry) :
        LET ips == AfterPings(entry, reached)
            goes == entry.heard = "expired" /\ Pinged(entry) = {} IN
        \E last \in DOMAIN entry.ips \cup {None} :
          /\ last = None <=> DOMAIN entry.ips = {}
          /\ IF goes /\ DOMAIN ips \in {{}, {last}}
             THEN Set(h, None) /\ UNCHANGED checking
             ELSE /\ Set(h, [entry EXCEPT !.ips = IF goes THEN Without(ips, {last}) ELSE ips])
                  /\ checking' = ~goes
  BY Zenon DEF _check_timeouts
<1>. DEFINE ips == AfterPings(entry, reached)
            goes == entry.heard = "expired" /\ Pinged(entry) = {}
<1>3. PICK last \in DOMAIN entry.ips \cup {None} :
          /\ last = None <=> DOMAIN entry.ips = {}
          /\ IF goes /\ DOMAIN ips \in {{}, {last}}
             THEN Set(h, None) /\ UNCHANGED checking
             ELSE /\ Set(h, WithIps(entry, IF goes THEN Without(ips, {last}) ELSE ips))
                  /\ checking' = ~goes
  BY <1>2, Zenon DEF WithIps
<1>4. CASE goes /\ DOMAIN ips \in {{}, {last}}
  <2>1. entryByMAC' = [entryByMAC EXCEPT ![h] = None] /\ checking' = checking
    BY <1>3, <1>4, Zenon DEF Set
  <2>. QED
    BY <1>1, <2>1, EntrySet
<1>5. CASE ~(goes /\ DOMAIN ips \in {{}, {last}})
  <2>. DEFINE kept == IF goes THEN Without(ips, {last}) ELSE ips
  <2>1. /\ entryByMAC' = [entryByMAC EXCEPT ![h] = WithIps(entry, kept)]
        /\ checking' = ~goes
    BY <1>3, <1>5, Zenon DEF Set
  <2>2. /\ AddressesOK(ips) /\ (entry.heard = "expired" => ArpExpired(ips))
    <3>1. LeftOver(entry, reached, ips)
      BY <1>1, AddressesPinged, Zenon
    <3>. HIDE DEF ips, entry
    <3>. QED
      BY <1>1, <3>1 DEF LeftOver, EntryOK, ArpExpired
  <2>3. AddressesOK(kept) /\ (entry.heard = "expired" => ArpExpired(kept))
    <3>. HIDE DEF ips
    <3>1. /\ AddressesOK(Without(ips, {last}))
          /\ DOMAIN Without(ips, {last}) = DOMAIN ips \ {last}
          /\ \A i \in DOMAIN ips \ {last} : Without(ips, {last})[i] = ips[i]
      BY <2>2, WithoutAddresses, Zenon
    <3>2. ArpExpired(ips) => ArpExpired(Without(ips, {last}))
      BY <3>1 DEF ArpExpired
    <3>. QED
      BY <2>2, <3>1, <3>2
  <2>4. EntryOK(WithIps(entry, kept))
    <3>. HIDE DEF kept
    <3>. QED
      BY <1>1, <2>3, EntryFields DEF EntryOK
  <2>5. checking' \/ EndsTimer(entry)
    <3>1. CASE goes
      BY <3>1, <1>1, <1>3, <1>5, TimerEndsOverIp
    <3>2. CASE ~goes
      BY <3>2, <2>1
    <3>. QED
      BY <3>1, <3>2
  <2>. HIDE DEF kept, goes, ips
  <2>. QED
    BY <1>1, <2>1, <2>4, <2>5, EntrySet
<1>. QED
  BY <1>4, <1>5

LEMMA EntriesStart == HInit => EntriesOK
BY DEF HInit, Init, EntriesOK

\* What the steps without host_tracker leave alone.
LEMMA ElsewhereKeeps == Elsewhere => setup' = setup
BY DEF Elsewhere, DeleteLink, PushTree, NoticeClosed, PacketIn, Expire, ConnectionUp,
       Close, TimerHandler, PortAdded, PortDeleted, Cut, Mend, netVars

LEMMA EntriesStep ==
    ASSUME EntriesOK, [HNext]_allVars
    PROVE  EntriesOK' /\ (checking /\ ~checking' => \E h \in Mac : EndsTimer(entryByMAC[h]))
<1>. DEFINE Same == setup' = setup /\ entryByMAC' = entryByMAC /\ checking' = checking
            Goal == EntriesOK' /\ (checking /\ ~checking' =>
                                     \E h \in Mac : EndsTimer(entryByMAC[h]))
<1>. SUFFICES Goal
  OBVIOUS
<1>1. setup.hosts \subseteq Mac
  BY HostsAssumption DEF EntriesOK
<1>2. Same => Goal
  BY DEF EntriesOK
<1>3. CASE LinkEventHandled
  BY <1>2, <1>3 DEF LinkEventHandled, HandleLinkEvent, netVars
<1>4. CASE Elsewhere /\ UNCHANGED hostVars
  BY <1>2, <1>4, ElsewhereKeeps DEF hostVars
<1>5. CASE CalcPaths /\ UNCHANGED hostVars
  BY <1>2, <1>5 DEF CalcPaths, hostVars, netVars
<1>6. ASSUME NEW h \in setup.hosts, NEW e \in Ends \cup setup.plugs,
             \/ Flood(h, e)
             \/ \E dst \in setup.hosts \ {h} : InstallPath(h, e, dst)
             \/ \E info \in getSrcIPandARP : HostSeen(h, e, info)
      PROVE  Goal
  <2>1. CASE Flood(h, e)
    BY <1>2, <2>1 DEF Flood, netVars
  <2>2. CASE \E dst \in setup.hosts \ {h} : InstallPath(h, e, dst)
    BY <1>2, <2>2 DEF InstallPath, netVars
  <2>3. CASE \E info \in getSrcIPandARP : HostSeen(h, e, info)
    BY <1>1, <2>3, SeenKeeps
  <2>. QED
    BY <1>6, <2>1, <2>2, <2>3
<1>7. ASSUME NEW h \in setup.hosts,
             Quiet(h) \/ _check_timeouts(h) \/ \E ip \in Ip : IpQuiet(h, ip)
      PROVE  Goal
  <2>1. CASE Quiet(h)
    BY <1>1, <2>1, QuietKeeps
  <2>2. CASE _check_timeouts(h)
    BY <1>1, <2>2, TimeoutsKeep
  <2>3. CASE \E ip \in Ip : IpQuiet(h, ip)
    BY <1>1, <2>3, IpQuietKeeps
  <2>. QED
    BY <1>7, <2>1, <2>2, <2>3
<1>8. CASE UNCHANGED allVars
  <2>1. Same
    BY <1>8 DEF allVars, vars, netVars, hostVars
  <2>. QED
    BY <1>2, <2>1
<1>. HIDE DEF Goal
<1>. QED
  BY <1>3, <1>4, <1>5, <1>6, <1>7, <1>8, Zenon DEF HNext

\* The timer that forgets silent hosts ends only over a host with two addresses at
\* least, one of which it never saw in ARP (host_tracker.py:295-316), whatever hosts,
\* addresses and moves there are and wherever the closed socket is found that
\* HostsAssumption allows.
THEOREM TimerEndsOnlyOverIp == HSpec => TimerOutlivesArpHosts
<1>1. EntriesOK /\ [HNext]_allVars => EntriesOK'
  BY EntriesStep
<1>2. EntriesOK /\ [HNext]_allVars
        => [checking /\ ~checking' => \E h \in Mac : EndsTimer(entryByMAC[h])]_allVars
  BY EntriesStep
<1>. QED
  BY <1>1, <1>2, EntriesStart, PTL DEF HSpec, TimerOutlivesArpHosts

-----------------------------------------------------------------------------
(* The stack of loops.                                                     *)

\* A port has one cable, and a cable joins two switches.
LEMMA CableFacts ==
    ASSUME setup \in Setups
    PROVE  /\ \A l \in Cables : /\ l = Link(l.dpid1, l.port1, l.dpid2, l.port2)
                                /\ l.dpid1 # l.dpid2
                                /\ flip(l) \in Cables /\ flip(flip(l)) = l /\ flip(l) # l
           /\ \A l, k \in Cables : Source(l) = Source(k) => l = k
<1>. DEFINE Good(l) == /\ l = Link(l.dpid1, l.port1, l.dpid2, l.port2)
                       /\ l.dpid1 # l.dpid2
<1>1. \A l \in topology : Good(l)
  BY DiscoveryAssumption, Zenon DEF topology
<1>2. \A l \in topology : Good(flip(l)) /\ flip(flip(l)) = l
  BY <1>1 DEF flip, Link
<1>3. \A l \in Cables : Good(l)
  BY <1>1, <1>2, Zenon DEF Cables
<1>4. \A l \in Cables : flip(l) \in Cables /\ flip(flip(l)) = l
  <2>. HIDE DEF Good
  <2>1. ASSUME NEW l \in topology PROVE flip(l) \in Cables /\ flip(flip(l)) = l
    BY <1>2 DEF Cables
  <2>2. ASSUME NEW l \in topology PROVE flip(flip(l)) \in Cables /\ flip(flip(flip(l))) = flip(l)
    BY <1>2 DEF Cables
  <2>. QED
    BY <2>1, <2>2 DEF Cables
<1>5. \A l \in Cables : flip(l) # l
  BY <1>3 DEF flip, Link
<1>6. \A l, k \in topology :
         /\ Source(l) = Source(k) => l = k
         /\ Target(l) = Target(k) => l = k
         /\ Source(l) = Target(k) => l = k
  <2>. HIDE DEF Good
  <2>1. \A l, k \in topology : {Source(l), Target(l)} \cap {Source(k), Target(k)} # {} => l = k
    BY DiscoveryAssumption, Zenon DEF topology
  <2>. QED
    BY <2>1
<1>7. \A l \in topology : Source(l) # Target(l)
  BY <1>1 DEF Source, Target
<1>8. \A l : Source(flip(l)) = Target(l)
  BY DEF Source, Target, flip, Link
<1>9. ASSUME NEW l \in Cables, NEW k \in Cables, Source(l) = Source(k)
      PROVE  l = k
  <2>. HIDE DEF Good
  <2>1. CASE l \in topology /\ k \in topology
    BY <1>6, <1>9, <2>1
  <2>2. ASSUME NEW a \in topology, NEW b \in topology, Source(a) = Source(flip(b))
        PROVE  FALSE
    BY <1>6, <1>7, <1>8, <2>2
  <2>3. ASSUME NEW a \in topology, NEW b \in topology, Source(flip(a)) = Source(flip(b))
        PROVE  flip(a) = flip(b)
    BY <1>6, <1>8, <2>3
  <2>. QED
    BY <1>9, <2>1, <2>2, <2>3 DEF Cables
<1>. QED
  BY <1>3, <1>4, <1>5, <1>9

\* The trees that may be computed, whatever they are.
Trees == {{}} \cup {_calc_spanning_tree(adj) : adj \in UNION {Culled(links) : links \in SUBSET Cables}}
Heads == {l.dpid1 : l \in UNION Trees}

Frames == [left : SUBSET Cables, cur : Cables \cup {None}, for : {"add", "expire", "down"},
           tree : Trees, untold : SUBSET Heads]

\* The event of a link that has gone, or has come, waits on s to be handled.
GoneOn(f, p) == f.for # "add" /\ f.cur # None /\ {f.cur.dpid1, f.cur.dpid2} = p
ComeOn(f, l) == f.for = "add" /\ f.cur = l
Gone(s, p) == \E i \in 1..Len(s) : GoneOn(s[i], p)
Come(s, l) == \E i \in 1..Len(s) : ComeOn(s[i], l)

\* Links come only at the bottom of the stack; links that go have left the adjacency.
FrameOK(f, adj) ==
    /\ f.for # "add" /\ f.cur # None => f.cur \notin adj
    /\ f.for = "add" => f.cur # None /\ f.left = {}
StackOK(s, adj) ==
    /\ s \in Seq(Frames)
    /\ \A i \in 1..Len(s) : FrameOK(s[i], adj) /\ (s[i].for = "add" => i = Len(s))

LEMMA OnTop ==
    ASSUME NEW f \in Frames, NEW s \in Seq(Frames)
    PROVE  LET t == <<f>> \o s IN
           /\ t \in Seq(Frames) /\ Len(t) = Len(s) + 1 /\ t # <<>> /\ t[1] = f
           /\ \A i \in 1..Len(s) : t[i + 1] = s[i]
           /\ Head(t) = f /\ Tail(t) = s
OBVIOUS

LEMMA TakenOff ==
    ASSUME NEW s \in Seq(Frames), s # <<>>
    PROVE  Head(s) \in Frames /\ Tail(s) \in Seq(Frames) /\ s = <<Head(s)>> \o Tail(s)
OBVIOUS

LEMMA EventsOnTop ==
    ASSUME NEW f \in Frames, NEW s \in Seq(Frames)
    PROVE  /\ \A p : Gone(<<f>> \o s, p) <=> GoneOn(f, p) \/ Gone(s, p)
           /\ \A l : Come(<<f>> \o s, l) <=> ComeOn(f, l) \/ Come(s, l)
           /\ \A adj : StackOK(<<f>> \o s, adj) <=>
                /\ FrameOK(f, adj) /\ StackOK(s, adj)
                /\ f.for = "add" => s = <<>>
<1>. DEFINE t == <<f>> \o s
<1>1. /\ t \in Seq(Frames) /\ Len(t) = Len(s) + 1 /\ t[1] = f /\ Len(s) \in Nat
      /\ \A i \in 1..Len(s) : t[i + 1] = s[i]
  BY OnTop
<1>. HIDE DEF t
<1>2. \A i : i \in 1..Len(t) <=> i = 1 \/ (i - 1 \in 1..Len(s) /\ i \in Int)
  BY <1>1
<1>3. \A i \in 1..Len(s) : i + 1 \in 1..Len(t) /\ t[i + 1] = s[i]
  BY <1>1
<1>4. \A i \in 1..Len(t) : i = 1 \/ \E j \in 1..Len(s) : i = j + 1 /\ t[i] = s[j]
  BY <1>1
<1>5. 1 \in 1..Len(t)
  BY <1>1
<1>6. \A p : Gone(t, p) <=> GoneOn(f, p) \/ Gone(s, p)
  BY <1>1, <1>3, <1>4, <1>5, Zenon DEF Gone
<1>7. \A l : Come(t, l) <=> ComeOn(f, l) \/ Come(s, l)
  BY <1>1, <1>3, <1>4, <1>5, Zenon DEF Come
<1>8. ASSUME NEW adj
      PROVE  StackOK(t, adj) <=> /\ FrameOK(f, adj) /\ StackOK(s, adj)
                                 /\ f.for = "add" => s = <<>>
  <2>1. ASSUME StackOK(t, adj)
        PROVE  FrameOK(f, adj) /\ StackOK(s, adj) /\ (f.for = "add" => s = <<>>)
    <3>1. FrameOK(f, adj) /\ (f.for = "add" => 1 = Len(t))
      BY <1>1, <1>5, <2>1 DEF StackOK
    <3>2. 1 = Len(t) => s = <<>>
      BY <1>1
    <3>3. ASSUME NEW i \in 1..Len(s)
          PROVE  FrameOK(s[i], adj) /\ (s[i].for = "add" => i = Len(s))
      <4>1. FrameOK(t[i + 1], adj) /\ (t[i + 1].for = "add" => i + 1 = Len(t))
        BY <1>3, <2>1 DEF StackOK
      <4>. QED
        BY <4>1, <1>1, <1>3
    <3>. QED
      BY <3>1, <3>2, <3>3 DEF StackOK
  <2>2. ASSUME FrameOK(f, adj), StackOK(s, adj), f.for = "add" => s = <<>>
        PROVE  StackOK(t, adj)
    <3>1. ASSUME NEW i \in 1..Len(t)
          PROVE  FrameOK(t[i], adj) /\ (t[i].for = "add" => i = Len(t))
      <4>1. CASE i = 1
        BY <4>1, <2>2, <1>1
      <4>2. ASSUME NEW j \in 1..Len(s), i = j + 1, t[i] = s[j]
            PROVE  FrameOK(t[i], adj) /\ (t[i].for = "add" => i = Len(t))
        BY <4>2, <2>2, <1>1 DEF StackOK
      <4>. QED
        BY <4>1, <4>2, <1>4
    <3>. QED
      BY <1>1, <3>1 DEF StackOK
  <2>. QED
    BY <2>1, <2>2
<1>. QED
  BY <1>6, <1>7, <1>8, Zenon DEF t

\* All links are cables.
NetOK ==
    /\ setup \in Setups
    /\ lldp \subseteq Cables /\ adjacency \subseteq Cables /\ ports \subseteq Cables
    /\ StackOK(stack, adjacency)

\* The neighbours of l2_multi are right but for the pairs whose events wait.
Pair(l) == {l.dpid1, l.dpid2}
Linked ==
    /\ \A l \in ports : flip(l) \in ports
    /\ \A l, k \in ports : l.dpid1 = k.dpid1 /\ l.dpid2 = k.dpid2 => l = k
    /\ \A l \in ports : Gone(stack, Pair(l)) \/ l \in adjacency \/ flip(l) \in adjacency
    /\ \A l \in BothWays(adjacency) :
          \/ Gone(stack, Pair(l)) \/ Come(stack, l) \/ Come(stack, flip(l))
          \/ \E k \in ports : Pair(k) = Pair(l)

\* The same events wait.
SameEvents(s, t) ==
    /\ \A p : Gone(s, p) <=> Gone(t, p)
    /\ \A l : Come(s, l) <=> Come(t, l)

LEMMA NetStays ==
    ASSUME setup' = setup
    PROVE  /\ Cables' = Cables
           /\ StackOK(stack, adjacency)' <=> StackOK(stack', adjacency')
<1>1. Cables' = Cables
  BY DEF Cables, topology
<1>2. Frames' = Frames
  BY <1>1 DEF Frames, Trees, Heads
<1>. QED
  BY <1>1, <1>2 DEF StackOK

LEMMA NothingNew ==
    ASSUME NetOK, setup' = setup, lldp' \subseteq Cables, adjacency' = adjacency,
           StackOK(stack', adjacency), SameEvents(stack', stack), ports' = ports
    PROVE  NetOK' /\ (Linked => Linked')
<1>1. NetOK'
  BY NetStays DEF NetOK
<1>2. ASSUME Linked PROVE Linked'
  BY <1>2 DEF Linked, SameEvents
<1>. QED
  BY <1>1, <1>2

LEMMA QuietFrame ==
    ASSUME NEW links \in SUBSET Cables, NEW why \in {"expire", "down"},
           NEW s \in Seq(Frames)
    PROVE  /\ Frame(links, why) \in Frames
           /\ SameEvents(<<Frame(links, why)>> \o s, s)
           /\ \A adj : StackOK(s, adj) => StackOK(<<Frame(links, why)>> \o s, adj)
<1>. DEFINE f == Frame(links, why)
<1>1. f \in Frames
  BY DEF Frame, Frames, Trees
<1>2. f.cur = None /\ f.for # "add"
  BY DEF Frame
<1>. HIDE DEF f
<1>3. \A p : ~GoneOn(f, p)
  BY <1>2 DEF GoneOn
<1>4. \A l : ~ComeOn(f, l)
  BY <1>2 DEF ComeOn
<1>5. \A adj : FrameOK(f, adj)
  BY <1>2 DEF FrameOK
<1>6. SameEvents(<<f>> \o s, s)
  BY <1>1, <1>3, <1>4, EventsOnTop, Zenon DEF SameEvents
<1>7. \A adj : StackOK(s, adj) => StackOK(<<f>> \o s, adj)
  BY <1>1, <1>2, <1>5, EventsOnTop, Zenon
<1>. QED
  BY <1>1, <1>6, <1>7, Zenon DEF f

LEMMA DisconnectKeeps ==
    ASSUME NetOK, NEW d, NEW below, StackOK(below, adjacency), SameEvents(below, stack),
           Disconnect(d, below)
    PROVE  StackOK(stack', adjacency) /\ SameEvents(stack', stack)
<1>. DEFINE links == {l \in adjacency : d \in {l.dpid1, l.dpid2}}
<1>1. links \in SUBSET Cables /\ below \in Seq(Frames)
  BY DEF NetOK, StackOK
<1>2. stack' = IF links = {} THEN below ELSE <<Frame(links, "down")>> \o below
  BY DEF Disconnect
<1>. HIDE DEF links
<1>3. /\ SameEvents(<<Frame(links, "down")>> \o below, below)
      /\ StackOK(<<Frame(links, "down")>> \o below, adjacency)
  BY <1>1, QuietFrame
<1>. QED
  BY <1>2, <1>3, Zenon DEF SameEvents

LEMMA PushTreeKeeps ==
    ASSUME NetOK, PushTree
    PROVE  StackOK(stack', adjacency) /\ SameEvents(stack', stack)
<1>1. /\ stack # <<>> /\ stack \in Seq(Frames)
      /\ Head(stack) \in Frames /\ Tail(stack) \in Seq(Frames)
      /\ stack = <<Head(stack)>> \o Tail(stack)
  BY TakenOff DEF PushTree, Idle, NetOK, StackOK
<1>2. PICK now \in SUBSET Head(stack).untold :
        LET below == <<[Head(stack) EXCEPT !.untold = @ \ now]>> \o Tail(stack) IN
        stack' = below \/ \E d \in Dpids : Disconnect(d, below)
  BY Zenon DEF PushTree
<1>. DEFINE f == [Head(stack) EXCEPT !.untold = @ \ now]
            below == <<f>> \o Tail(stack)
<1>3. f \in Frames /\ f.cur = Head(stack).cur /\ f.for = Head(stack).for /\ f.left = Head(stack).left
  BY <1>1 DEF Frames
<1>4. stack' = below \/ \E d \in Dpids : Disconnect(d, below)
  BY <1>2, Zenon
<1>. HIDE DEF f
<1>5. /\ \A p : GoneOn(f, p) <=> GoneOn(Head(stack), p)
      /\ \A l : ComeOn(f, l) <=> ComeOn(Head(stack), l)
      /\ FrameOK(f, adjacency) <=> FrameOK(Head(stack), adjacency)
  BY <1>3 DEF GoneOn, ComeOn, FrameOK
<1>6. SameEvents(below, stack)
  <2>1. PICK g \in Frames, s \in Seq(Frames) : g = Head(stack) /\ s = Tail(stack)
    BY <1>1
  <2>2. SameEvents(<<f>> \o s, <<g>> \o s)
    BY <1>3, <1>5, <2>1, EventsOnTop, Zenon DEF SameEvents
  <2>. QED
    BY <1>1, <2>1, <2>2, Zenon
<1>7. StackOK(below, adjacency)
  <2>1. PICK g \in Frames, s \in Seq(Frames) : g = Head(stack) /\ s = Tail(stack)
    BY <1>1
  <2>2. StackOK(<<g>> \o s, adjacency)
    BY <1>1, <2>1, Zenon DEF NetOK
  <2>3. StackOK(<<f>> \o s, adjacency)
    BY <1>3, <1>5, <2>1, <2>2, EventsOnTop, Zenon
  <2>. QED
    BY <2>1, <2>3, Zenon
<1>. HIDE DEF below
<1>. QED
  BY <1>4, <1>6, <1>7, DisconnectKeeps

LEMMA RaisedFrame ==
    ASSUME setup \in Setups, NEW f \in Frames, NEW l \in Cables, NEW links \in SUBSET Cables,
           NEW g \in Raising(f, l, links)
    PROVE  g \in Frames /\ g.cur = l /\ g.cur # None /\ g.for = f.for /\ g.left = f.left \ {l}
<1>1. PICK t \in {_calc_spanning_tree(adj) : adj \in Culled(links)} :
        g = [left |-> f.left \ {l}, cur |-> l, for |-> f.for,
             tree |-> t, untold |-> {k.dpid1 : k \in t}]
  BY Zenon DEF Raising
<1>2. t \in Trees
  BY DEF Trees
<1>3. {k.dpid1 : k \in t} \in SUBSET Heads
  BY <1>2 DEF Heads
<1>4. f.left \ {l} \in SUBSET Cables /\ f.for \in {"add", "expire", "down"}
  BY DEF Frames
<1>5. g \in Frames
  BY <1>1, <1>2, <1>3, <1>4 DEF Frames
<1>6. l # None
  <2>1. PICK a, b, c, d : l = [dpid1 |-> a, port1 |-> b, dpid2 |-> c, port2 |-> d]
    BY CableFacts DEF Link
  <2>2. "none" \notin DOMAIN l /\ "none" \in DOMAIN None
    BY <2>1 DEF None
  <2>. QED
    BY <2>2
<1>. QED
  BY <1>1, <1>5, <1>6

\* The stack with its innermost loop, and that loop told apart from the others.
LEMMA Innermost ==
    ASSUME NetOK, stack # <<>>
    PROVE  \E f \in Frames, s \in Seq(Frames) :
             /\ f = Head(stack) /\ s = Tail(stack)
             /\ FrameOK(f, adjacency) /\ StackOK(s, adjacency)
             /\ f.for = "add" => s = <<>>
             /\ \A p : Gone(stack, p) <=> GoneOn(f, p) \/ Gone(s, p)
             /\ \A l : Come(stack, l) <=> ComeOn(f, l) \/ Come(s, l)
<1>1. PICK f \in Frames, s \in Seq(Frames) :
        f = Head(stack) /\ s = Tail(stack) /\ stack = <<f>> \o s
  BY TakenOff DEF NetOK, StackOK
<1>2. StackOK(<<f>> \o s, adjacency)
  BY <1>1, Zenon DEF NetOK
<1>3. /\ FrameOK(f, adjacency) /\ StackOK(s, adjacency)
      /\ f.for = "add" => s = <<>>
  BY <1>2, EventsOnTop, Zenon
<1>4. /\ \A p : Gone(stack, p) <=> GoneOn(f, p) \/ Gone(s, p)
      /\ \A l : Come(stack, l) <=> ComeOn(f, l) \/ Come(s, l)
  BY <1>1, EventsOnTop
<1>. QED
  BY <1>1, <1>3, <1>4, Zenon

LEMMA SmallerAdjacency ==
    ASSUME NEW s, NEW adj, StackOK(s, adj), NEW l
    PROVE  StackOK(s, adj \ {l})
BY DEF StackOK, FrameOK

LEMMA LinkDeleted ==
    ASSUME NetOK, NEW f \in Frames, NEW s \in Seq(Frames), NEW l \in adjacency,
           FrameOK(f, adjacency), StackOK(s, adjacency), f.for # "add", f.cur = None,
           SameEvents(stack, s), NEW g \in Raising(f, l, adjacency'),
           adjacency' = adjacency \ {l}, stack' = <<g>> \o s, ports' = ports,
           setup' = setup, lldp' = lldp
    PROVE  NetOK' /\ (Linked => Linked')
<1>1. l \in Cables /\ setup \in Setups /\ adjacency' \in SUBSET Cables
  BY DEF NetOK
<1>2. g \in Frames /\ g.cur = l /\ g.cur # None /\ g.for = f.for
  BY <1>1, RaisedFrame
<1>3. \A p : Gone(stack', p) <=> p = Pair(l) \/ Gone(stack, p)
  <2>1. \A p : GoneOn(g, p) <=> p = Pair(l)
    BY <1>2 DEF GoneOn, Pair
  <2>. QED
    BY <1>2, <2>1, EventsOnTop, Zenon DEF SameEvents
<1>4. \A k : Come(stack', k) <=> Come(stack, k)
  <2>1. \A k : ~ComeOn(g, k)
    BY <1>2 DEF ComeOn
  <2>. QED
    BY <1>2, <2>1, EventsOnTop, Zenon DEF SameEvents
<1>5. StackOK(stack', adjacency')
  <2>1. FrameOK(g, adjacency')
    BY <1>2 DEF FrameOK
  <2>2. StackOK(s, adjacency')
    BY SmallerAdjacency
  <2>. QED
    BY <1>2, <2>1, <2>2, EventsOnTop, Zenon
<1>6. NetOK'
  BY <1>5, NetStays DEF NetOK
<1>7. ASSUME Linked PROVE Linked'
  <2>1. ASSUME NEW k \in ports
        PROVE  Gone(stack', Pair(k)) \/ k \in adjacency' \/ flip(k) \in adjacency'
    <3>1. Gone(stack, Pair(k)) \/ k \in adjacency \/ flip(k) \in adjacency
      BY <1>7, Zenon DEF Linked
    <3>2. CASE k = l \/ flip(k) = l
      <4>1. Pair(k) = Pair(l)
        BY <3>2 DEF Pair, flip, Link
      <4>. QED
        BY <1>3, <4>1
    <3>3. CASE k # l /\ flip(k) # l
      BY <1>3, <3>1, <3>3
    <3>. QED
      BY <3>2, <3>3
  <2>2. ASSUME NEW k \in BothWays(adjacency')
        PROVE  \/ Gone(stack', Pair(k)) \/ Come(stack', k) \/ Come(stack', flip(k))
               \/ \E j \in ports : Pair(j) = Pair(k)
    <3>1. k \in BothWays(adjacency)
      BY DEF BothWays
    <3>. QED
      BY <1>3, <1>4, <1>7, <3>1, Zenon DEF Linked
  <2>3. \A k \in ports' : Gone(stack', Pair(k)) \/ k \in adjacency' \/ flip(k) \in adjacency'
    BY <2>1
  <2>4. \A k \in BothWays(adjacency') :
          \/ Gone(stack', Pair(k)) \/ Come(stack', k) \/ Come(stack', flip(k))
          \/ \E j \in ports' : Pair(j) = Pair(k)
    BY <2>2
  <2>. QED
    BY <1>7, <2>3, <2>4, Zenon DEF Linked
<1>. QED
  BY <1>6, <1>7

LEMMA DeleteLinkKeeps ==
    ASSUME NetOK, DeleteLink
    PROVE  NetOK' /\ (Linked => Linked')
<1>1. /\ stack # <<>> /\ Head(stack).cur = None
      /\ setup' = setup /\ lldp' = lldp /\ ports' = ports
  BY DEF DeleteLink, Idle, netVars
<1>2. PICK f \in Frames, s \in Seq(Frames) :
        /\ f = Head(stack) /\ s = Tail(stack)
        /\ FrameOK(f, adjacency) /\ StackOK(s, adjacency)
        /\ f.for = "add" => s = <<>>
        /\ \A p : Gone(stack, p) <=> GoneOn(f, p) \/ Gone(s, p)
        /\ \A l : Come(stack, l) <=> ComeOn(f, l) \/ Come(s, l)
  BY <1>1, Innermost
<1>3. f.cur = None /\ f.for # "add"
  BY <1>1, <1>2 DEF FrameOK
<1>4. SameEvents(stack, s) /\ SameEvents(s, stack)
  <2>1. (\A p : ~GoneOn(f, p)) /\ (\A l : ~ComeOn(f, l))
    BY <1>3 DEF GoneOn, ComeOn
  <2>. QED
    BY <1>2, <2>1, Zenon DEF SameEvents
<1>5. PICK l \in f.left :
        IF l \in adjacency
        THEN /\ adjacency' = adjacency \ {l}
             /\ \E g \in Raising(f, l, adjacency') : stack' = <<g>> \o s
        ELSE stack' = s /\ adjacency' = adjacency
  BY <1>2, Zenon DEF DeleteLink
<1>6. CASE l \in adjacency
  BY <1>1, <1>2, <1>3, <1>4, <1>5, <1>6, LinkDeleted
<1>7. CASE l \notin adjacency
  <2>1. stack' = s /\ adjacency' = adjacency /\ lldp' \subseteq Cables
    BY <1>1, <1>5, <1>7 DEF NetOK
  <2>2. StackOK(stack', adjacency) /\ SameEvents(stack', stack)
    BY <1>2, <1>4, <2>1
  <2>. QED
    BY <1>1, <2>1, <2>2, NothingNew
<1>. QED
  BY <1>6, <1>7

LEMMA PairFacts ==
    ASSUME setup \in Setups, NEW l \in Cables, NEW k \in Cables
    PROVE  /\ Pair(flip(l)) = Pair(l) /\ flip(l) \in Cables /\ flip(flip(l)) = l
           /\ flip(l).dpid1 = l.dpid2 /\ flip(l).dpid2 = l.dpid1 /\ l.dpid1 # l.dpid2
           /\ Pair(k) = Pair(l) <=> \/ k.dpid1 = l.dpid1 /\ k.dpid2 = l.dpid2
                                    \/ k.dpid1 = l.dpid2 /\ k.dpid2 = l.dpid1
<1>1. /\ flip(l) \in Cables /\ flip(flip(l)) = l /\ l.dpid1 # l.dpid2
      /\ k.dpid1 # k.dpid2
  BY CableFacts
<1>2. flip(l).dpid1 = l.dpid2 /\ flip(l).dpid2 = l.dpid1
  BY DEF flip, Link
<1>3. Pair(flip(l)) = Pair(l)
  BY <1>2 DEF Pair
<1>. QED
  BY <1>1, <1>2, <1>3 DEF Pair

LEMMA LinkGoneHandled ==
    ASSUME NetOK, NEW c \in Cables, LinkRemoved(c), adjacency' = adjacency,
           \A p : Gone(stack, p) <=> p = Pair(c) \/ Gone(stack', p),
           \A l : Come(stack, l) <=> Come(stack', l), Linked
    PROVE  Linked' /\ ports' \subseteq Cables
<1>. DEFINE same == {k \in BothWays(adjacency) : k.dpid1 = c.dpid1 /\ k.dpid2 = c.dpid2}
<1>1. setup \in Setups /\ ports \subseteq Cables /\ adjacency \subseteq Cables
  BY DEF NetOK
<1>2. \A k : k \in Others(c) <=> k \in ports /\ Pair(k) # Pair(c)
  BY DEF Others, Pair
<1>3. PICK new \in SUBSET Cables :
        /\ ports' = Others(c) \cup new
        /\ \/ same = {} /\ new = {}
           \/ \E k \in same : new = {k, flip(k)}
  <2>1. CASE same = {}
    BY <2>1 DEF LinkRemoved
  <2>2. ASSUME NEW k \in same, ports' = Others(c) \cup {k, flip(k)}
        PROVE  \E new \in SUBSET Cables :
                 /\ ports' = Others(c) \cup new
                 /\ \E j \in same : new = {j, flip(j)}
    <3>1. {k, flip(k)} \in SUBSET Cables
      BY <1>1 DEF BothWays
    <3>. QED
      BY <2>2, <3>1
  <2>. QED
    BY <2>1, <2>2 DEF LinkRemoved
<1>4. ASSUME NEW k \in new
      PROVE  /\ k \in adjacency /\ flip(k) \in new /\ Pair(k) = Pair(c)
             /\ \A j \in new : k.dpid1 = j.dpid1 => k = j
  <2>1. PICK m \in same : new = {m, flip(m)}
    BY <1>3
  <2>2. m \in Cables /\ m \in adjacency /\ flip(m) \in adjacency /\ Pair(m) = Pair(c)
    BY <1>1 DEF BothWays, Pair
  <2>3. /\ flip(flip(m)) = m /\ Pair(flip(m)) = Pair(m)
        /\ flip(m).dpid1 = m.dpid2 /\ m.dpid1 # m.dpid2
    BY <1>1, <2>2, PairFacts
  <2>. QED
    BY <2>1, <2>2, <2>3
<1>5. \A k \in ports' : \/ k \in ports /\ Pair(k) # Pair(c)
                        \/ k \in new
  BY <1>2, <1>3
<1>6. ASSUME NEW k \in ports' PROVE flip(k) \in ports'
  <2>1. CASE k \in new
    BY <1>3, <1>4, <2>1
  <2>2. CASE k \in ports /\ Pair(k) # Pair(c)
    <3>1. flip(k) \in ports
      BY <2>2, Zenon DEF Linked
    <3>2. Pair(flip(k)) = Pair(k)
      BY <1>1, <2>2, PairFacts
    <3>. QED
      BY <1>2, <1>3, <2>2, <3>1, <3>2
  <2>. QED
    BY <1>5, <2>1, <2>2
<1>7. ASSUME NEW l \in ports', NEW k \in ports', l.dpid1 = k.dpid1, l.dpid2 = k.dpid2
      PROVE  l = k
  <2>1. Pair(l) = Pair(k)
    BY <1>7 DEF Pair
  <2>2. CASE l \in new /\ k \in new
    BY <1>4, <1>7, <2>2
  <2>3. CASE l \in ports /\ k \in ports
    BY <1>7, <2>3 DEF Linked
  <2>. QED
    BY <1>4, <1>5, <2>1, <2>2, <2>3
<1>8. ASSUME NEW l \in ports'
      PROVE  Gone(stack', Pair(l)) \/ l \in adjacency \/ flip(l) \in adjacency
  <2>1. CASE l \in new
    BY <1>4, <2>1
  <2>2. CASE l \in ports /\ Pair(l) # Pair(c)
    <3>1. Gone(stack, Pair(l)) \/ l \in adjacency \/ flip(l) \in adjacency
      BY <2>2, Zenon DEF Linked
    <3>. QED
      BY <2>2, <3>1
  <2>. QED
    BY <1>5, <2>1, <2>2
<1>9. ASSUME NEW l \in BothWays(adjacency)
      PROVE  \/ Gone(stack', Pair(l)) \/ Come(stack', l) \/ Come(stack', flip(l))
             \/ \E k \in ports' : Pair(k) = Pair(l)
  <2>1. CASE Pair(l) = Pair(c)
    <3>1. l \in Cables /\ flip(l) \in BothWays(adjacency)
      BY <1>1, PairFacts DEF BothWays
    <3>2. l \in same \/ flip(l) \in same
      BY <1>1, <2>1, <3>1, PairFacts
    <3>3. PICK k \in new : TRUE
      BY <1>3, <3>2
    <3>. QED
      BY <1>3, <1>4, <2>1
  <2>2. CASE Pair(l) # Pair(c)
    <3>1. \/ Gone(stack, Pair(l)) \/ Come(stack, l) \/ Come(stack, flip(l))
          \/ \E k \in ports : Pair(k) = Pair(l)
      BY Zenon DEF Linked
    <3>2. ASSUME NEW k \in ports, Pair(k) = Pair(l) PROVE k \in ports'
      BY <1>2, <1>3, <2>2, <3>2
    <3>. QED
      BY <2>2, <3>1, <3>2, Zenon
  <2>. QED
    BY <2>1, <2>2
<1>10. ports' \subseteq Cables
  BY <1>1, <1>2, <1>3
<1>11. /\ \A l \in ports' : Gone(stack', Pair(l)) \/ l \in adjacency' \/ flip(l) \in adjacency'
       /\ \A l \in BothWays(adjacency') :
             \/ Gone(stack', Pair(l)) \/ Come(stack', l) \/ Come(stack', flip(l))
             \/ \E k \in ports' : Pair(k) = Pair(l)
  BY <1>8, <1>9, Zenon
<1>. QED
  BY <1>6, <1>7, <1>10, <1>11, Zenon DEF Linked

LEMMA LinkCameHandled ==
    ASSUME NetOK, NEW c \in Cables, LinkAdded(c), adjacency' = adjacency,
           \A p : ~Gone(stack, p), \A l : Come(stack, l) => l = c, Linked
    PROVE  Linked' /\ ports' \subseteq Cables
<1>1. setup \in Setups /\ ports \subseteq Cables /\ adjacency \subseteq Cables
  BY DEF NetOK
<1>2. \A k : k \in Others(c) <=> k \in ports /\ Pair(k) # Pair(c)
  BY DEF Others, Pair
<1>3. ports \subseteq ports'
  BY DEF LinkAdded
<1>4. CASE Others(c) = ports /\ flip(c) \in adjacency
  <2>1. ports' = ports \cup {c, flip(c)} /\ \A k \in ports : Pair(k) # Pair(c)
    BY <1>2, <1>4 DEF LinkAdded
  <2>2. /\ flip(c) \in Cables /\ flip(flip(c)) = c /\ Pair(flip(c)) = Pair(c)
        /\ flip(c).dpid1 = c.dpid2 /\ c.dpid1 # c.dpid2
    BY <1>1, PairFacts
  <2>3. \A k \in ports' : flip(k) \in ports'
    BY <2>1, <2>2, Zenon DEF Linked
  <2>4. ASSUME NEW l \in ports', NEW k \in ports', l.dpid1 = k.dpid1, l.dpid2 = k.dpid2
        PROVE  l = k
    <3>1. Pair(l) = Pair(k)
      BY <2>4 DEF Pair
    <3>2. CASE l \in ports /\ k \in ports
      BY <2>4, <3>2 DEF Linked
    <3>3. CASE l \in {c, flip(c)} /\ k \in {c, flip(c)}
      BY <2>2, <2>4, <3>3
    <3>. QED
      BY <2>1, <2>2, <3>1, <3>2, <3>3
  <2>5. \A l \in ports' : Gone(stack', Pair(l)) \/ l \in adjacency' \/ flip(l) \in adjacency'
    <3>1. \A l \in ports : l \in adjacency \/ flip(l) \in adjacency
      BY Zenon DEF Linked
    <3>. QED
      BY <1>4, <2>1, <2>2, <3>1
  <2>6. \A l \in BothWays(adjacency') :
           \/ Gone(stack', Pair(l)) \/ Come(stack', l) \/ Come(stack', flip(l))
           \/ \E k \in ports' : Pair(k) = Pair(l)
    <3>1. ASSUME NEW l \in BothWays(adjacency) PROVE \E k \in ports' : Pair(k) = Pair(l)
      <4>1. l \in Cables /\ flip(flip(l)) = l /\ Pair(flip(l)) = Pair(l)
        BY <1>1, PairFacts DEF BothWays
      <4>2. \/ l = c \/ flip(l) = c
            \/ \E k \in ports : Pair(k) = Pair(l)
        BY Zenon DEF Linked
      <4>3. c \in ports'
        BY <2>1
      <4>. QED
        BY <1>3, <4>1, <4>2, <4>3
    <3>. QED
      BY <3>1, Zenon
  <2>7. ports' \subseteq Cables
    BY <1>1, <2>1, <2>2
  <2>. QED
    BY <2>3, <2>4, <2>5, <2>6, <2>7, Zenon DEF Linked
<1>5. CASE ~(Others(c) = ports /\ flip(c) \in adjacency)
  <2>1. ports' = ports
    BY <1>5 DEF LinkAdded
  <2>2. \A l \in ports' : Gone(stack', Pair(l)) \/ l \in adjacency' \/ flip(l) \in adjacency'
    BY <2>1, Zenon DEF Linked
  <2>3. ASSUME NEW l \in BothWays(adjacency) PROVE \E k \in ports : Pair(k) = Pair(l)
    <3>1. l \in adjacency /\ flip(l) \in adjacency /\ l \in Cables
      BY <1>1 DEF BothWays
    <3>2. flip(flip(l)) = l /\ Pair(flip(l)) = Pair(l)
      BY <1>1, <3>1, PairFacts
    <3>3. \/ l = c \/ flip(l) = c
          \/ \E k \in ports : Pair(k) = Pair(l)
      BY Zenon DEF Linked
    <3>4. ASSUME l = c \/ flip(l) = c PROVE \E k \in ports : Pair(k) = Pair(l)
      <4>1. flip(c) \in adjacency /\ Pair(l) = Pair(c)
        BY <3>1, <3>2, <3>4
      <4>2. PICK k \in ports : Pair(k) = Pair(c)
        BY <1>2, <1>5, <4>1
      <4>. QED
        BY <4>1, <4>2
    <3>. QED
      BY <3>3, <3>4
  <2>4. \A l \in BothWays(adjacency') :
           \/ Gone(stack', Pair(l)) \/ Come(stack', l) \/ Come(stack', flip(l))
           \/ \E k \in ports' : Pair(k) = Pair(l)
    BY <2>1, <2>3, Zenon
  <2>5. /\ \A l \in ports' : flip(l) \in ports'
        /\ \A l, k \in ports' : l.dpid1 = k.dpid1 /\ l.dpid2 = k.dpid2 => l = k
    BY <2>1, Zenon DEF Linked
  <2>. QED
    BY <1>1, <2>1, <2>2, <2>4, <2>5, Zenon DEF Linked
<1>. QED
  BY <1>4, <1>5

LEMMA HandlerKeeps ==
    ASSUME NetOK, HandleLinkEvent
    PROVE  /\ NetOK'
           /\ Linked => Linked'
<1>1. /\ stack # <<>> /\ Head(stack).cur # None
      /\ setup' = setup /\ lldp' = lldp /\ adjacency' = adjacency
  BY DEF HandleLinkEvent, Idle, netVars
<1>2. PICK f \in Frames, s \in Seq(Frames) :
        /\ f = Head(stack) /\ s = Tail(stack)
        /\ FrameOK(f, adjacency) /\ StackOK(s, adjacency)
        /\ f.for = "add" => s = <<>>
        /\ \A p : Gone(stack, p) <=> GoneOn(f, p) \/ Gone(s, p)
        /\ \A l : Come(stack, l) <=> ComeOn(f, l) \/ Come(s, l)
  BY <1>1, Innermost
<1>3. f.cur \in Cables /\ f.cur # None /\ f.left \in SUBSET Cables
      /\ f.for \in {"add", "expire", "down"}
  BY <1>1, <1>2 DEF Frames
<1>4. /\ IF f.for = "add" THEN LinkAdded(f.cur) ELSE LinkRemoved(f.cur)
      /\ stack' = IF f.left = {} THEN s ELSE <<Frame(f.left, f.for)>> \o s
  BY <1>2, Zenon DEF HandleLinkEvent
<1>5. CASE f.for = "add"
  <2>1. s = <<>> /\ stack' = <<>> /\ LinkAdded(f.cur)
    BY <1>2, <1>4, <1>5 DEF FrameOK
  <2>2. (\A p : ~Gone(s, p)) /\ (\A l : ~Come(s, l))
    BY <2>1 DEF Gone, Come
  <2>3. (\A p : ~Gone(stack, p)) /\ (\A l : Come(stack, l) => l = f.cur)
    BY <1>2, <1>5, <2>2 DEF GoneOn, ComeOn
  <2>4. Linked => Linked' /\ ports' \subseteq Cables
    BY <1>1, <1>3, <2>1, <2>3, LinkCameHandled
  <2>5. ports' \subseteq Cables
    BY <1>3, <2>1, CableFacts DEF LinkAdded, NetOK
  <2>6. StackOK(stack', adjacency')
    BY <1>1, <1>2, <2>1
  <2>. QED
    BY <1>1, <2>4, <2>5, <2>6, NetStays DEF NetOK
<1>6. CASE f.for # "add"
  <2>1. LinkRemoved(f.cur)
    BY <1>4, <1>6
  <2>2. SameEvents(stack', s) /\ StackOK(stack', adjacency)
    <3>1. CASE f.left = {}
      BY <1>2, <1>4, <3>1 DEF SameEvents
    <3>2. CASE f.left # {}
      <4>1. f.for \in {"expire", "down"}
        BY <1>3, <1>6
      <4>. QED
        BY <1>2, <1>3, <1>4, <3>2, <4>1, QuietFrame
    <3>. QED
      BY <3>1, <3>2
  <2>3. /\ \A p : GoneOn(f, p) <=> p = Pair(f.cur)
        /\ \A l : ~ComeOn(f, l)
    BY <1>3, <1>6 DEF GoneOn, ComeOn, Pair
  <2>4. /\ \A p : Gone(stack, p) <=> p = Pair(f.cur) \/ Gone(stack', p)
        /\ \A l : Come(stack, l) <=> Come(stack', l)
    BY <1>2, <2>2, <2>3, Zenon DEF SameEvents
  <2>5. Linked => Linked' /\ ports' \subseteq Cables
    BY <1>1, <1>3, <2>1, <2>4, LinkGoneHandled
  <2>6. ports' \subseteq Cables
    <3>1. Others(f.cur) \subseteq Cables
      BY DEF Others, NetOK
    <3>2. \A k \in BothWays(adjacency) : {k, flip(k)} \subseteq Cables
      BY DEF BothWays, NetOK
    <3>. QED
      BY <2>1, <3>1, <3>2 DEF LinkRemoved
  <2>. QED
    BY <1>1, <2>2, <2>5, <2>6, NetStays DEF NetOK
<1>. QED
  BY <1>5, <1>6

LEMMA PacketInKeeps ==
    ASSUME NetOK, PacketIn
    PROVE  NetOK' /\ (Linked => Linked')
<1>1. stack = <<>> /\ setup' = setup /\ ports' = ports
  BY DEF PacketIn, Idle, netVars
<1>2. PICK l \in lldp :
        /\ lldp' = lldp \ {l}
        /\ IF l.dpid1 \in _dps /\ l \notin adjacency
           THEN /\ adjacency' = adjacency \cup {l}
                /\ \E f \in Raising(Frame({}, "add"), l, adjacency') : stack' = <<f>>
           ELSE UNCHANGED <<adjacency, stack>>
  BY Zenon DEF PacketIn
<1>3. l \in Cables /\ setup \in Setups /\ lldp' \subseteq Cables
  BY <1>2 DEF NetOK
<1>4. CASE adjacency' = adjacency /\ stack' = stack
  BY <1>1, <1>3, <1>4, NothingNew DEF NetOK, SameEvents
<1>5. ASSUME adjacency' = adjacency \cup {l},
             NEW f \in Raising(Frame({}, "add"), l, adjacency'), stack' = <<f>>
      PROVE  NetOK' /\ (Linked => Linked')
  <2>1. Frame({}, "add") \in Frames /\ adjacency' \in SUBSET Cables
    BY <1>3, <1>5 DEF Frame, Frames, Trees, NetOK
  <2>2. /\ Frame({}, "add").for = "add" /\ Frame({}, "add").left = {}
    BY DEF Frame
  <2>3. f \in Frames /\ f.cur = l /\ f.cur # None /\ f.for = "add" /\ f.left = {}
    BY <1>3, <1>5, <2>1, <2>2, RaisedFrame
  <2>4. stack' = <<f>> \o <<>> /\ <<>> \in Seq(Frames)
    BY <1>5, <2>3
  <2>5. (\A p : ~Gone(<<>>, p)) /\ (\A k : ~Come(<<>>, k)) /\ StackOK(<<>>, adjacency')
    BY DEF Gone, Come, StackOK
  <2>6. FrameOK(f, adjacency') /\ (\A k : ComeOn(f, k) <=> k = l)
    BY <2>3 DEF FrameOK, ComeOn
  <2>7. StackOK(stack', adjacency') /\ Come(stack', l)
    BY <2>3, <2>4, <2>5, <2>6, EventsOnTop, Zenon
  <2>8. NetOK'
    BY <1>1, <1>3, <2>1, <2>7, NetStays DEF NetOK
  <2>9. ASSUME Linked PROVE Linked'
    <3>1. (\A p : ~Gone(stack, p)) /\ (\A k : ~Come(stack, k))
      BY <1>1, <2>5
    <3>2. \A k \in ports' : Gone(stack', Pair(k)) \/ k \in adjacency' \/ flip(k) \in adjacency'
      BY <1>1, <1>5, <2>9, <3>1 DEF Linked
    <3>3. ASSUME NEW k \in BothWays(adjacency')
          PROVE  \/ Gone(stack', Pair(k)) \/ Come(stack', k) \/ Come(stack', flip(k))
                 \/ \E j \in ports' : Pair(j) = Pair(k)
      <4>1. CASE k = l \/ flip(k) = l
        BY <2>7, <4>1
      <4>2. CASE k # l /\ flip(k) # l
        <5>1. k \in BothWays(adjacency)
          BY <1>5, <4>2 DEF BothWays
        <5>. QED
          BY <1>1, <2>9, <3>1, <5>1, Zenon DEF Linked
      <4>. QED
        BY <4>1, <4>2
    <3>4. /\ \A k \in ports' : flip(k) \in ports'
          /\ \A j, k \in ports' : j.dpid1 = k.dpid1 /\ j.dpid2 = k.dpid2 => j = k
      BY <1>1, <2>9, Zenon DEF Linked
    <3>. QED
      BY <3>2, <3>3, <3>4, Zenon DEF Linked
  <2>. QED
    BY <2>8, <2>9
<1>. QED
  BY <1>2, <1>4, <1>5

\* What the other steps do to the stack.
LEMMA ExpireKeeps ==
    ASSUME NetOK, NEW links \in SUBSET adjacency, Expire(links)
    PROVE  NetOK' /\ (Linked => Linked')
<1>1. /\ stack = <<>> /\ stack' = <<Frame(links, "expire")>>
      /\ setup' = setup /\ lldp' = lldp /\ adjacency' = adjacency /\ ports' = ports
  BY DEF Expire, Idle, netVars
<1>2. links \in SUBSET Cables /\ <<>> \in Seq(Frames) /\ StackOK(<<>>, adjacency)
  BY <1>1 DEF NetOK
<1>3. Frame(links, "expire") \in Frames
  BY <1>2, QuietFrame
<1>4. stack' = <<Frame(links, "expire")>> \o <<>>
  BY <1>1, <1>3
<1>5. StackOK(stack', adjacency) /\ SameEvents(stack', stack)
  BY <1>1, <1>2, <1>4, QuietFrame, Zenon
<1>. QED
  BY <1>1, <1>5, NothingNew DEF NetOK

LEMMA SameStack == SameEvents(stack, stack)
BY DEF SameEvents

LEMMA DisconnectsOnly ==
    ASSUME NetOK, stack' = stack \/ \E d : Disconnect(d, stack),
           setup' = setup, lldp' \subseteq Cables, adjacency' = adjacency, ports' = ports
    PROVE  NetOK' /\ (Linked => Linked')
<1>1. StackOK(stack', adjacency) /\ SameEvents(stack', stack)
  <2>1. CASE stack' = stack
    BY <2>1, SameStack DEF NetOK
  <2>2. ASSUME NEW d, Disconnect(d, stack)
        PROVE  StackOK(stack', adjacency) /\ SameEvents(stack', stack)
    BY <2>2, DisconnectKeeps, SameStack DEF NetOK
  <2>. QED
    BY <2>1, <2>2
<1>. QED
  BY <1>1, NothingNew

LEMMA ElsewhereNetKeeps ==
    ASSUME NetOK, Elsewhere
    PROVE  NetOK' /\ (Linked => Linked')
<1>1. CASE DeleteLink
  BY <1>1, DeleteLinkKeeps
<1>2. CASE PushTree
  <2>1. setup' = setup /\ lldp' = lldp /\ adjacency' = adjacency /\ ports' = ports
    BY <1>2 DEF PushTree, netVars
  <2>. QED
    BY <1>2, <2>1, PushTreeKeeps, NothingNew DEF NetOK
<1>3. CASE NoticeClosed
  <2>1. setup' = setup /\ lldp' = lldp /\ adjacency' = adjacency /\ ports' = ports
    BY <1>3 DEF NoticeClosed, netVars
  <2>2. \E d : Disconnect(d, stack)
    BY <1>3, Zenon DEF NoticeClosed
  <2>. QED
    BY <2>1, <2>2, DisconnectsOnly DEF NetOK
<1>4. CASE PacketIn
  BY <1>4, PacketInKeeps
<1>5. CASE \E links \in SUBSET adjacency : Cardinality(links) <= setup.overdue /\ Expire(links)
  BY <1>5, ExpireKeeps
<1>6. ASSUME NEW d \in Dpids, ConnectionUp(d) \/ Close(d)
      PROVE  NetOK' /\ (Linked => Linked')
  <2>1. /\ stack' = stack /\ setup' = setup /\ lldp' = lldp
        /\ adjacency' = adjacency /\ ports' = ports
    BY <1>6 DEF ConnectionUp, Close, netVars, discoveryVars
  <2>. QED
    BY <2>1, DisconnectsOnly DEF NetOK
<1>7. ASSUME NEW e \in Ends, TimerHandler(e)
      PROVE  NetOK' /\ (Linked => Linked')
  <2>1. /\ setup' = setup /\ adjacency' = adjacency /\ ports' = ports /\ stack = <<>>
    BY <1>7 DEF TimerHandler, Idle, netVars
  <2>2. lldp' \subseteq Cables
    BY <1>7 DEF TimerHandler, NetOK
  <2>3. stack' = stack \/ Disconnect(e[1], stack)
    BY <1>7, <2>1, Zenon DEF TimerHandler
  <2>. QED
    BY <2>1, <2>2, <2>3, DisconnectsOnly
<1>8. ASSUME NEW e \in Ends, PortAdded(e) \/ PortDeleted(e)
      PROVE  NetOK' /\ (Linked => Linked')
  <2>1. /\ stack' = stack /\ setup' = setup /\ lldp' = lldp
        /\ adjacency' = adjacency /\ ports' = ports
    BY <1>8 DEF PortAdded, PortDeleted, netVars
  <2>. QED
    BY <2>1, DisconnectsOnly DEF NetOK
<1>9. ASSUME NEW l \in topology, Cut(l) \/ Mend(l)
      PROVE  NetOK' /\ (Linked => Linked')
  <2>1. /\ stack' = stack /\ setup' = setup /\ lldp' = lldp
        /\ adjacency' = adjacency /\ ports' = ports
    BY <1>9 DEF Cut, Mend, discoveryVars
  <2>. QED
    BY <2>1, DisconnectsOnly DEF NetOK
<1>. QED
  BY <1>1, <1>2, <1>3, <1>4, <1>5, <1>6, <1>7, <1>8, <1>9 DEF Elsewhere

LEMMA NetStart == HInit => NetOK /\ Linked
<1>. SUFFICES ASSUME HInit PROVE NetOK /\ Linked
  OBVIOUS
<1>1. /\ setup \in Setups /\ lldp = {} /\ adjacency = {} /\ ports = {} /\ stack = <<>>
  BY DEF HInit, Init
<1>2. StackOK(<<>>, {}) /\ BothWays({}) = {}
  BY DEF StackOK, BothWays
<1>. QED
  BY <1>1, <1>2 DEF NetOK, Linked

\* The steps of hosts change no link: of the network they may only find a closed socket.
HostStep ==
    \E h \in setup.hosts :
       \/ \E e \in Ends \cup setup.plugs :
             \/ Flood(h, e)
             \/ \E dst \in setup.hosts \ {h} : InstallPath(h, e, dst)
             \/ \E info \in getSrcIPandARP : HostSeen(h, e, info)
       \/ Quiet(h) \/ _check_timeouts(h) \/ \E ip \in Ip : IpQuiet(h, ip)

LEMMA HostStepKeeps ==
    ASSUME HostStep
    PROVE  /\ setup' = setup /\ lldp' = lldp /\ adjacency' = adjacency /\ ports' = ports
           /\ stack' = stack \/ \E d : Disconnect(d, stack)
<1>. USE DEF netVars
<1>. DEFINE Goal == /\ setup' = setup /\ lldp' = lldp /\ adjacency' = adjacency
                    /\ ports' = ports /\ (stack' = stack \/ \E d : Disconnect(d, stack))
<1>1. ASSUME NEW h, NEW e, Flood(h, e) PROVE Goal
  BY <1>1 DEF Flood, Sent
<1>2. ASSUME NEW h, NEW e, NEW dst, InstallPath(h, e, dst) PROVE Goal
  <2>1. setup' = setup /\ lldp' = lldp /\ adjacency' = adjacency /\ ports' = ports
    BY <1>2 DEF InstallPath
  <2>2. stack' = stack \/ \E d : Disconnect(d, stack)
    BY <1>2, Zenon DEF InstallPath
  <2>. QED
    BY <2>1, <2>2
<1>3. ASSUME NEW h, NEW e, NEW info, HostSeen(h, e, info) PROVE Goal
  BY <1>3 DEF HostSeen, vars, discoveryVars
<1>4. ASSUME NEW h, Quiet(h) PROVE Goal
  BY <1>4 DEF Quiet, vars, discoveryVars
<1>5. ASSUME NEW h, NEW ip, IpQuiet(h, ip) PROVE Goal
  BY <1>5 DEF IpQuiet, vars, discoveryVars
<1>6. ASSUME NEW h, _check_timeouts(h) PROVE Goal
  <2>1. setup' = setup /\ lldp' = lldp /\ adjacency' = adjacency /\ ports' = ports
    BY <1>6 DEF _check_timeouts
  <2>2. Sent(entryByMAC[h].dpid) \/ UNCHANGED <<con, packets, stack>>
    BY <1>6, Zenon DEF _check_timeouts
  <2>. QED
    BY <2>1, <2>2 DEF Sent
<1>. QED
  BY <1>1, <1>2, <1>3, <1>4, <1>5, <1>6, Zenon DEF HostStep

LEMMA StepKinds ==
    ASSUME [HNext]_allVars
    PROVE  \/ LinkEventHandled
           \/ Elsewhere /\ mac_map' = mac_map
           \/ HostStep
           \/ /\ setup' = setup /\ lldp' = lldp /\ adjacency' = adjacency /\ ports' = ports
              /\ stack' = stack /\ mac_map' = mac_map
<1>1. CASE LinkEventHandled
  BY <1>1
<1>2. CASE Elsewhere /\ UNCHANGED hostVars
  BY <1>2 DEF hostVars
<1>3. CASE CalcPaths /\ UNCHANGED hostVars
  BY <1>3 DEF CalcPaths, netVars, discoveryVars, hostVars
<1>4. CASE \E h \in setup.hosts, e \in Ends \cup setup.plugs :
              \/ Flood(h, e)
              \/ \E dst \in setup.hosts \ {h} : InstallPath(h, e, dst)
              \/ \E info \in getSrcIPandARP : HostSeen(h, e, info)
  BY <1>4, Zenon DEF HostStep
<1>5. CASE \E h \in setup.hosts :
              Quiet(h) \/ _check_timeouts(h) \/ \E ip \in Ip : IpQuiet(h, ip)
  BY <1>5, Zenon DEF HostStep
<1>6. CASE UNCHANGED allVars
  BY <1>6 DEF allVars, vars, netVars, discoveryVars, hostVars
<1>. QED
  BY <1>1, <1>2, <1>3, <1>4, <1>5, <1>6, Zenon DEF HNext

LEMMA NetStep ==
    ASSUME NetOK, [HNext]_allVars
    PROVE  NetOK' /\ (Linked => Linked')
<1>1. CASE LinkEventHandled
  BY <1>1, HandlerKeeps DEF LinkEventHandled
<1>2. CASE Elsewhere
  BY <1>2, ElsewhereNetKeeps
<1>3. CASE HostStep
  BY <1>3, HostStepKeeps, DisconnectsOnly DEF NetOK
<1>4. CASE /\ setup' = setup /\ lldp' = lldp /\ adjacency' = adjacency /\ ports' = ports
           /\ stack' = stack
  BY <1>4, DisconnectsOnly DEF NetOK
<1>. QED
  BY <1>1, <1>2, <1>3, <1>4, StepKinds

LEMMA LinkedAgree == NetOK /\ Linked => NeighboursAgree
<1>. SUFFICES ASSUME NetOK, Linked, Idle PROVE NeighboursAgree
  BY DEF NeighboursAgree
<1>1. (\A p : ~Gone(stack, p)) /\ (\A l : ~Come(stack, l))
  BY DEF Idle, Gone, Come
<1>2. setup \in Setups /\ ports \subseteq Cables /\ adjacency \subseteq Cables
  BY DEF NetOK
<1>3. \A l \in ports : flip(l) \in ports /\ {l, flip(l)} \cap adjacency # {}
  BY <1>1 DEF Linked
<1>4. ASSUME NEW l \in BothWays(adjacency)
      PROVE  \E k \in ports : k.dpid1 = l.dpid1 /\ k.dpid2 = l.dpid2
  <2>1. PICK k \in ports : Pair(k) = Pair(l)
    BY <1>1 DEF Linked
  <2>2. l \in Cables /\ k \in Cables
    BY <1>2 DEF BothWays
  <2>3. \/ k.dpid1 = l.dpid1 /\ k.dpid2 = l.dpid2
        \/ k.dpid1 = l.dpid2 /\ k.dpid2 = l.dpid1
    BY <1>2, <2>1, <2>2, PairFacts
  <2>4. flip(k) \in ports /\ flip(k).dpid1 = k.dpid2 /\ flip(k).dpid2 = k.dpid1
    BY <1>2, <1>3, <2>2, PairFacts
  <2>. QED
    BY <2>3, <2>4
<1>. QED
  BY <1>3, <1>4, Zenon DEF NeighboursAgree, Linked

\* In any network and with any number of closed sockets found inside handlers, once all
\* handlers are done two switches between which a link goes both ways are neighbours for
\* l2_multi, over one link, and all its neighbours are linked (l2_multi.py:311-362,
\* discovery.py:384-387).
THEOREM NeighboursAlwaysAgree == HSpec => []NeighboursAgree
<1>1. (NetOK /\ Linked) /\ [HNext]_allVars => (NetOK /\ Linked)'
  BY NetStep
<1>. QED
  BY <1>1, NetStart, LinkedAgree, PTL DEF HSpec

-----------------------------------------------------------------------------
(* Where l2_multi believes the hosts to be.                                *)

MapOK == mac_map = [h \in Mac |-> mac_map[h]]

LEMMA LearnedOutside ==
    ASSUME MapOK, NEW h, NEW e, mac_map' = [mac_map EXCEPT ![h] = Learned(h, e)],
           ports' = ports
    PROVE  MapOK' /\ \A g \in Mac : StaysOutside(g)
<1>1. mac_map' = [g \in Mac |-> IF g = h THEN Learned(h, e) ELSE mac_map[g]]
  BY DEF MapOK
<1>2. MapOK'
  BY <1>1 DEF MapOK
<1>3. ASSUME NEW g \in Mac, mac_map[g] # Nowhere, Behind(mac_map'[g], ports')
      PROVE  Behind(mac_map[g], ports)
  <2>1. CASE g # h
    BY <1>1, <1>3, <2>1
  <2>2. CASE g = h
    <3>1. mac_map'[g] = Learned(g, e) /\ Behind(Learned(g, e), ports)
      BY <1>1, <1>3, <2>2
    <3>2. CASE Behind(e, ports)
      BY <1>3, <3>1, <3>2 DEF Learned, Behind
    <3>3. CASE ~Behind(e, ports)
      BY <1>3, <3>1, <3>3 DEF Learned, Behind
    <3>. QED
      BY <3>2, <3>3
  <2>. QED
    BY <2>1, <2>2
<1>. QED
  BY <1>2, <1>3 DEF StaysOutside

LEMMA SamePlaces ==
    ASSUME MapOK, mac_map' = mac_map, ports' = ports
    PROVE  MapOK' /\ \A g \in Mac : StaysOutside(g)
BY DEF MapOK, StaysOutside

LEMMA LinkEventOutside ==
    ASSUME NetOK, MapOK, LinkEventHandled
    PROVE  MapOK' /\ \A g \in Mac : StaysOutside(g)
<1>1. stack # <<>> /\ HandleLinkEvent /\ Head(stack).cur # None
      /\ mac_map' = IF Head(stack).for = "add" THEN Unlearned(Head(stack).cur) ELSE mac_map
  BY DEF LinkEventHandled, HandleLinkEvent, Idle
<1>2. PICK f \in Frames : f = Head(stack) /\ FrameOK(f, adjacency)
  BY <1>1, Innermost
<1>3. f.cur \in Cables /\ f.cur # None
  BY <1>1, <1>2 DEF Frames
<1>4. IF f.for = "add" THEN LinkAdded(f.cur) ELSE LinkRemoved(f.cur)
  BY <1>1, <1>2, Zenon DEF HandleLinkEvent
<1>5. \A l : Source(flip(l)) = Target(l)
  BY DEF Source, Target, flip, Link
<1>6. CASE f.for = "add"
  <2>1. mac_map' = [h \in Mac |-> IF mac_map[h] \in {Source(f.cur), Target(f.cur)}
                                  THEN Nowhere ELSE mac_map[h]]
    BY <1>1, <1>2, <1>6 DEF Unlearned
  <2>2. \A l \in ports' : l \in ports \/ l \in {f.cur, flip(f.cur)}
    BY <1>4, <1>6 DEF LinkAdded
  <2>3. ASSUME NEW g \in Mac, mac_map'[g] # Nowhere, Behind(mac_map'[g], ports')
        PROVE  Behind(mac_map[g], ports)
    <3>1. mac_map'[g] = mac_map[g] /\ mac_map[g] \notin {Source(f.cur), Target(f.cur)}
      BY <2>1, <2>3
    <3>2. PICK l \in ports' : Source(l) = mac_map[g]
      BY <2>3, <3>1 DEF Behind
    <3>3. l \in ports
      BY <1>5, <2>2, <3>1, <3>2
    <3>. QED
      BY <3>2, <3>3 DEF Behind
  <2>4. MapOK'
    BY <2>1 DEF MapOK
  <2>. QED
    BY <2>3, <2>4 DEF StaysOutside
<1>7. CASE f.for # "add"
  <2>1. mac_map' = mac_map /\ LinkRemoved(f.cur) /\ f.cur \notin adjacency
    BY <1>1, <1>2, <1>3, <1>4, <1>7 DEF FrameOK
  <2>2. ASSUME NEW l \in ports', l \notin ports
        PROVE  Source(l) \notin {Source(f.cur), Target(f.cur)}
    <3>1. PICK k \in BothWays(adjacency) :
            k.dpid1 = f.cur.dpid1 /\ k.dpid2 = f.cur.dpid2 /\ l \in {k, flip(k)}
      BY <2>1, <2>2 DEF LinkRemoved, Others
    <3>2. k \in Cables /\ k \in adjacency /\ setup \in Setups
      BY DEF BothWays, NetOK
    <3>3. k # f.cur /\ f.cur.dpid1 # f.cur.dpid2
      BY <1>3, <2>1, <3>2, CableFacts
    <3>4. Source(k) # Source(f.cur)
      BY <1>3, <3>2, <3>3, CableFacts
    <3>5. Target(k) # Target(f.cur)
      <4>1. /\ flip(k) \in Cables /\ flip(f.cur) \in Cables
            /\ flip(flip(k)) = k /\ flip(flip(f.cur)) = f.cur
        BY <1>3, <3>2, CableFacts
      <4>2. flip(k) # flip(f.cur)
        BY <3>3, <4>1
      <4>3. Source(flip(k)) # Source(flip(f.cur))
        BY <3>2, <4>1, <4>2, CableFacts
      <4>. QED
        BY <1>5, <4>3
    <3>6. Source(k) # Target(f.cur) /\ Target(k) # Source(f.cur)
      BY <3>1, <3>3 DEF Source, Target
    <3>. QED
      BY <1>5, <3>1, <3>4, <3>5, <3>6
  <2>3. ASSUME NEW g \in Mac, Behind(mac_map'[g], ports')
        PROVE  Behind(mac_map[g], ports) \/ Replacing(g)
    <3>1. PICK l \in ports' : Source(l) = mac_map[g]
      BY <2>1, <2>3 DEF Behind
    <3>2. CASE l \in ports
      BY <3>1, <3>2 DEF Behind
    <3>3. CASE l \notin ports
      BY <1>1, <1>2, <1>7, <2>2, <3>1, <3>3 DEF Replacing, Idle
    <3>. QED
      BY <3>2, <3>3
  <2>4. MapOK'
    BY <2>1 DEF MapOK
  <2>. QED
    BY <2>3, <2>4 DEF StaysOutside
<1>. QED
  BY <1>6, <1>7

LEMMA HostStepOutside ==
    ASSUME MapOK, HostStep
    PROVE  MapOK' /\ \A g \in Mac : StaysOutside(g)
<1>1. ports' = ports
  BY HostStepKeeps
<1>2. mac_map' = mac_map \/ \E h, e : mac_map' = [mac_map EXCEPT ![h] = Learned(h, e)]
  <2>1. ASSUME NEW h, NEW e, Flood(h, e)
        PROVE  mac_map' = [mac_map EXCEPT ![h] = Learned(h, e)]
    BY <2>1, Zenon DEF Flood
  <2>2. ASSUME NEW h, NEW e, NEW dst, InstallPath(h, e, dst)
        PROVE  mac_map' = [mac_map EXCEPT ![h] = Learned(h, e)]
    BY <2>2, Zenon DEF InstallPath
  <2>3. ASSUME NEW h, NEW e, NEW info, HostSeen(h, e, info) PROVE mac_map' = mac_map
    BY <2>3 DEF HostSeen, Set
  <2>4. ASSUME NEW h, NEW ip, Quiet(h) \/ IpQuiet(h, ip) PROVE mac_map' = mac_map
    BY <2>4 DEF Quiet, IpQuiet, Set
  <2>5. ASSUME NEW h, _check_timeouts(h) PROVE mac_map' = mac_map
    BY <2>5, Zenon DEF _check_timeouts, Set
  <2>6. ASSUME NEW h, Quiet(h) PROVE mac_map' = mac_map
    BY <2>6 DEF Quiet, Set
  <2>. QED
    BY <2>1, <2>2, <2>3, <2>4, <2>5, <2>6, Zenon DEF HostStep
<1>3. CASE mac_map' = mac_map
  BY <1>1, <1>3, SamePlaces
<1>4. ASSUME NEW h, NEW e, mac_map' = [mac_map EXCEPT ![h] = Learned(h, e)]
      PROVE  MapOK' /\ \A g \in Mac : StaysOutside(g)
  BY <1>1, <1>4, LearnedOutside
<1>. QED
  BY <1>2, <1>3, <1>4

LEMMA ElsewhereSameUse ==
    ASSUME NetOK, Elsewhere
    PROVE  ports' = ports
<1>1. CASE DeleteLink
  BY <1>1 DEF DeleteLink
<1>2. CASE PushTree
  BY <1>2, Zenon DEF PushTree
<1>3. CASE NoticeClosed
  BY <1>3, Zenon DEF NoticeClosed
<1>4. CASE PacketIn
  BY <1>4, Zenon DEF PacketIn
<1>5. CASE \E links \in SUBSET adjacency : Cardinality(links) <= setup.overdue /\ Expire(links)
  BY <1>5 DEF Expire
<1>6. ASSUME NEW d \in Dpids, ConnectionUp(d) \/ Close(d) PROVE ports' = ports
  BY <1>6 DEF ConnectionUp, Close
<1>7. ASSUME NEW e \in Ends, TimerHandler(e) \/ PortAdded(e) \/ PortDeleted(e)
      PROVE  ports' = ports
  BY <1>7 DEF TimerHandler, PortAdded, PortDeleted
<1>8. ASSUME NEW l \in topology, Cut(l) \/ Mend(l) PROVE ports' = ports
  BY <1>8 DEF Cut, Mend
<1>. QED
  BY <1>1, <1>2, <1>3, <1>4, <1>5, <1>6, <1>7, <1>8 DEF Elsewhere

LEMMA OutsideStep ==
    ASSUME NetOK, MapOK, [HNext]_allVars
    PROVE  MapOK' /\ \A h \in Mac : StaysOutside(h)
<1>1. CASE LinkEventHandled
  BY <1>1, LinkEventOutside
<1>2. CASE Elsewhere /\ mac_map' = mac_map
  BY <1>2, ElsewhereSameUse, SamePlaces
<1>3. CASE HostStep
  BY <1>3, HostStepOutside
<1>4. CASE ports' = ports /\ mac_map' = mac_map
  BY <1>4, SamePlaces
<1>. QED
  BY <1>1, <1>2, <1>3, <1>4, StepKinds

\* A host that l2_multi knows gets behind a link in one way only, in any network and
\* however links, frames and the lost connection of HostsAssumption follow each other:
\* when a parallel cable takes the place of a link that has gone (l2_multi.py:248-258,
\* 337-376).
THEOREM HostsAlwaysOutside == HSpec => HostsStayOutside
<1>1. HInit => NetOK /\ MapOK
  BY NetStart DEF HInit, MapOK
<1>2. NetOK /\ MapOK /\ [HNext]_allVars => (NetOK /\ MapOK)'
  BY NetStep, OutsideStep
<1>3. NetOK /\ MapOK /\ [HNext]_allVars => [\A h \in Mac : StaysOutside(h)]_allVars
  BY OutsideStep
<1>. QED
  BY <1>1, <1>2, <1>3, PTL DEF HSpec, HostsStayOutside
=============================================================================
