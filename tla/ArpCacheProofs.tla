--------------------------- MODULE ArpCacheProofs ---------------------------
(***************************************************************************)
(* Theorems about ArpCache, for every number of addresses, packets,        *)
(* requests and slots and every value of the time-out and of MAX_TRIES; the *)
(* last part is about ArpRefinement, which extends it.                     *)
(***************************************************************************)
EXTENDS ArpRefinement, TLAPS

-----------------------------------------------------------------------------
(* Type correctness.                                                       *)

\* A request record of each state has the type of a request.
LEMMA GoneType == \A st \in {"free", "leaked", "freed"} : Gone(st) \in Request
  BY SMT DEF Gone, Request

\* Assigning a field of a request keeps its type.
LEMMA RequestField ==
    ASSUME NEW q \in Request
    PROVE  /\ \A a \in 0 .. 1 : [q EXCEPT !.age = a] \in Request
           /\ \A n \in Nat : [q EXCEPT !.times = n] \in Request
           /\ \A s \in Seq(Packet) : [q EXCEPT !.pkts = s] \in Request
  BY SMT DEF Request

\* Init puts every variable into its type.
LEMMA TypeInit == Init => TypeOK
<1>. SUFFICES ASSUME Init PROVE TypeOK
  OBVIOUS
<1>1. req \in [ReqId -> Request]
  BY GoneType DEF Init
<1>. QED
  BY <1>1 DEF Init, TypeOK, Thread, MainPC, SweepPC, HandlePC, NoJob, Handling

\* Every step of handle_arpreq keeps the types.
LEMMA TypeHandle == ASSUME TypeOK, NEW t \in Thread, Handle(t) PROVE TypeOK'
<1>. USE DEF Thread, MainPC, SweepPC, HandlePC, Handling
<1>0. /\ req \in [ReqId -> Request] /\ cur[t] \in ReqId
      /\ req[cur[t]] \in Request
  BY DEF TypeOK, Handle, CheckAge, CheckTries, SendArp, Stamp, LoadTimes,
         StoreTimes, Unreachable
<1>1. CASE CheckAge(t)
  BY <1>1, <1>0 DEF CheckAge, TypeOK, Return, Resume
<1>2. CASE CheckTries(t)
  BY <1>2, <1>0 DEF CheckTries, TypeOK
<1>3. CASE SendArp(t)
  BY <1>3, <1>0 DEF SendArp, TypeOK
<1>4. CASE Stamp(t)
  <2>1. req' \in [ReqId -> Request]
    <3>1. req' = [req EXCEPT ![cur[t]] = [req[cur[t]] EXCEPT !.age = stale[t]]]
      BY <1>4 DEF Stamp
    <3>2. stale[t] \in 0 .. 1
      BY DEF TypeOK
    <3>. QED
      BY <3>1, <3>2, <1>0, RequestField
  <2>. QED
    BY <2>1, <1>4 DEF Stamp, TypeOK
<1>5. CASE LoadTimes(t)
  BY <1>5, <1>0 DEF LoadTimes, TypeOK, Request
<1>6. CASE StoreTimes(t)
  <2>1. req' \in [ReqId -> Request]
    <3>1. req' = [req EXCEPT ![cur[t]] =
                    [req[cur[t]] EXCEPT !.times = reg[t] + 1]]
      BY <1>6 DEF StoreTimes
    <3>2. reg[t] + 1 \in Nat
      BY DEF TypeOK
    <3>. QED
      BY <3>1, <3>2, <1>0, RequestField
  <2>. QED
    BY <2>1, <1>6 DEF StoreTimes, TypeOK, Return, Resume
<1>7. CASE Unreachable(t)
  <2>1. req' \in [ReqId -> Request]
    BY <1>7, <1>0, GoneType DEF Unreachable, TypeOK
  <2>2. fate' \in [Packet -> {"new", "held", "queued", "sent", "leaked",
                              "reported"}]
    BY <1>7, <1>0 DEF Unreachable, TypeOK
  <2>3. \/ pc' = pc /\ cur' = cur
        \/ Return(t)
    BY <1>7 DEF Unreachable
  <2>. QED
    BY <2>1, <2>2, <2>3, <1>7 DEF Unreachable, TypeOK, Return, Resume
<1>. QED
  BY <1>1, <1>2, <1>3, <1>4, <1>5, <1>6, <1>7 DEF Handle

\* sr_arpcache_queuereq keeps the type of the requests.
LEMMA TypeQueueOn ==
    ASSUME TypeOK, NEW r \in ReqId, pc["main"] = "fwd_queue", QueueOn(r)
    PROVE  req' \in [ReqId -> Request]
<1>0. /\ req[r] \in Request /\ job.ip \in IP /\ job.pkt \in Packet
  BY DEF TypeOK
<1>1. CASE RequestsFor(job.ip) # {}
  <2>1. req' = [req EXCEPT ![r] = [req[r] EXCEPT !.pkts = <<job.pkt>> \o @]]
    BY <1>1 DEF QueueOn
  <2>2. <<job.pkt>> \o req[r].pkts \in Seq(Packet)
    BY <1>0 DEF Request
  <2>. QED
    BY <2>1, <2>2, <1>0, RequestField DEF TypeOK
<1>2. CASE RequestsFor(job.ip) = {}
  <2>1. [st |-> "queued", ip |-> job.ip, age |-> 1, times |-> 0,
         pkts |-> <<job.pkt>>] \in Request
    BY <1>0 DEF Request
  <2>. QED
    BY <2>1, <1>2 DEF QueueOn, TypeOK
<1>. QED
  BY <1>1, <1>2

\* The packet loop keeps the types.
LEMMA TypeWork == ASSUME TypeOK, Work PROVE TypeOK'
<1>. USE DEF Thread, MainPC, SweepPC, HandlePC, Handling, NoJob
<1>1. CASE ForwardLookup
  BY <1>1 DEF ForwardLookup, TypeOK
<1>2. ASSUME NEW r \in ReqId, ForwardQueue(r) PROVE TypeOK'
  <2>1. req' \in [ReqId -> Request]
    BY <1>2, TypeQueueOn DEF ForwardQueue
  <2>. QED
    BY <2>1, <1>2 DEF ForwardQueue, TypeOK
<1>3. CASE ReplyLookup
  BY <1>3 DEF ReplyLookup, TypeOK
<1>4. CASE ReplyInsert
  <2>1. entries' \in [Slot -> Entry \cup {Null}]
    <3>1. [ip |-> job.ip, mac |-> job.mac, age |-> 0] \in Entry
      BY <1>4, TimeoutAssumption DEF ReplyInsert, TypeOK, Entry
    <3>. QED
      BY <3>1, <1>4 DEF ReplyInsert, TypeOK
  <2>2. req' \in [ReqId -> Request]
    BY <1>4, GoneType DEF ReplyInsert, TypeOK
  <2>3. fate' \in [Packet -> {"new", "held", "queued", "sent", "leaked",
                              "reported"}]
    BY <1>4 DEF ReplyInsert, TypeOK
  <2>. QED
    BY <2>1, <2>2, <2>3, <1>4 DEF ReplyInsert, TypeOK
<1>. QED
  BY <1>1, <1>2, <1>3, <1>4 DEF Work

\* The sweeper keeps the types.
LEMMA TypeSweep == ASSUME TypeOK, Sweep PROVE TypeOK'
<1>. USE DEF Thread, MainPC, SweepPC, HandlePC, Handling
<1>1. CASE Wake
  BY <1>1 DEF Wake, TypeOK, Queue
<1>2. ASSUME NEW r \in ReqId, SweepNext(r) PROVE TypeOK'
  BY <1>2 DEF SweepNext, TypeOK
<1>3. CASE SweepDone
  BY <1>3 DEF SweepDone, TypeOK
<1>. QED
  BY <1>1, <1>2, <1>3 DEF Sweep

\* The passage of a second keeps the types: an age that has reached its bound
\* stays there.
LEMMA TypeTick == ASSUME TypeOK, Tick PROVE TypeOK'
<1>1. entries' \in [Slot -> Entry \cup {Null}]
  <2>1. SUFFICES ASSUME NEW i \in Slot PROVE entries'[i] \in Entry \cup {Null}
    BY DEF Tick
  <2>2. CASE entries[i] = Null \/ entries[i].age > SR_ARPCACHE_TO
    BY <2>2 DEF Tick, TypeOK
  <2>3. CASE ~(entries[i] = Null \/ entries[i].age > SR_ARPCACHE_TO)
    <3>1. entries[i] \in Entry
      BY <2>3 DEF TypeOK
    <3>2. [entries[i] EXCEPT !.age = @ + 1] \in Entry
      BY <2>3, <3>1, TimeoutAssumption DEF Entry
    <3>. QED
      BY <2>3, <3>2 DEF Tick
  <2>. QED
    BY <2>2, <2>3
<1>2. req' \in [ReqId -> Request]
  <2>1. \A r \in ReqId : [req[r] EXCEPT !.age = 1] \in Request
    <3>1. 1 \in 0 .. 1 /\ \A r \in ReqId : req[r] \in Request
      BY DEF TypeOK
    <3>. QED
      BY <3>1, RequestField, Zenon
  <2>2. req' = [r \in ReqId |-> [req[r] EXCEPT !.age = 1]]
    BY DEF Tick
  <2>. QED
    BY <2>1, <2>2, Zenon
<1>. QED
  BY <1>1, <1>2 DEF Tick, TypeOK, Handling

\* Every step keeps the types.
LEMMA TypeStep == ASSUME TypeOK, [Next]_vars PROVE TypeOK'
<1>1. ASSUME NEW p \in Packet, NEW ip \in IP, ReceiveIp(p, ip) PROVE TypeOK'
  BY <1>1 DEF ReceiveIp, TypeOK, Thread, MainPC, SweepPC, HandlePC, Handling,
              NoJob
<1>2. ASSUME NEW ip \in IP, NEW mac \in MAC, ReceiveReply(ip, mac)
      PROVE  TypeOK'
  BY <1>2 DEF ReceiveReply, TypeOK, Thread, MainPC, SweepPC, HandlePC,
              Handling, NoJob
<1>3. CASE UNCHANGED vars
  BY <1>3 DEF vars, TypeOK, Handling
<1>. QED
  BY <1>1, <1>2, <1>3, TypeWork, TypeHandle, TypeSweep, TypeTick DEF Next

\* The state of the ARP cache and of its two threads always has its type.
THEOREM TypeCorrect == Spec => []TypeOK
<1>1. Init => TypeOK
  BY TypeInit
<1>2. TypeOK /\ [Next]_vars => TypeOK'
  BY TypeStep
<1>. QED
  BY <1>1, <1>2, PTL DEF Spec

-----------------------------------------------------------------------------
(* The cache and the request list: one mapping and one request for each    *)
(* address, never both.                                                    *)

\* A step other than sr_arpcache_insert makes no slot valid and changes the
\* address of none.
NoNewMapping == \A i \in Slot : entries'[i] # Null =>
                   entries[i] # Null /\ entries'[i].ip = entries[i].ip

\* A step other than sr_arpcache_queuereq puts no request on the list and
\* changes the address of none.
NoNewRequest == \A r \in ReqId : req'[r].st = "queued" =>
                   req[r].st = "queued" /\ req'[r].ip = req[r].ip

\* Only deal_arp's insert fills a slot.
LEMMA MappingFrame == ASSUME TypeOK, [Next]_vars, ~ReplyInsert
                      PROVE  NoNewMapping
<1>1. CASE Wake
  BY <1>1 DEF Wake, NoNewMapping
<1>2. CASE Tick
  <2>1. SUFFICES ASSUME NEW i \in Slot, entries'[i] # Null
                 PROVE  entries[i] # Null /\ entries'[i].ip = entries[i].ip
    BY DEF NoNewMapping
  <2>2. CASE entries[i] = Null \/ entries[i].age > SR_ARPCACHE_TO
    BY <1>2, <2>1, <2>2 DEF Tick
  <2>3. CASE ~(entries[i] = Null \/ entries[i].age > SR_ARPCACHE_TO)
    <3>1. entries[i] \in Entry
      BY <2>3 DEF TypeOK
    <3>2. entries'[i] = [entries[i] EXCEPT !.age = @ + 1]
      BY <1>2, <2>3 DEF Tick
    <3>. QED
      BY <2>3, <3>1, <3>2 DEF Entry
  <2>. QED
    BY <2>2, <2>3
<1>3. CASE entries' = entries
  BY <1>3 DEF NoNewMapping
<1>. QED
  BY <1>1, <1>2, <1>3 DEF Next, vars, Work, Handle, Sweep, ReceiveIp,
     ReceiveReply, ForwardLookup, ForwardQueue, ReplyLookup, CheckAge,
     CheckTries, SendArp, Stamp, LoadTimes, StoreTimes, Unreachable,
     SweepNext, SweepDone

\* Only forward_ip_packet's queuereq adds a request.
LEMMA RequestFrame ==
    ASSUME TypeOK, [Next]_vars, \A r \in ReqId : ~ForwardQueue(r)
    PROVE  NoNewRequest
<1>. USE DEF NoNewRequest
<1>1. CASE ReplyInsert
  BY <1>1 DEF ReplyInsert, Gone
<1>2. CASE Tick
  <2>1. \A r \in ReqId : req[r] \in Request
    BY DEF TypeOK
  <2>. QED
    BY <1>2, <2>1 DEF Tick, Request
<1>3. ASSUME NEW t \in Thread, Handle(t) PROVE NoNewRequest
  <2>1. \A r \in ReqId : req[r] \in Request
    BY DEF TypeOK
  <2>2. CASE Stamp(t)
    BY <2>1, <2>2 DEF Stamp, TypeOK, Request
  <2>3. CASE StoreTimes(t)
    BY <2>1, <2>3 DEF StoreTimes, TypeOK, Request
  <2>4. CASE Unreachable(t)
    <3>1. \A r \in ReqId : req'[r] = req[r] \/ req'[r] = Gone("freed")
      BY <2>4 DEF Unreachable, TypeOK
    <3>. QED
      BY <3>1 DEF Gone
  <2>5. CASE req' = req
    BY <2>5
  <2>. QED
    BY <1>3, <2>2, <2>3, <2>4, <2>5 DEF Handle, CheckAge, CheckTries, SendArp,
       LoadTimes
<1>4. CASE req' = req
  BY <1>4
<1>. QED
  BY <1>1, <1>2, <1>3, <1>4 DEF Next, vars, Work, Sweep, ReceiveIp,
     ReceiveReply, ForwardLookup, ReplyLookup, Wake, SweepNext, SweepDone

\* Nothing is cached or queued at the start.
LEMMA CacheInit == Init => CacheInv
  BY DEF Init, CacheInv, OneMappingPerIp, OneRequestPerIp, CachedNotPending,
         MissStillHolds, SlotsFor, RequestsFor, Queue, Cached, Gone, Thread

\* A miss is acted upon by the thread that saw it; only that thread inserts.
LEMMA MissStep == ASSUME TypeOK, CacheInv, [Next]_vars PROVE MissStillHolds'
<1>1. SUFFICES ASSUME pc'["main"] \in {"fwd_queue", "rep_insert"}
               PROVE  ~Cached(job.ip)'
  BY DEF MissStillHolds
<1>2. ~ReplyInsert
  BY <1>1 DEF ReplyInsert, TypeOK, Thread
<1>3. NoNewMapping
  BY <1>2, MappingFrame
<1>4. ~Cached(job.ip) /\ job' = job
  <2>1. CASE ForwardLookup
    BY <1>1, <2>1 DEF ForwardLookup, TypeOK, Thread
  <2>2. CASE ReplyLookup
    BY <1>1, <2>2 DEF ReplyLookup, TypeOK, Thread
  <2>3. CASE pc'["main"] = pc["main"] /\ job' = job
    BY <1>1, <2>3 DEF CacheInv, MissStillHolds
  <2>4. CASE pc'["main"] \in HandlePC \cup {"idle", "fwd_lookup", "rep_lookup"}
    BY <1>1, <2>4 DEF HandlePC
  <2>5. ASSUME NEW t \in Thread, Handle(t)
        PROVE  \/ pc'["main"] \in HandlePC \cup {"idle"}
               \/ pc'["main"] = pc["main"] /\ job' = job
    BY <2>5 DEF Handle, CheckAge, CheckTries, SendArp, Stamp, LoadTimes,
       StoreTimes, Unreachable, Return, Resume, TypeOK, Thread, HandlePC
  <2>6. CASE Sweep
    BY <2>3, <2>6 DEF Sweep, Wake, SweepNext, SweepDone, TypeOK, Thread
  <2>7. ASSUME NEW r \in ReqId, ForwardQueue(r)
        PROVE  pc'["main"] \in HandlePC
    BY <2>7 DEF ForwardQueue, TypeOK, Thread, HandlePC
  <2>8. ASSUME NEW p \in Packet, NEW ip \in IP, ReceiveIp(p, ip)
        PROVE  pc'["main"] = "fwd_lookup"
    BY <2>8 DEF ReceiveIp, TypeOK, Thread
  <2>9. ASSUME NEW ip \in IP, NEW mac \in MAC, ReceiveReply(ip, mac)
        PROVE  pc'["main"] = "rep_lookup"
    BY <2>9 DEF ReceiveReply, TypeOK, Thread
  <2>10. CASE Tick \/ UNCHANGED vars
    BY <2>3, <2>10 DEF Tick, vars
  <2>. QED
    BY <1>2, <2>1, <2>2, <2>3, <2>4, <2>5, <2>6, <2>7, <2>8, <2>9, <2>10
    DEF Next, Work
<1>. QED
  BY <1>3, <1>4 DEF NoNewMapping, Cached, SlotsFor

\* sr_arpcache_insert fills one slot, for an address that has none.
LEMMA MappingStep == ASSUME TypeOK, CacheInv, [Next]_vars
                     PROVE  OneMappingPerIp'
<1>1. CASE ReplyInsert
  <2>1. ~Cached(job.ip)
    BY <1>1 DEF ReplyInsert, CacheInv, MissStillHolds
  <2>2. SUFFICES ASSUME NEW ip \in IP, NEW i \in Slot, NEW j \in Slot,
                        entries'[i] # Null, entries'[i].ip = ip,
                        entries'[j] # Null, entries'[j].ip = ip
                 PROVE  i = j
    BY DEF OneMappingPerIp, SlotsFor
  <2>3. CASE FirstInvalid(i) /\ FirstInvalid(j)
    BY <2>3, SizeAssumption DEF FirstInvalid, Slot
  <2>4. CASE FirstInvalid(i) /\ ~FirstInvalid(j)
    BY <1>1, <2>1, <2>2, <2>4 DEF ReplyInsert, Cached, SlotsFor
  <2>5. CASE ~FirstInvalid(i) /\ FirstInvalid(j)
    BY <1>1, <2>1, <2>2, <2>5 DEF ReplyInsert, Cached, SlotsFor
  <2>6. CASE ~FirstInvalid(i) /\ ~FirstInvalid(j)
    BY <1>1, <2>2, <2>6 DEF ReplyInsert, CacheInv, OneMappingPerIp, SlotsFor
  <2>. QED
    BY <2>3, <2>4, <2>5, <2>6
<1>2. CASE ~ReplyInsert
  BY <1>2, MappingFrame DEF NoNewMapping, CacheInv, OneMappingPerIp, SlotsFor
<1>. QED
  BY <1>1, <1>2

\* Queueing on an old request changes no request but for its packets.
LEMMA QueueOnOld ==
    ASSUME TypeOK, NEW r \in ReqId, QueueOn(r), RequestsFor(job.ip) # {}
    PROVE  \A q \in ReqId : /\ req'[q].st = req[q].st
                            /\ req'[q].ip = req[q].ip
                            /\ req'[q].times = req[q].times
<1>1. req' = [req EXCEPT ![r] = [req[r] EXCEPT !.pkts = <<job.pkt>> \o @]]
  BY DEF QueueOn
<1>2. \A q \in ReqId : req[q] \in Request
  BY DEF TypeOK
<1>3. \A q \in ReqId \ {r} : req'[q] = req[q]
  BY <1>1 DEF TypeOK
<1>4. /\ req'[r].st = req[r].st /\ req'[r].ip = req[r].ip
      /\ req'[r].times = req[r].times
  BY <1>1, <1>2 DEF TypeOK, Request
<1>. QED
  BY <1>3, <1>4

\* sr_arpcache_queuereq allocates a request only for an address that has
\* none on the list, in the same critical section.
LEMMA RequestStep == ASSUME TypeOK, CacheInv, [Next]_vars
                     PROVE  OneRequestPerIp'
<1>1. ASSUME NEW r \in ReqId, ForwardQueue(r) PROVE OneRequestPerIp'
  <2>1. QueueOn(r) /\ \A q \in ReqId : req[q] \in Request
    BY <1>1 DEF ForwardQueue, TypeOK
  <2>2. CASE RequestsFor(job.ip) # {}
    <3>1. \A q \in ReqId : req'[q].st = req[q].st /\ req'[q].ip = req[q].ip
      BY <2>1, <2>2, QueueOnOld
    <3>. QED
      BY <3>1 DEF CacheInv, OneRequestPerIp, RequestsFor, Queue
  <2>3. CASE RequestsFor(job.ip) = {}
    <3>1. /\ req'[r].ip = job.ip
          /\ \A q \in ReqId \ {r} : req'[q] = req[q]
      BY <2>1, <2>3 DEF QueueOn, TypeOK
    <3>. QED
      BY <2>3, <3>1 DEF CacheInv, OneRequestPerIp, RequestsFor, Queue
  <2>. QED
    BY <2>2, <2>3
<1>2. CASE \A r \in ReqId : ~ForwardQueue(r)
  BY <1>2, RequestFrame DEF NoNewRequest, CacheInv, OneRequestPerIp,
                            RequestsFor, Queue
<1>. QED
  BY <1>1, <1>2

\* A mapping appears together with the removal of the request it answers, and
\* a request only for an address whose lookup missed.
LEMMA PendingStep == ASSUME TypeOK, CacheInv, [Next]_vars
                     PROVE  CachedNotPending'
<1>1. CASE ReplyInsert
  <2>1. SUFFICES ASSUME NEW ip \in IP, NEW i \in Slot, NEW r \in ReqId,
                        entries'[i] # Null, entries'[i].ip = ip,
                        req'[r].st = "queued", req'[r].ip = ip
                 PROVE  FALSE
    BY DEF CachedNotPending, Cached, SlotsFor, RequestsFor, Queue
  <2>2. r \notin RequestsFor(job.ip) /\ req'[r] = req[r]
    BY <1>1, <2>1 DEF ReplyInsert, Gone
  <2>3. r \in RequestsFor(ip)
    BY <2>1, <2>2 DEF RequestsFor, Queue
  <2>4. ip # job.ip /\ entries'[i] = entries[i]
    BY <1>1, <2>1, <2>2, <2>3 DEF ReplyInsert
  <2>. QED
    BY <2>1, <2>3, <2>4 DEF CacheInv, CachedNotPending, Cached, SlotsFor
<1>2. ASSUME NEW r \in ReqId, ForwardQueue(r) PROVE CachedNotPending'
  <2>0. QueueOn(r) /\ \A q \in ReqId : req[q] \in Request
    BY <1>2 DEF ForwardQueue, TypeOK
  <2>1. entries' = entries /\ ~Cached(job.ip)
    BY <1>2 DEF ForwardQueue, CacheInv, MissStillHolds
  <2>2. \A q \in ReqId : req'[q].st = "queued" =>
           \/ req'[q].ip = job.ip
           \/ req[q].st = "queued" /\ req'[q].ip = req[q].ip
    <3>1. CASE RequestsFor(job.ip) # {}
      BY <2>0, <3>1, QueueOnOld
    <3>2. CASE RequestsFor(job.ip) = {}
      BY <2>0, <3>2 DEF QueueOn, TypeOK
    <3>. QED
      BY <3>1, <3>2
  <2>. QED
    BY <2>1, <2>2 DEF CacheInv, CachedNotPending, Cached, SlotsFor,
                      RequestsFor, Queue
<1>3. CASE ~ReplyInsert /\ \A r \in ReqId : ~ForwardQueue(r)
  <2>1. NoNewMapping /\ NoNewRequest
    BY <1>3, MappingFrame, RequestFrame
  <2>. QED
    BY <2>1 DEF NoNewMapping, NoNewRequest, CacheInv, CachedNotPending,
                Cached, SlotsFor, RequestsFor, Queue
<1>. QED
  BY <1>1, <1>2, <1>3

\* For any interleaving of the two threads: an address has at most one valid
\* slot and at most one queued request, it never has both, and a lookup that
\* missed is still a miss when queuereq or insert acts on it.
THEOREM CacheConsistent == Spec => []CacheInv
<1>1. TypeOK /\ CacheInv /\ [Next]_vars => CacheInv'
  BY MissStep, MappingStep, RequestStep, PendingStep DEF CacheInv
<1>. QED
  BY <1>1, TypeCorrect, CacheInit, PTL DEF Spec

-----------------------------------------------------------------------------
(* Pointers to requests.                                                   *)

\* Requests stay on the list and every request on it has a packet.
RequestsStay ==
    \A r \in ReqId : /\ req[r].st = "queued" => req'[r].st = "queued"
                     /\ req'[r].st = "queued" => req'[r].pkts # <<>>

\* The list is empty and nobody holds a pointer at the start.
LEMMA PointerInit == Init => PointerInv
  BY DEF Init, PointerInv, NoDangling, WalkInv, InUse, Handling, HandlePC,
         Queue, Gone, Thread

\* Only deal_arp's insert takes a request off the list: handle_arpreq never
\* reaches sr_arpreq_destroy, because the list it reports is not empty.
LEMMA StayFrame == ASSUME TypeOK, PointerInv, [Next]_vars, ~ReplyInsert
                   PROVE  RequestsStay
<1>0. /\ \A r \in ReqId : req[r] \in Request
      /\ \A r \in ReqId : req[r].st = "queued" => req[r].pkts # <<>>
  BY DEF TypeOK, PointerInv, WalkInv, Queue
<1>1. ASSUME NEW r \in ReqId, ForwardQueue(r) PROVE RequestsStay
  <2>0. QueueOn(r) /\ job.pkt \in Packet
    BY <1>1 DEF ForwardQueue, TypeOK
  <2>1. CASE RequestsFor(job.ip) # {}
    <3>1. <<job.pkt>> \o req[r].pkts # <<>>
      BY <1>0, <2>0 DEF Request
    <3>2. req' = [req EXCEPT ![r] =
                    [req[r] EXCEPT !.pkts = <<job.pkt>> \o @]]
      BY <2>0, <2>1 DEF QueueOn
    <3>3. req'[r].pkts = <<job.pkt>> \o req[r].pkts
      BY <3>2, <1>0 DEF TypeOK, Request
    <3>4. \A q \in ReqId \ {r} : req'[q] = req[q]
      BY <3>2 DEF TypeOK
    <3>. QED
      BY <1>0, <2>0, <2>1, <3>1, <3>3, <3>4, QueueOnOld DEF RequestsStay
  <2>2. CASE RequestsFor(job.ip) = {}
    <3>1. /\ req'[r].st = "queued" /\ req'[r].pkts = <<job.pkt>>
          /\ \A q \in ReqId \ {r} : req'[q] = req[q]
      BY <2>0, <2>2 DEF QueueOn, TypeOK
    <3>. QED
      BY <1>0, <3>1 DEF RequestsStay
  <2>. QED
    BY <2>1, <2>2
<1>2. CASE Tick
  BY <1>0, <1>2 DEF Tick, Request, RequestsStay
<1>3. ASSUME NEW t \in Thread, Handle(t) PROVE RequestsStay
  <2>2. CASE Stamp(t)
    BY <1>0, <2>2 DEF Stamp, TypeOK, Request, RequestsStay
  <2>3. CASE StoreTimes(t)
    BY <1>0, <2>3 DEF StoreTimes, TypeOK, Request, RequestsStay
  <2>4. CASE Unreachable(t)
    <3>1. req[cur[t]].pkts # <<>>
      BY <2>4 DEF Unreachable, PointerInv, NoDangling, InUse, Handling,
                  HandlePC
    <3>2. req' = req
      BY <2>4, <3>1 DEF Unreachable
    <3>. QED
      BY <1>0, <3>2 DEF RequestsStay
  <2>5. CASE req' = req
    BY <1>0, <2>5 DEF RequestsStay
  <2>. QED
    BY <1>3, <2>2, <2>3, <2>4, <2>5 DEF Handle, CheckAge, CheckTries, SendArp,
       LoadTimes
<1>4. CASE req' = req
  BY <1>0, <1>4 DEF RequestsStay
<1>. QED
  BY <1>1, <1>2, <1>3, <1>4 DEF Next, vars, Work, Sweep, ReceiveIp,
     ReceiveReply, ForwardLookup, ReplyLookup, Wake, SweepNext, SweepDone

\* When deal_arp takes a request off the list no thread points to one: main
\* has left handle_arpreq and the sweeper, which would hold the mutex, sleeps.
LEMMA PointerInsert == ASSUME TypeOK, PointerInv, ReplyInsert
                       PROVE  PointerInv'
<1>1. /\ pc'["main"] = "idle" /\ pc'["sweeper"] = "sleep"
      /\ todo' = {} /\ cur'["sweeper"] = Null
  BY DEF ReplyInsert, Locked, TypeOK, Thread, PointerInv, WalkInv
<1>2. \A r \in ReqId : req'[r].st = "queued" => req'[r] = req[r]
  BY DEF ReplyInsert, Gone
<1>. QED
  BY <1>1, <1>2 DEF PointerInv, NoDangling, WalkInv, InUse, Handling, HandlePC,
                    Queue, Thread

\* A thread that handles a request keeps to it, and a step that makes a
\* thread handle one takes it from the list.
LEMMA PointerStep == ASSUME TypeOK, PointerInv, [Next]_vars PROVE PointerInv'
<1>1. CASE ReplyInsert
  BY <1>1, PointerInsert
<1>2. CASE ~ReplyInsert
  <2>0. RequestsStay
    BY <1>2, StayFrame
  <2>. DEFINE Good == /\ \A t \in Thread : InUse(t)' =>
                            cur'[t] \in ReqId /\ req'[cur'[t]].st = "queued"
                      /\ todo' \subseteq Queue'
                      /\ pc'["sweeper"] = "sleep" =>
                            todo' = {} /\ cur'["sweeper"] = Null
  <2>1. SUFFICES Good
    BY <2>0 DEF PointerInv, NoDangling, WalkInv, Queue, RequestsStay
  <2>2. Queue \subseteq Queue'
    BY <2>0 DEF RequestsStay, Queue
  <2>3. /\ todo \subseteq Queue
        /\ pc["sweeper"] = "sleep" => todo = {} /\ cur["sweeper"] = Null
        /\ \A t \in Thread : InUse(t) => cur[t] \in Queue
    BY DEF PointerInv, NoDangling, WalkInv
  <2>. USE DEF InUse, Handling, HandlePC, Thread, TypeOK
  <2>4. ASSUME NEW r \in ReqId, ForwardQueue(r)
        PROVE  /\ cur'["main"] = r /\ req'[r].st = "queued"
               /\ cur'["sweeper"] = cur["sweeper"]
               /\ pc'["sweeper"] = pc["sweeper"] /\ todo' = todo
    <3>1. QueueOn(r)
      BY <2>4 DEF ForwardQueue
    <3>2. CASE RequestsFor(job.ip) # {}
      BY <2>0, <2>4, <3>1, <3>2
      DEF ForwardQueue, QueueOn, RequestsStay, RequestsFor, Queue
    <3>3. CASE RequestsFor(job.ip) = {}
      BY <2>4, <3>1, <3>3 DEF ForwardQueue, QueueOn
    <3>. QED
      BY <3>2, <3>3
  <2>5. ASSUME NEW r \in ReqId, ForwardQueue(r) PROVE Good
    BY <2>2, <2>3, <2>4, <2>5 DEF Queue
  <2>6. CASE Wake
    BY <2>2, <2>3, <2>6 DEF Wake, Queue
  <2>7. ASSUME NEW r \in ReqId, SweepNext(r) PROVE Good
    BY <2>2, <2>3, <2>7 DEF SweepNext, Queue
  <2>8. CASE SweepDone
    BY <2>2, <2>3, <2>8 DEF SweepDone, Queue
  <2>9. ASSUME NEW t \in Thread, Handle(t) PROVE Good
    <3>1. todo' = todo /\ InUse(t)
      BY <2>9 DEF Handle, CheckAge, CheckTries, SendArp, Stamp, LoadTimes,
         StoreTimes, Unreachable
    <3>2. \A u \in Thread \ {t} : pc'[u] = pc[u] /\ cur'[u] = cur[u]
      BY <2>9 DEF Handle, CheckAge, CheckTries, SendArp, Stamp, LoadTimes,
         StoreTimes, Unreachable, Return
    <3>3. /\ cur'[t] = cur[t] \/ (t = "main" /\ pc'[t] = "idle")
          /\ t = "sweeper" => pc'[t] # "sleep"
      BY <2>9 DEF Handle, CheckAge, CheckTries, SendArp, Stamp, LoadTimes,
         StoreTimes, Unreachable, Return, Resume
    <3>. QED
      BY <2>2, <2>3, <3>1, <3>2, <3>3 DEF Queue
  <2>10. CASE UNCHANGED <<cur, todo>> /\ pc'["sweeper"] = pc["sweeper"]
              /\ pc'["main"] \notin HandlePC
    BY <2>2, <2>3, <2>10 DEF Queue
  <2>11. CASE UNCHANGED <<cur, todo, pc>>
    BY <2>2, <2>3, <2>11 DEF Queue
  <2>12. CASE ForwardLookup \/ ReplyLookup
    BY <2>10, <2>12 DEF ForwardLookup, ReplyLookup
  <2>13. ASSUME NEW p \in Packet, NEW ip \in IP, ReceiveIp(p, ip)
         PROVE  Good
    BY <2>10, <2>13 DEF ReceiveIp
  <2>14. ASSUME NEW ip \in IP, NEW mac \in MAC, ReceiveReply(ip, mac)
         PROVE  Good
    BY <2>10, <2>14 DEF ReceiveReply
  <2>15. CASE Tick \/ UNCHANGED vars
    BY <2>11, <2>15 DEF Tick, vars
  <2>. QED
    BY <1>2, <2>5, <2>6, <2>7, <2>8, <2>9, <2>12, <2>13, <2>14, <2>15
    DEF Next, Work, Sweep
<1>. QED
  BY <1>1, <1>2

\* Neither thread ever uses a request that has been freed or taken off the
\* list, nor one without a packet.
THEOREM PointersSafe == Spec => []PointerInv
<1>1. TypeOK /\ PointerInv /\ [Next]_vars => PointerInv'
  BY PointerStep
<1>. QED
  BY <1>1, TypeCorrect, PointerInit, PTL DEF Spec

-----------------------------------------------------------------------------
(* The number of tries.                                                    *)

\* A step that sends nothing, raises no times_sent and brings no thread to
\* where a request is uncounted or given up.
Calm == /\ sends' = sends
        /\ \A r \in ReqId : req'[r].times <= req[r].times
        /\ \A t \in Thread :
              pc'[t] \in {"stamp", "load", "store", "unreachable"} =>
                pc'[t] = pc[t] /\ cur'[t] = cur[t] /\ reg'[t] = reg[t]

\* Nothing has been sent or counted at the start.
LEMMA TriesInit == Init => TriesInv
  BY DEF Init, TriesInv, CountNotAhead, EnoughTries, Uncounted, Gone, Thread

\* Such a step keeps the counters consistent.
LEMMA CalmStep == ASSUME TypeOK, TypeOK', TriesInv, Calm PROVE TriesInv'
<1>1. EnoughTries'
  BY DEF Calm, TriesInv, EnoughTries
<1>2. ASSUME NEW r \in ReqId
      PROVE  /\ \A t \in Thread : Uncounted(t, r)' <= Uncounted(t, r)
             /\ \A t \in Thread : Uncounted(t, r) \in 0 .. 1
             /\ \A t \in Thread : Uncounted(t, r)' \in 0 .. 1
  BY DEF Calm, Uncounted
<1>3. ASSUME NEW r \in ReqId
      PROVE  /\ req[r].times \in Nat /\ req'[r].times \in Nat
             /\ sends[r] \in Nat /\ sends'[r] = sends[r]
             /\ \A t \in Thread : reg[t] \in Nat /\ reg'[t] \in Nat
  BY DEF TypeOK, Request, Calm
<1>4. CountNotAhead'
  <2>1. SUFFICES ASSUME NEW r \in ReqId
                 PROVE  /\ req'[r].times + (Uncounted("main", r)'
                             + Uncounted("sweeper", r)') <= sends'[r]
                        /\ \A t \in Thread : pc'[t] = "store" /\ cur'[t] = r =>
                              reg'[t] + (Uncounted("main", r)'
                                + Uncounted("sweeper", r)') <= sends'[r]
    BY DEF CountNotAhead
  <2>2. /\ req[r].times + (Uncounted("main", r) + Uncounted("sweeper", r))
              <= sends[r]
        /\ \A t \in Thread : pc[t] = "store" /\ cur[t] = r =>
              reg[t] + (Uncounted("main", r) + Uncounted("sweeper", r))
                <= sends[r]
    BY DEF TriesInv, CountNotAhead
  <2>3. req'[r].times + (Uncounted("main", r)' + Uncounted("sweeper", r)')
           <= sends'[r]
    BY <1>2, <1>3, <2>2 DEF Calm, Thread
  <2>4. ASSUME NEW t \in Thread, pc'[t] = "store", cur'[t] = r
        PROVE  reg'[t] + (Uncounted("main", r)' + Uncounted("sweeper", r)')
                 <= sends'[r]
    <3>1. pc[t] = "store" /\ cur[t] = r /\ reg'[t] = reg[t]
      BY <2>4 DEF Calm
    <3>. QED
      BY <1>2, <1>3, <2>2, <3>1 DEF Thread
  <2>. QED
    BY <2>3, <2>4
<1>. QED
  BY <1>1, <1>4 DEF TriesInv

\* The four statements that move the counters.
LEMMA TriesHandle ==
    ASSUME TypeOK, TypeOK', PointerInv, TriesInv, NEW t \in Thread,
           SendArp(t) \/ Stamp(t) \/ LoadTimes(t) \/ StoreTimes(t)
    PROVE  TriesInv'
<1>0. /\ cur[t] \in ReqId
      /\ \A r \in ReqId : req[r].times \in Nat /\ sends[r] \in Nat
      /\ \A u \in Thread : reg[u] \in Nat
  BY DEF TypeOK, Request, SendArp, Stamp, LoadTimes, StoreTimes, Handling,
         HandlePC
<1>1. /\ \A u \in Thread \ {t} : pc'[u] = pc[u] /\ cur'[u] = cur[u]
                                  /\ reg'[u] = reg[u]
      /\ pc'[t] # "unreachable"
  BY DEF SendArp, Stamp, LoadTimes, StoreTimes, Return, Resume, TypeOK, Thread
<1>2. \A r \in ReqId : sends'[r] \in Nat /\ sends'[r] >= sends[r]
  BY <1>0 DEF SendArp, Stamp, LoadTimes, StoreTimes, TypeOK
<1>3. EnoughTries'
  <2>1. SUFFICES ASSUME NEW u \in Thread, pc'[u] = "unreachable"
                 PROVE  sends'[cur'[u]] >= MAX_TRIES
    BY DEF EnoughTries
  <2>2. /\ u # t /\ pc[u] = "unreachable" /\ cur'[u] = cur[u]
        /\ cur[u] \in ReqId
    BY <1>1, <2>1 DEF TypeOK, Handling, HandlePC
  <2>. QED
    BY <1>0, <1>2, <2>2, TriesAssumption DEF TriesInv, EnoughTries
<1>. DEFINE Pending(r) == Uncounted("main", r) + Uncounted("sweeper", r)
            Told(r) == /\ req[r].times + Pending(r) <= sends[r]
                       /\ \A u \in Thread : pc[u] = "store" /\ cur[u] = r =>
                             reg[u] + Pending(r) <= sends[r]
<1>4. SUFFICES ASSUME NEW r \in ReqId PROVE Told(r)'
  BY <1>3 DEF TriesInv, CountNotAhead
<1>5. Told(r)
  BY DEF TriesInv, CountNotAhead
<1>6. CASE SendArp(t)
  <2>1. /\ req' = req /\ reg' = reg /\ cur' = cur
        /\ pc[t] = "send" /\ pc'[t] = "stamp"
        /\ sends'[r] = IF r = cur[t] THEN sends[r] + 1 ELSE sends[r]
    BY <1>6, <1>0 DEF SendArp, TypeOK
  <2>2. Pending(r)' = IF r = cur[t] THEN Pending(r) + 1 ELSE Pending(r)
    BY <1>1, <2>1 DEF Uncounted, Thread
  <2>3. Pending(r) \in Nat
    BY DEF Uncounted
  <2>4. \A u \in Thread : pc'[u] = "store" => pc[u] = "store"
    BY <1>1, <2>1
  <2>. HIDE DEF Pending
  <2>. QED
    BY <1>0, <1>5, <2>1, <2>2, <2>3, <2>4
<1>7. CASE Stamp(t)
  <2>1. /\ req'[r].times = req[r].times /\ reg' = reg /\ cur' = cur
        /\ sends' = sends /\ pc[t] = "stamp" /\ pc'[t] = "load"
    BY <1>7 DEF Stamp, TypeOK, Request
  <2>2. Pending(r)' = Pending(r)
    BY <1>1, <2>1 DEF Uncounted, Thread
  <2>3. \A u \in Thread : pc'[u] = "store" => pc[u] = "store"
    BY <1>1, <2>1
  <2>. HIDE DEF Pending
  <2>. QED
    BY <1>5, <2>1, <2>2, <2>3
<1>8. CASE LoadTimes(t)
  <2>1. /\ req' = req /\ reg'[t] = req[cur[t]].times /\ cur' = cur
        /\ sends' = sends /\ pc[t] = "load" /\ pc'[t] = "store"
    BY <1>8 DEF LoadTimes, TypeOK
  <2>2. Pending(r)' = Pending(r)
    BY <1>1, <2>1 DEF Uncounted, Thread
  <2>. HIDE DEF Pending
  <2>. QED
    BY <1>1, <1>5, <2>1, <2>2
<1>9. CASE StoreTimes(t)
  <2>1. /\ req'[r].times = IF r = cur[t] THEN reg[t] + 1 ELSE req[r].times
        /\ sends' = sends /\ pc[t] = "store" /\ pc'[t] \in {"idle", "next"}
    BY <1>9, <1>0 DEF StoreTimes, TypeOK, Request, Return, Resume
  <2>2. Pending(r)' = IF r = cur[t] THEN Pending(r) - 1 ELSE Pending(r)
    BY <1>1, <2>1 DEF Uncounted, Thread
  <2>3. Pending(r) \in Nat
    BY DEF Uncounted
  <2>4. \A u \in Thread : pc'[u] = "store" => /\ pc[u] = "store"
                                              /\ cur'[u] = cur[u]
                                              /\ reg'[u] = reg[u]
    BY <1>1, <2>1
  <2>. HIDE DEF Pending
  <2>. QED
    BY <1>0, <1>5, <2>1, <2>2, <2>3, <2>4
<1>. QED
  BY <1>6, <1>7, <1>8, <1>9

\* Giving up is decided by times_sent, which is not ahead of what was sent;
\* every other step is calm.
LEMMA TriesStep ==
    ASSUME TypeOK, TypeOK', PointerInv, TriesInv, [Next]_vars PROVE TriesInv'
<1>0. \A r \in ReqId : req[r] \in Request /\ req[r].times \in Nat
  BY DEF TypeOK, Request
<1>1. ASSUME NEW t \in Thread, CheckTries(t) PROVE TriesInv'
  <2>1. CASE req[cur[t]].times >= MAX_TRIES
    <3>1. /\ cur[t] \in ReqId /\ sends[cur[t]] \in Nat
          /\ req' = req /\ cur' = cur /\ reg' = reg /\ sends' = sends
          /\ pc'[t] = "unreachable" /\ pc[t] = "check_tries"
          /\ \A u \in Thread \ {t} : pc'[u] = pc[u]
      BY <1>1, <2>1 DEF CheckTries, TypeOK, Handling, HandlePC
    <3>2. sends[cur[t]] >= MAX_TRIES
      <4>1. /\ Uncounted("main", cur[t]) \in Nat
            /\ Uncounted("sweeper", cur[t]) \in Nat
        BY DEF Uncounted
      <4>2. req[cur[t]].times + (Uncounted("main", cur[t])
               + Uncounted("sweeper", cur[t])) <= sends[cur[t]]
        BY <3>1 DEF TriesInv, CountNotAhead
      <4>. QED
        BY <1>0, <2>1, <3>1, <4>1, <4>2, TriesAssumption
    <3>3. EnoughTries'
      BY <3>1, <3>2 DEF TriesInv, EnoughTries
    <3>4. \A u \in Thread, r \in ReqId : Uncounted(u, r)' = Uncounted(u, r)
      BY <3>1 DEF Uncounted
    <3>5. CountNotAhead'
      BY <3>1, <3>4 DEF TriesInv, CountNotAhead, Thread
    <3>. QED
      BY <3>3, <3>5 DEF TriesInv
  <2>2. CASE ~(req[cur[t]].times >= MAX_TRIES)
    <3>1. Calm
      BY <1>0, <1>1, <2>2 DEF CheckTries, Calm, TypeOK
    <3>. QED
      BY <3>1, CalmStep
  <2>. QED
    BY <2>1, <2>2
<1>2. ASSUME NEW t \in Thread, CheckAge(t) \/ Unreachable(t) PROVE Calm
  <2>1. CASE CheckAge(t)
    BY <1>0, <2>1 DEF CheckAge, Return, Resume, Calm, TypeOK
  <2>2. CASE Unreachable(t)
    <3>1. req[cur[t]].pkts # <<>>
      BY <2>2 DEF Unreachable, PointerInv, NoDangling, InUse, Handling,
                  HandlePC
    <3>. QED
      BY <1>0, <2>2, <3>1 DEF Unreachable, Calm
  <2>. QED
    BY <1>2, <2>1, <2>2
<1>3. ASSUME NEW r \in ReqId, ForwardQueue(r) PROVE Calm
  <2>1. \A q \in ReqId : req'[q].times <= req[q].times
    <3>0. QueueOn(r)
      BY <1>3 DEF ForwardQueue
    <3>1. CASE RequestsFor(job.ip) # {}
      BY <1>0, <3>0, <3>1, QueueOnOld
    <3>2. CASE RequestsFor(job.ip) = {}
      BY <1>0, <3>0, <3>2 DEF QueueOn, TypeOK
    <3>. QED
      BY <3>1, <3>2
  <2>. QED
    BY <2>1, <1>3 DEF ForwardQueue, Calm, TypeOK
<1>4. CASE ReplyInsert
  <2>1. \A q \in ReqId : req'[q].times <= req[q].times
    BY <1>0, <1>4 DEF ReplyInsert, Gone
  <2>. QED
    BY <2>1, <1>4, CalmStep DEF ReplyInsert, Calm, TypeOK
<1>5. CASE Tick
  <2>1. \A q \in ReqId : req'[q].times <= req[q].times
    BY <1>0, <1>5 DEF Tick, Request
  <2>. QED
    BY <2>1, <1>5, CalmStep DEF Tick, Calm
<1>6. CASE ForwardLookup \/ ReplyLookup
  BY <1>0, <1>6, CalmStep DEF ForwardLookup, ReplyLookup, Calm, TypeOK
<1>7. CASE Sweep
  BY <1>0, <1>7, CalmStep
  DEF Sweep, Wake, SweepNext, SweepDone, Calm, TypeOK
<1>8. ASSUME NEW p \in Packet, NEW ip \in IP, ReceiveIp(p, ip) PROVE Calm
  BY <1>0, <1>8 DEF ReceiveIp, Calm, TypeOK
<1>9. ASSUME NEW ip \in IP, NEW mac \in MAC, ReceiveReply(ip, mac) PROVE Calm
  BY <1>0, <1>9 DEF ReceiveReply, Calm, TypeOK
<1>10. CASE UNCHANGED vars
  BY <1>0, <1>10, CalmStep DEF vars, Calm
<1>. QED
  BY <1>1, <1>2, <1>3, <1>4, <1>5, <1>6, <1>7, <1>8, <1>9, <1>10, CalmStep,
     TriesHandle DEF Next, Work, Handle

\* A host is given up only after MAX_TRIES requests have really been sent,
\* whatever increments of times_sent the two threads lose.
THEOREM TriesSuffice == Spec => []TriesInv
<1>1. TypeOK /\ TypeOK' /\ PointerInv /\ TriesInv /\ [Next]_vars => TriesInv'
  BY TriesStep
<1>2. Spec => []PointerInv
  BY PointersSafe
<1>. QED
  BY <1>1, <1>2, TypeCorrect, TriesInit, PTL DEF Spec

-----------------------------------------------------------------------------
(* The packets.                                                            *)

\* A step that changes the packets of no request, and no fate but for the
\* difference between queued and reported.
ListsStay ==
    /\ \A r \in ReqId : req'[r].st = req[r].st /\ req'[r].pkts = req[r].pkts
    /\ \A p \in Packet : fate'[p] = fate[p] \/
          (fate[p] \in {"queued", "reported"} /\ fate'[p] = "reported")

\* The packet that the main thread holds is the one it held before.
HoldStays == pc'["main"] \in {"fwd_lookup", "fwd_queue"} =>
                pc["main"] \in {"fwd_lookup", "fwd_queue"} /\ job' = job

\* No packet is waiting at the start.
LEMMA PacketInit == Init => PacketAccounting
  BY DEF Init, PacketAccounting, Queue, Gone, Thread

\* Such a step keeps every packet in its list.
LEMMA ListsStayStep ==
    ASSUME TypeOK, PacketAccounting, ListsStay, HoldStays
    PROVE  PacketAccounting'
<1>1. \A p \in Packet : fate'[p] \in {"queued", "reported"}
                           <=> fate[p] \in {"queued", "reported"}
  BY DEF ListsStay
<1>2. /\ Queue' = Queue
      /\ \A r \in ReqId : req'[r].pkts = req[r].pkts
      /\ \A p \in Packet, r \in ReqId : InList(p, r)' <=> InList(p, r)
  BY DEF ListsStay, Queue, InList
<1>3. \A p \in Packet : fate'[p] \in {"queued", "reported"}
                           <=> \E r \in Queue' : InList(p, r)'
  BY <1>1, <1>2 DEF PacketAccounting, Queue
<1>4. \A r, q \in Queue' : \A k \in DOMAIN req'[r].pkts :
         \A l \in DOMAIN req'[q].pkts :
            req'[r].pkts[k] = req'[q].pkts[l] => r = q /\ k = l
  BY <1>2 DEF PacketAccounting, Queue
<1>5. pc'["main"] \in {"fwd_lookup", "fwd_queue"} => fate'[job'.pkt] = "held"
  BY DEF HoldStays, ListsStay, PacketAccounting, TypeOK
<1>. QED
  BY <1>3, <1>4, <1>5 DEF PacketAccounting

\* sr_arpcache_queuereq puts the packet, which is in no list, at the head of
\* the list of one request and moves the others back by one.
LEMMA PacketQueue ==
    ASSUME TypeOK, PacketAccounting, NEW r \in ReqId, ForwardQueue(r)
    PROVE  PacketAccounting'
<1>0. /\ QueueOn(r) /\ job.pkt \in Packet /\ job.ip \in IP
      /\ \A q \in ReqId : req[q] \in Request /\ req[q].pkts \in Seq(Packet)
  BY DEF ForwardQueue, TypeOK, Request
<1>1. \A q \in Queue : ~InList(job.pkt, q)
  BY <1>0 DEF ForwardQueue, PacketAccounting
<1>. DEFINE old == IF r \in Queue THEN req[r].pkts ELSE <<>>
<1>2. /\ req'[r].st = "queued" /\ req'[r].pkts = <<job.pkt>> \o old
      /\ \A q \in ReqId \ {r} : req'[q] = req[q]
  <2>1. CASE RequestsFor(job.ip) # {}
    <3>1. r \in Queue
      BY <1>0, <2>1 DEF QueueOn, RequestsFor
    <3>2. req' = [req EXCEPT ![r] =
                    [req[r] EXCEPT !.pkts = <<job.pkt>> \o @]]
      BY <1>0, <2>1 DEF QueueOn
    <3>. QED
      BY <1>0, <3>1, <3>2 DEF TypeOK, Request, Queue
  <2>2. CASE RequestsFor(job.ip) = {}
    <3>1. req[r].st = "free" /\ r \notin Queue
      BY <1>0, <2>2 DEF QueueOn, Queue
    <3>2. <<job.pkt>> \o <<>> = <<job.pkt>>
      BY <1>0
    <3>. QED
      BY <1>0, <2>2, <3>1, <3>2 DEF QueueOn, TypeOK
  <2>. QED
    BY <2>1, <2>2
<1>3. /\ Queue' = Queue \cup {r}
      /\ old \in Seq(Packet)
      /\ \A q \in ReqId \ {r} : req'[q].pkts = req[q].pkts
  BY <1>0, <1>2 DEF Queue
<1>4. /\ DOMAIN req'[r].pkts = 1 .. Len(old) + 1
      /\ req'[r].pkts[1] = job.pkt
      /\ \A k \in 2 .. Len(old) + 1 :
            /\ k - 1 \in DOMAIN old
            /\ req'[r].pkts[k] = old[k - 1]
      /\ \A k \in DOMAIN old : k + 1 \in DOMAIN req'[r].pkts
                               /\ req'[r].pkts[k + 1] = old[k]
  BY <1>0, <1>2, <1>3
<1>5. \A k \in DOMAIN old : r \in Queue /\ old = req[r].pkts
  BY <1>0
<1>. HIDE DEF old
<1>6. /\ \A p \in Packet \ {job.pkt} : fate'[p] = fate[p]
      /\ fate'[job.pkt] = "queued"
  BY <1>0 DEF ForwardQueue, TypeOK
<1>7. ASSUME NEW p \in Packet
      PROVE  fate'[p] \in {"queued", "reported"}
                <=> \E q \in Queue' : InList(p, q)'
  <2>1. CASE p = job.pkt
    BY <1>3, <1>4, <1>6, <2>1 DEF InList
  <2>2. CASE p # job.pkt
    <3>1. \A q \in Queue \ {r} : InList(p, q)' <=> InList(p, q)
      BY <1>3 DEF InList, Queue
    <3>2. InList(p, r)' <=> r \in Queue /\ InList(p, r)
      <4>1. InList(p, r)' => r \in Queue /\ InList(p, r)
        <5>1. SUFFICES ASSUME NEW k \in DOMAIN req'[r].pkts,
                              req'[r].pkts[k] = p
                       PROVE  r \in Queue /\ InList(p, r)
          BY DEF InList
        <5>2. k \in 2 .. Len(old) + 1
          BY <1>3, <1>4, <2>2, <5>1
        <5>. QED
          BY <1>4, <1>5, <5>1, <5>2 DEF InList
      <4>2. r \in Queue /\ InList(p, r) => InList(p, r)'
        BY <1>4 DEF InList, old
      <4>. QED
        BY <4>1, <4>2
    <3>3. fate[p] \in {"queued", "reported"} <=> \E q \in Queue : InList(p, q)
      BY DEF PacketAccounting
    <3>. QED
      BY <1>3, <1>6, <2>2, <3>1, <3>2, <3>3
  <2>. QED
    BY <2>1, <2>2
<1>8. ASSUME NEW q \in Queue', NEW s \in Queue',
             NEW k \in DOMAIN req'[q].pkts, NEW l \in DOMAIN req'[s].pkts,
             req'[q].pkts[k] = req'[s].pkts[l]
      PROVE  q = s /\ k = l
  <2>. DEFINE Found(x, i, p) == x \in Queue /\ i \in DOMAIN req[x].pkts
                                  /\ req[x].pkts[i] = p
  <2>0. \A x, y \in Queue : \A i, j : \A p :
           Found(x, i, p) /\ Found(y, j, p) => x = y /\ i = j
    BY DEF PacketAccounting
  <2>1. \A p, i : \A x \in Queue : Found(x, i, p) => p # job.pkt
    BY <1>1 DEF InList
  <2>2. \A x \in Queue' : \A i \in DOMAIN req'[x].pkts :
           \/ x # r /\ Found(x, i, req'[x].pkts[i])
           \/ x = r /\ i = 1 /\ req'[x].pkts[i] = job.pkt
           \/ x = r /\ i - 1 \in Int /\ i \in Int
                /\ Found(x, i - 1, req'[x].pkts[i])
    <3>1. ASSUME NEW x \in Queue', NEW i \in DOMAIN req'[x].pkts, x # r
          PROVE  Found(x, i, req'[x].pkts[i])
      BY <1>3, <3>1 DEF Queue
    <3>2. ASSUME NEW i \in DOMAIN req'[r].pkts, i # 1
          PROVE  i - 1 \in Int /\ i \in Int /\ Found(r, i - 1, req'[r].pkts[i])
      <4>1. i \in 2 .. Len(old) + 1
        BY <1>3, <1>4, <3>2
      <4>. QED
        BY <1>4, <1>5, <4>1
    <3>. QED
      BY <1>4, <3>1, <3>2
  <2>3. q \in Queue \cup {r} /\ s \in Queue \cup {r}
    BY <1>3
  <2>. HIDE DEF Found
  <2>4. \A x, i, p : Found(x, i, p) => x \in Queue
    BY DEF Found
  <2>. QED
    BY <1>8, <2>0, <2>1, <2>2, <2>4
<1>9. pc'["main"] \notin {"fwd_lookup", "fwd_queue"}
  BY DEF ForwardQueue, TypeOK, Thread
<1>. QED
  BY <1>7, <1>8, <1>9 DEF PacketAccounting

\* sr_arpcache_insert takes the list of one request away: the fate of each of
\* its packets is settled.
LEMMA PacketInsert ==
    ASSUME TypeOK, PacketAccounting, PointerInv, ReplyInsert
    PROVE  PacketAccounting'
<1>. DEFINE R == RequestsFor(job.ip)
<1>1. /\ Queue' = Queue \ R
      /\ \A q \in Queue' : req'[q] = req[q]
  BY DEF ReplyInsert, Gone, Queue, RequestsFor
<1>2. ASSUME NEW p \in Packet
      PROVE  fate'[p] \in {"queued", "reported"}
                <=> \E q \in Queue' : InList(p, q)'
  <2>1. \A q \in Queue' : InList(p, q)' <=> InList(p, q)
    BY <1>1 DEF InList
  <2>2. CASE \E r \in R : InList(p, r)
    <3>1. fate'[p] \in {"sent", "leaked"}
      BY <2>2 DEF ReplyInsert, InList
    <3>2. \A q \in Queue' : ~InList(p, q)
      BY <1>1, <2>2 DEF PacketAccounting, InList, RequestsFor
    <3>. QED
      BY <2>1, <3>1, <3>2
  <2>3. CASE ~ \E r \in R : InList(p, r)
    <3>1. \A r \in R : p # req[r].pkts[1]
      <4>1. \A r \in R : 1 \in DOMAIN req[r].pkts
        <5>1. \A r \in R : req[r].pkts \in Seq(Packet) /\ req[r].pkts # <<>>
          BY DEF RequestsFor, Queue, PointerInv, WalkInv, TypeOK, Request
        <5>. QED
          BY <5>1
      <4>. QED
        BY <2>3, <4>1 DEF InList
    <3>2. fate'[p] = fate[p]
      BY <2>3, <3>1 DEF ReplyInsert, InList
    <3>. QED
      BY <1>1, <2>1, <2>3, <3>2 DEF PacketAccounting
  <2>. QED
    BY <2>2, <2>3
<1>3. \A r, q \in Queue' : \A k \in DOMAIN req'[r].pkts :
         \A l \in DOMAIN req'[q].pkts :
            req'[r].pkts[k] = req'[q].pkts[l] => r = q /\ k = l
  BY <1>1 DEF PacketAccounting
<1>4. pc'["main"] \notin {"fwd_lookup", "fwd_queue"}
  BY DEF ReplyInsert, TypeOK, Thread
<1>. QED
  BY <1>2, <1>3, <1>4 DEF PacketAccounting

\* handle_arpreq leaves the lists alone: what it reports goes on waiting.
LEMMA PacketHandle ==
    ASSUME TypeOK, PacketAccounting, PointerInv, NEW t \in Thread, Handle(t)
    PROVE  ListsStay /\ HoldStays
<1>0. /\ \A r \in ReqId : req[r] \in Request /\ req[r].pkts \in Seq(Packet)
      /\ cur[t] \in Queue /\ cur[t] \in ReqId /\ req[cur[t]].pkts # <<>>
  BY DEF TypeOK, Request, Handle, CheckAge, CheckTries, SendArp, Stamp,
         LoadTimes, StoreTimes, Unreachable, PointerInv, NoDangling, InUse,
         Handling, HandlePC
<1>1. HoldStays
  BY DEF HoldStays, Handle, CheckAge, CheckTries, SendArp, Stamp, LoadTimes,
         StoreTimes, Unreachable, Return, Resume, TypeOK, Thread
<1>2. CASE Stamp(t) \/ StoreTimes(t)
  <2>1. fate' = fate
    BY <1>2 DEF Stamp, StoreTimes
  <2>2. \A r \in ReqId : req'[r].st = req[r].st /\ req'[r].pkts = req[r].pkts
    <3>1. CASE Stamp(t)
      BY <1>0, <3>1 DEF Stamp, Request, TypeOK
    <3>2. CASE StoreTimes(t)
      BY <1>0, <3>2 DEF StoreTimes, Request, TypeOK
    <3>. QED
      BY <1>2, <3>1, <3>2
  <2>. QED
    BY <1>1, <2>1, <2>2 DEF ListsStay
<1>3. CASE Unreachable(t)
  <2>1. req' = req /\ fate' = [fate EXCEPT ![req[cur[t]].pkts[1]] = "reported"]
    BY <1>0, <1>3 DEF Unreachable
  <2>2. 1 \in DOMAIN req[cur[t]].pkts /\ req[cur[t]].pkts[1] \in Packet
    BY <1>0
  <2>3. fate[req[cur[t]].pkts[1]] \in {"queued", "reported"}
    BY <1>0, <2>2 DEF PacketAccounting, InList
  <2>. QED
    BY <1>1, <2>1, <2>2, <2>3 DEF ListsStay, TypeOK
<1>4. CASE req' = req /\ fate' = fate
  BY <1>1, <1>4 DEF ListsStay
<1>. QED
  BY <1>1, <1>2, <1>3, <1>4 DEF Handle, CheckAge, CheckTries, SendArp,
     LoadTimes

\* Every other step moves at most the packet that the main thread holds.
LEMMA PacketStep ==
    ASSUME TypeOK, PacketAccounting, PointerInv, [Next]_vars
    PROVE  PacketAccounting'
<1>1. ASSUME NEW t \in Thread, Handle(t) PROVE PacketAccounting'
  BY <1>1, PacketHandle, ListsStayStep
<1>2. CASE ReplyInsert
  BY <1>2, PacketInsert
<1>3. ASSUME NEW r \in ReqId, ForwardQueue(r) PROVE PacketAccounting'
  BY <1>3, PacketQueue
<1>4. ASSUME NEW p \in Packet, NEW ip \in IP, ReceiveIp(p, ip)
      PROVE  PacketAccounting'
  <2>1. /\ fate[p] = "new" /\ fate' = [fate EXCEPT ![p] = "held"]
        /\ req' = req /\ job'.pkt = p
    BY <1>4 DEF ReceiveIp, NoJob
  <2>2. \A q \in Packet : fate'[q] \in {"queued", "reported"}
                             <=> fate[q] \in {"queued", "reported"}
    BY <2>1 DEF TypeOK
  <2>. QED
    BY <2>1, <2>2 DEF PacketAccounting, Queue, InList, TypeOK
<1>5. CASE ForwardLookup
  <2>1. CASE Cached(job.ip)
    <3>1. /\ fate[job.pkt] = "held" /\ job.pkt \in Packet
          /\ fate' = [fate EXCEPT ![job.pkt] = "sent"]
          /\ req' = req /\ pc'["main"] = "idle"
      BY <1>5, <2>1 DEF ForwardLookup, PacketAccounting, TypeOK, Thread
    <3>2. \A q \in Packet : fate'[q] \in {"queued", "reported"}
                               <=> fate[q] \in {"queued", "reported"}
      BY <3>1 DEF TypeOK
    <3>. QED
      BY <3>1, <3>2 DEF PacketAccounting, Queue, InList
  <2>2. CASE ~Cached(job.ip)
    <3>1. ListsStay /\ HoldStays
      BY <1>5, <2>2 DEF ForwardLookup, ListsStay, HoldStays
    <3>. QED
      BY <3>1, ListsStayStep
  <2>. QED
    BY <2>1, <2>2
<1>6. CASE ReplyLookup
  <2>1. ListsStay /\ HoldStays
    BY <1>6 DEF ReplyLookup, ListsStay, HoldStays, TypeOK, Thread
  <2>. QED
    BY <2>1, ListsStayStep
<1>7. ASSUME NEW ip \in IP, NEW mac \in MAC, ReceiveReply(ip, mac)
      PROVE  PacketAccounting'
  <2>1. ListsStay /\ HoldStays
    BY <1>7 DEF ReceiveReply, ListsStay, HoldStays, TypeOK, Thread
  <2>. QED
    BY <2>1, ListsStayStep
<1>8. CASE Sweep
  <2>1. ListsStay /\ HoldStays
    BY <1>8 DEF Sweep, Wake, SweepNext, SweepDone, ListsStay, HoldStays,
                TypeOK, Thread
  <2>. QED
    BY <2>1, ListsStayStep
<1>9. CASE Tick
  <2>1. \A r \in ReqId : req[r] \in Request
    BY DEF TypeOK
  <2>2. ListsStay /\ HoldStays
    BY <1>9, <2>1 DEF Tick, ListsStay, HoldStays, Request
  <2>. QED
    BY <2>2, ListsStayStep
<1>10. CASE UNCHANGED vars
  <2>1. ListsStay /\ HoldStays
    BY <1>10 DEF vars, ListsStay, HoldStays
  <2>. QED
    BY <2>1, ListsStayStep
<1>. QED
  BY <1>1, <1>2, <1>3, <1>4, <1>5, <1>6, <1>7, <1>8, <1>9, <1>10
  DEF Next, Work

\* Every packet that waits is in the list of exactly one queued request, once,
\* and no packet that does not wait is in one, whatever the threads do.
THEOREM PacketsAccounted == Spec => []PacketAccounting
<1>1. TypeOK /\ PacketAccounting /\ PointerInv /\ [Next]_vars
         => PacketAccounting'
  BY PacketStep
<1>2. Spec => []PointerInv
  BY PointersSafe
<1>. QED
  BY <1>1, <1>2, TypeCorrect, PacketInit, PTL DEF Spec

-----------------------------------------------------------------------------
(***************************************************************************)
(* ArpCache implements ArpResolver, for every value of the constants: the  *)
(* initial states map to initial states, and every step of the two threads *)
(* and of the clock maps to a step of the resolver or to a stutter.        *)
(***************************************************************************)

\* The state of the resolver, as the refinement mapping has it.
KnownMap == [ip \in IP |-> Known(ip)]
WaitingMap == [ip \in IP |-> Waiting(ip)]

-----------------------------------------------------------------------------
(* What the mapping is, without CHOOSE.                                    *)

\* The slot and the request of an address, if any, decide what the resolver
\* knows of it and what waits for it.
MapsRead ==
    \A ip \in IP :
        /\ \A i \in SlotsFor(ip) : Known(ip) = entries[i].mac
                                   /\ Known(ip) # Null
        /\ SlotsFor(ip) = {} => Known(ip) = Null
        /\ \A r \in RequestsFor(ip) : Waiting(ip) = req[r].pkts
        /\ RequestsFor(ip) = {} => Waiting(ip) = <<>>

\* CHOOSE takes a member of a set that has one.
LEMMA ChooseIn == \A S : S # {} => (CHOOSE x \in S : TRUE) \in S
  OBVIOUS

\* With one slot and one request for each address CHOOSE has no choice.
LEMMA MapsReadHolds == TypeOK /\ CacheInv => MapsRead
<1>1. SUFFICES ASSUME TypeOK, CacheInv, NEW ip \in IP
               PROVE  /\ \A i \in SlotsFor(ip) : Known(ip) = entries[i].mac
                                                 /\ Known(ip) # Null
                      /\ SlotsFor(ip) = {} => Known(ip) = Null
                      /\ \A r \in RequestsFor(ip) : Waiting(ip) = req[r].pkts
                      /\ RequestsFor(ip) = {} => Waiting(ip) = <<>>
  BY DEF MapsRead
<1>2. ASSUME NEW i \in SlotsFor(ip)
      PROVE  Known(ip) = entries[i].mac /\ Known(ip) # Null
  <2>. DEFINE c == CHOOSE j \in SlotsFor(ip) : TRUE
  <2>1. SlotsFor(ip) # {}
    BY <1>2
  <2>2. c \in SlotsFor(ip)
    BY <2>1, ChooseIn, Zenon
  <2>3. Known(ip) = entries[c].mac
    BY <2>1, Zenon DEF Known, Cached
  <2>4. c = i
    BY <1>1, <1>2, <2>2, Zenon DEF CacheInv, OneMappingPerIp
  <2>5. entries[i].mac # Null
    <3>1. entries[i] \in Entry
      BY <1>1, <1>2 DEF SlotsFor, TypeOK
    <3>. QED
      BY <3>1, NullAssumption DEF Entry
  <2>. QED
    BY <2>3, <2>4, <2>5, Zenon
<1>3. SlotsFor(ip) = {} => Known(ip) = Null
  BY Zenon DEF Known, Cached
<1>4. ASSUME NEW r \in RequestsFor(ip) PROVE Waiting(ip) = req[r].pkts
  <2>. DEFINE c == CHOOSE q \in RequestsFor(ip) : TRUE
  <2>1. RequestsFor(ip) # {}
    BY <1>4
  <2>2. c \in RequestsFor(ip)
    BY <2>1, ChooseIn, Zenon
  <2>3. Waiting(ip) = req[c].pkts
    BY <2>1, Zenon DEF Waiting
  <2>4. c = r
    BY <1>1, <1>4, <2>2, Zenon DEF CacheInv, OneRequestPerIp
  <2>. QED
    BY <2>3, <2>4, Zenon
<1>5. RequestsFor(ip) = {} => Waiting(ip) = <<>>
  BY Zenon DEF Waiting
<1>. QED
  BY <1>2, <1>3, <1>4, <1>5

\* The same after a step.
LEMMA MapsReadNext == TypeOK' /\ CacheInv' => MapsRead'
  BY MapsReadHolds, PTL

\* A step that keeps every mapping leaves what the resolver knows alone.
LEMMA KnownStays ==
    ASSUME MapsRead, MapsRead',
           \A i \in Slot : /\ entries'[i] = Null <=> entries[i] = Null
                           /\ entries[i] # Null =>
                                /\ entries'[i].ip = entries[i].ip
                                /\ entries'[i].mac = entries[i].mac
    PROVE  KnownMap' = KnownMap
<1>1. SUFFICES ASSUME NEW ip \in IP PROVE Known(ip)' = Known(ip)
  BY Zenon DEF KnownMap
<1>2. SlotsFor(ip)' = SlotsFor(ip)
  BY DEF SlotsFor
<1>3. \A i \in SlotsFor(ip) : entries'[i].mac = entries[i].mac
  BY DEF SlotsFor
<1>4. CASE SlotsFor(ip) = {}
  BY <1>2, <1>4, Zenon DEF MapsRead
<1>5. ASSUME NEW i \in SlotsFor(ip) PROVE Known(ip)' = Known(ip)
  <2>1. Known(ip) = entries[i].mac
    BY <1>5, Zenon DEF MapsRead
  <2>2. Known(ip)' = entries'[i].mac
    BY <1>2, <1>5, Zenon DEF MapsRead
  <2>. QED
    BY <1>3, <1>5, <2>1, <2>2, Zenon
<1>. QED
  BY <1>4, <1>5, Zenon

\* A step that keeps every list leaves what waits for the resolver alone.
LEMMA WaitingStays ==
    ASSUME MapsRead, MapsRead',
           \A r \in ReqId : /\ req'[r].st = req[r].st
                            /\ req'[r].ip = req[r].ip
                            /\ req'[r].pkts = req[r].pkts
    PROVE  WaitingMap' = WaitingMap
<1>1. SUFFICES ASSUME NEW ip \in IP PROVE Waiting(ip)' = Waiting(ip)
  BY Zenon DEF WaitingMap
<1>2. RequestsFor(ip)' = RequestsFor(ip)
  BY DEF RequestsFor, Queue
<1>3. \A r \in RequestsFor(ip) : req'[r].pkts = req[r].pkts
  BY DEF RequestsFor, Queue
<1>4. CASE RequestsFor(ip) = {}
  BY <1>2, <1>4, Zenon DEF MapsRead
<1>5. ASSUME NEW r \in RequestsFor(ip) PROVE Waiting(ip)' = Waiting(ip)
  <2>1. Waiting(ip) = req[r].pkts
    BY <1>5, Zenon DEF MapsRead
  <2>2. Waiting(ip)' = req'[r].pkts
    BY <1>2, <1>5, Zenon DEF MapsRead
  <2>. QED
    BY <1>3, <1>5, <2>1, <2>2, Zenon
<1>. QED
  BY <1>4, <1>5, Zenon

-----------------------------------------------------------------------------
(* Every request on the list has an address.                               *)

QueuedForIp == \A r \in Queue : req[r].ip \in IP

\* sr_arpcache_queuereq copies the address of the packet; no other step adds
\* a request.
LEMMA QueuedForIpHolds == Spec => []QueuedForIp
<1>1. Init => QueuedForIp
  BY DEF Init, QueuedForIp, Queue, Gone
<1>2. TypeOK /\ QueuedForIp /\ [Next]_vars => QueuedForIp'
  <2>1. SUFFICES ASSUME TypeOK, QueuedForIp, [Next]_vars PROVE QueuedForIp'
    OBVIOUS
  <2>2. ASSUME NEW r \in ReqId, ForwardQueue(r) PROVE QueuedForIp'
    <3>1. QueueOn(r) /\ job.ip \in IP
      BY <2>1, <2>2 DEF ForwardQueue, TypeOK
    <3>2. CASE RequestsFor(job.ip) # {}
      BY <2>1, <3>1, <3>2, QueueOnOld DEF QueuedForIp, Queue
    <3>3. CASE RequestsFor(job.ip) = {}
      BY <2>1, <3>1, <3>3 DEF QueueOn, QueuedForIp, Queue, TypeOK
    <3>. QED
      BY <3>2, <3>3
  <2>3. CASE \A r \in ReqId : ~ForwardQueue(r)
    BY <2>1, <2>3, RequestFrame DEF NoNewRequest, QueuedForIp, Queue
  <2>. QED
    BY <2>2, <2>3
<1>. QED
  BY <1>1, <1>2, TypeCorrect, PTL DEF Spec

-----------------------------------------------------------------------------
(* The steps.                                                              *)

\* The invariants of ArpCache that the refinement rests on.
RefInv == TypeOK /\ CacheInv /\ PointerInv /\ PacketAccounting /\ QueuedForIp

\* An empty cache and an empty list are the resolver's initial state.
LEMMA InitRefines == Init => Resolver!Init
<1>1. SUFFICES ASSUME Init PROVE Resolver!Init
  OBVIOUS
<1>2. MapsRead
  BY <1>1, TypeInit, CacheInit, MapsReadHolds
<1>3. \A ip \in IP : SlotsFor(ip) = {} /\ RequestsFor(ip) = {}
  BY <1>1 DEF Init, SlotsFor, RequestsFor, Queue, Gone
<1>4. \A ip \in IP : Known(ip) = Null /\ Waiting(ip) = <<>>
  BY <1>2, <1>3, Zenon DEF MapsRead
<1>5. fate = [p \in Packet |-> "new"]
  BY <1>1 DEF Init
<1>. QED
  BY <1>4, <1>5, Zenon DEF Resolver!Init

\* A step that keeps the mappings, the lists and the fates is a stutter of the
\* resolver.
LEMMA StutterRefines ==
    ASSUME KnownMap' = KnownMap, WaitingMap' = WaitingMap, fate' = fate
    PROVE  UNCHANGED Resolver!vars
  BY Zenon DEF Resolver!vars, KnownMap, WaitingMap

\* Steps that touch neither the table nor the list.
LEMMA OutsideStays ==
    ASSUME MapsRead, MapsRead', entries' = entries, req' = req
    PROVE  KnownMap' = KnownMap /\ WaitingMap' = WaitingMap
  BY KnownStays, WaitingStays

\* A datagram that arrives is accepted.
LEMMA ReceiveIpRefines ==
    ASSUME MapsRead, MapsRead', NEW p \in Packet, NEW ip \in IP,
           ReceiveIp(p, ip)
    PROVE  Resolver!Accept(p)
<1>1. KnownMap' = KnownMap /\ WaitingMap' = WaitingMap
  BY OutsideStays DEF ReceiveIp
<1>. QED
  BY <1>1, Zenon DEF ReceiveIp, Resolver!Accept, KnownMap, WaitingMap

\* A lookup that hits sends the packet; one that misses is not seen.
LEMMA ForwardLookupRefines ==
    ASSUME RefInv, MapsRead, MapsRead', ForwardLookup
    PROVE  \/ \E p \in Packet, ip \in IP : Resolver!SendNow(p, ip)
           \/ UNCHANGED Resolver!vars
<1>1. KnownMap' = KnownMap /\ WaitingMap' = WaitingMap
  BY OutsideStays DEF ForwardLookup
<1>2. CASE Cached(job.ip)
  <2>1. /\ job.pkt \in Packet /\ job.ip \in IP
        /\ fate[job.pkt] = "held"
        /\ fate' = [fate EXCEPT ![job.pkt] = "sent"]
    BY <1>2 DEF ForwardLookup, RefInv, TypeOK, PacketAccounting
  <2>2. Known(job.ip) # Null
    BY <1>2, <2>1, Zenon DEF MapsRead, Cached
  <2>3. KnownMap[job.ip] # Null
    BY <2>1, <2>2, Zenon DEF KnownMap
  <2>4. Resolver!SendNow(job.pkt, job.ip)
    BY <1>1, <2>1, <2>3, Zenon DEF Resolver!SendNow, KnownMap, WaitingMap
  <2>. QED
    BY <2>1, <2>4, Zenon
<1>3. CASE ~Cached(job.ip)
  BY <1>1, <1>3, StutterRefines DEF ForwardLookup
<1>. QED
  BY <1>2, <1>3

\* sr_arpcache_queuereq puts the packet at the head of what waits.
LEMMA ForwardQueueRefines ==
    ASSUME RefInv, MapsRead, MapsRead', NEW r \in ReqId, ForwardQueue(r),
           NEW p \in Packet, NEW to \in IP, p = job.pkt, to = job.ip
    PROVE  Resolver!Enqueue(p, to)
<1>0. /\ QueueOn(r) /\ fate[p] = "held" /\ fate' = [fate EXCEPT ![p] = "queued"]
      /\ \A q \in ReqId : req[q] \in Request
  BY DEF ForwardQueue, RefInv, TypeOK, PacketAccounting
<1>1. Known(to) = Null
  <2>1. SlotsFor(to) = {}
    BY DEF RefInv, CacheInv, MissStillHolds, ForwardQueue, Cached
  <2>. QED
    BY <2>1, Zenon DEF MapsRead
<1>2. KnownMap' = KnownMap
  BY KnownStays DEF ForwardQueue
<1>3. /\ r \in RequestsFor(to)'
      /\ req'[r].pkts = <<p>> \o Waiting(to)
      /\ \A q \in ReqId \ {r} : req'[q] = req[q]
      /\ \A ip \in IP \ {to} :
            r \notin RequestsFor(ip) /\ r \notin RequestsFor(ip)'
  <2>1. CASE RequestsFor(to) # {}
    <3>1. r \in RequestsFor(to)
      BY <1>0, <2>1 DEF QueueOn
    <3>2. Waiting(to) = req[r].pkts
      BY <3>1, Zenon DEF MapsRead
    <3>3. req' = [req EXCEPT ![r] = [req[r] EXCEPT !.pkts = <<p>> \o @]]
      BY <1>0, <2>1 DEF QueueOn
    <3>4. /\ req'[r].pkts = <<p>> \o req[r].pkts
          /\ req'[r].st = req[r].st /\ req'[r].ip = req[r].ip
          /\ \A q \in ReqId \ {r} : req'[q] = req[q]
      BY <1>0, <3>3 DEF RefInv, TypeOK, Request
    <3>. QED
      BY <3>1, <3>2, <3>4 DEF RequestsFor, Queue
  <2>2. CASE RequestsFor(to) = {}
    <3>1. Waiting(to) = <<>>
      BY <2>2, Zenon DEF MapsRead
    <3>2. /\ req[r].st = "free" /\ req'[r].pkts = <<p>>
          /\ req'[r].st = "queued" /\ req'[r].ip = to
          /\ \A q \in ReqId \ {r} : req'[q] = req[q]
      BY <1>0, <2>2 DEF QueueOn, RefInv, TypeOK
    <3>3. <<p>> \o <<>> = <<p>>
      OBVIOUS
    <3>. QED
      BY <3>1, <3>2, <3>3 DEF RequestsFor, Queue
  <2>. QED
    BY <2>1, <2>2
<1>4. Waiting(to)' = <<p>> \o Waiting(to)
  BY <1>3, Zenon DEF MapsRead
<1>5. ASSUME NEW ip \in IP, ip # to PROVE Waiting(ip)' = Waiting(ip)
  <2>1. RequestsFor(ip)' = RequestsFor(ip)
    <3>1. r \notin RequestsFor(ip) /\ r \notin RequestsFor(ip)'
      BY <1>3, <1>5, Zenon
    <3>2. \A q \in ReqId \ {r} :
             q \in RequestsFor(ip)' <=> q \in RequestsFor(ip)
      BY <1>3 DEF RequestsFor, Queue
    <3>3. RequestsFor(ip) \subseteq ReqId /\ RequestsFor(ip)' \subseteq ReqId
      BY DEF RequestsFor, Queue
    <3>. QED
      BY <3>1, <3>2, <3>3
  <2>2. CASE RequestsFor(ip) = {}
    BY <2>1, <2>2, Zenon DEF MapsRead
  <2>3. ASSUME NEW q \in RequestsFor(ip) PROVE Waiting(ip)' = Waiting(ip)
    <3>1. req'[q] = req[q]
      BY <1>3, <1>5, <2>3 DEF RequestsFor, Queue
    <3>2. Waiting(ip) = req[q].pkts /\ Waiting(ip)' = req'[q].pkts
      BY <2>1, <2>3, Zenon DEF MapsRead
    <3>. QED
      BY <3>1, <3>2, Zenon
  <2>. QED
    BY <2>2, <2>3, Zenon
<1>6. WaitingMap' = [WaitingMap EXCEPT ![to] = <<p>> \o @]
  <2>. DEFINE f == [WaitingMap EXCEPT ![to] = <<p>> \o @]
  <2>1. WaitingMap \in [IP -> {Waiting(ip) : ip \in IP}]
        /\ \A ip \in IP : WaitingMap[ip] = Waiting(ip)
    BY Zenon DEF WaitingMap
  <2>2. f = [ip \in IP |-> IF ip = to THEN <<p>> \o Waiting(to)
                                      ELSE Waiting(ip)]
    BY <2>1
  <2>3. f = [ip \in IP |-> Waiting(ip)']
    BY <1>4, <1>5, <2>2, Zenon
  <2>. QED
    BY <2>3, Zenon DEF WaitingMap
<1>7. KnownMap[to] = Null
  BY <1>1, Zenon DEF KnownMap
<1>. QED
  BY <1>0, <1>2, <1>6, <1>7, Zenon DEF Resolver!Enqueue, KnownMap, WaitingMap

\* sr_arpcache_insert stores the mapping if a slot is free, and ends the wait
\* for the address: the newest packet is sent and the others are lost.
LEMMA ReplyInsertRefines ==
    ASSUME RefInv, MapsRead, MapsRead', ReplyInsert,
           NEW from \in IP, NEW mac \in MAC, from = job.ip, mac = job.mac
    PROVE  Resolver!Resolve(from, mac)
<1>0. SlotsFor(from) = {}
  BY DEF RefInv, CacheInv, MissStillHolds, ReplyInsert, Cached
<1>1. KnownMap[from] = Null
  BY <1>0, Zenon DEF MapsRead, KnownMap
<1>2. ASSUME NEW ip \in IP, ip # from PROVE Known(ip)' = Known(ip)
  <2>1. \A i \in Slot : /\ i \in SlotsFor(ip)' <=> i \in SlotsFor(ip)
                        /\ i \in SlotsFor(ip) => entries'[i] = entries[i]
    <3>1. SUFFICES ASSUME NEW i \in Slot
                   PROVE  /\ i \in SlotsFor(ip)' <=> i \in SlotsFor(ip)
                          /\ i \in SlotsFor(ip) => entries'[i] = entries[i]
      OBVIOUS
    <3>2. CASE FirstInvalid(i)
      BY <1>2, <3>2 DEF ReplyInsert, SlotsFor, FirstInvalid
    <3>3. CASE ~FirstInvalid(i)
      BY <3>3 DEF ReplyInsert, SlotsFor
    <3>. QED
      BY <3>2, <3>3
  <2>2. SlotsFor(ip)' = SlotsFor(ip)
    BY <2>1 DEF SlotsFor
  <2>3. CASE SlotsFor(ip) = {}
    BY <2>2, <2>3, Zenon DEF MapsRead
  <2>4. ASSUME NEW i \in SlotsFor(ip) PROVE Known(ip)' = Known(ip)
    <3>1. entries'[i] = entries[i]
      BY <2>1, <2>4 DEF SlotsFor
    <3>2. Known(ip) = entries[i].mac /\ Known(ip)' = entries'[i].mac
      BY <2>2, <2>4, Zenon DEF MapsRead
    <3>. QED
      BY <3>1, <3>2, Zenon
  <2>. QED
    BY <2>3, <2>4, Zenon
<1>3. Known(from)' \in {mac, Known(from)}
  <2>1. CASE SlotsFor(from)' = {}
    BY <1>0, <2>1, Zenon DEF MapsRead
  <2>2. ASSUME NEW i \in SlotsFor(from)' PROVE Known(from)' = mac
    <3>1. i \in Slot /\ entries'[i] # Null /\ entries'[i].ip = from
      BY <2>2 DEF SlotsFor
    <3>2. FirstInvalid(i)
      BY <1>0, <3>1 DEF ReplyInsert, SlotsFor
    <3>3. entries'[i] = [ip |-> from, mac |-> mac, age |-> 0]
      BY <3>1, <3>2 DEF ReplyInsert
    <3>4. Known(from)' = entries'[i].mac
      BY <2>2, Zenon DEF MapsRead
    <3>. QED
      BY <3>3, <3>4
  <2>. QED
    BY <2>1, <2>2, Zenon
<1>4. KnownMap' \in {[KnownMap EXCEPT ![from] = mac], KnownMap}
  <2>1. KnownMap \in [IP -> {Known(ip) : ip \in IP}]
        /\ \A ip \in IP : KnownMap[ip] = Known(ip)
    BY Zenon DEF KnownMap
  <2>2. [KnownMap EXCEPT ![from] = mac]
          = [ip \in IP |-> IF ip = from THEN mac ELSE Known(ip)]
    BY <2>1
  <2>3. CASE Known(from)' = Known(from)
    <3>1. \A ip \in IP : Known(ip)' = Known(ip)
      BY <1>2, <2>3, Zenon
    <3>. QED
      BY <3>1, Zenon DEF KnownMap
  <2>4. CASE Known(from)' = mac
    <3>1. \A ip \in IP : Known(ip)' = IF ip = from THEN mac ELSE Known(ip)
      BY <1>2, <2>4, Zenon
    <3>2. KnownMap' = [ip \in IP |-> IF ip = from THEN mac ELSE Known(ip)]
      BY <3>1, Zenon DEF KnownMap
    <3>. QED
      BY <2>2, <3>2, Zenon
  <2>. QED
    BY <1>3, <2>3, <2>4, Zenon
<1>5. \A r \in ReqId : IF r \in RequestsFor(from)
                         THEN req'[r] = Gone("leaked") ELSE req'[r] = req[r]
  BY DEF ReplyInsert
<1>6. Waiting(from)' = <<>>
  <2>1. RequestsFor(from)' = {}
    BY <1>5 DEF RequestsFor, Queue, Gone
  <2>. QED
    BY <2>1, Zenon DEF MapsRead
<1>7. ASSUME NEW ip \in IP, ip # from PROVE Waiting(ip)' = Waiting(ip)
  <2>1. \A r \in ReqId : /\ r \in RequestsFor(ip)' <=> r \in RequestsFor(ip)
                         /\ r \in RequestsFor(ip) => req'[r] = req[r]
    BY <1>5, <1>7 DEF RequestsFor, Queue, Gone
  <2>2. RequestsFor(ip)' = RequestsFor(ip)
    BY <2>1 DEF RequestsFor, Queue
  <2>3. CASE RequestsFor(ip) = {}
    BY <2>2, <2>3, Zenon DEF MapsRead
  <2>4. ASSUME NEW q \in RequestsFor(ip) PROVE Waiting(ip)' = Waiting(ip)
    <3>1. req'[q] = req[q]
      BY <2>1, <2>4 DEF RequestsFor, Queue
    <3>2. Waiting(ip) = req[q].pkts /\ Waiting(ip)' = req'[q].pkts
      BY <2>2, <2>4, Zenon DEF MapsRead
    <3>. QED
      BY <3>1, <3>2, Zenon
  <2>. QED
    BY <2>3, <2>4, Zenon
<1>8. WaitingMap' = [WaitingMap EXCEPT ![from] = <<>>]
  <2>1. WaitingMap \in [IP -> {Waiting(ip) : ip \in IP}]
        /\ \A ip \in IP : WaitingMap[ip] = Waiting(ip)
    BY Zenon DEF WaitingMap
  <2>2. [WaitingMap EXCEPT ![from] = <<>>]
          = [ip \in IP |-> IF ip = from THEN <<>> ELSE Waiting(ip)]
    BY <2>1
  <2>3. \A ip \in IP : Waiting(ip)' = IF ip = from THEN <<>> ELSE Waiting(ip)
    BY <1>6, <1>7, Zenon
  <2>4. WaitingMap' = [ip \in IP |-> IF ip = from THEN <<>> ELSE Waiting(ip)]
    BY <2>3, Zenon DEF WaitingMap
  <2>. QED
    BY <2>2, <2>4, Zenon
<1>. DEFINE w == WaitingMap[from]
            Waits(p) == \E k \in DOMAIN w : w[k] = p
<1>9. fate' = [p \in Packet |-> IF ~Waits(p) THEN fate[p]
                                ELSE IF p = w[1] THEN "sent" ELSE "leaked"]
  <2>0. w = Waiting(from)
    BY Zenon DEF WaitingMap
  <2>1. CASE RequestsFor(from) = {}
    <3>1. w = <<>>
      BY <2>0, <2>1, Zenon DEF MapsRead
    <3>2. DOMAIN w = {}
      BY <3>1
    <3>3. \A p \in Packet : ~Waits(p)
      BY <3>2, Zenon
    <3>. HIDE DEF w, Waits
    <3>4. fate' = [p \in Packet |-> fate[p]]
      BY <2>1 DEF ReplyInsert
    <3>. QED
      BY <3>3, <3>4, Zenon
  <2>2. ASSUME NEW r \in RequestsFor(from)
        PROVE  fate' = [p \in Packet |-> IF ~Waits(p) THEN fate[p]
                          ELSE IF p = w[1] THEN "sent" ELSE "leaked"]
    <3>1. w = req[r].pkts
      BY <2>0, <2>2, Zenon DEF MapsRead
    <3>2. \A q \in RequestsFor(from) : q = r
      BY <2>2, Zenon DEF RefInv, CacheInv, OneRequestPerIp
    <3>3. 1 \in DOMAIN req[r].pkts
      <4>1. req[r].pkts \in Seq(Packet) /\ req[r].pkts # <<>>
        BY <2>2 DEF RefInv, PointerInv, WalkInv, RequestsFor, Queue, TypeOK,
                    Request
      <4>. QED
        BY <4>1
    <3>. HIDE DEF w
    <3>4. \A p \in Packet :
             /\ p = w[1] => Waits(p)
             /\ (\E q \in RequestsFor(from) : p = req[q].pkts[1]) <=> p = w[1]
             /\ (\E q \in RequestsFor(from) :
                    \E k \in DOMAIN req[q].pkts : p = req[q].pkts[k])
                  <=> Waits(p)
      BY <2>2, <3>1, <3>2, <3>3, Zenon
    <3>5. fate' = [p \in Packet |->
                     IF \E q \in RequestsFor(from) : p = req[q].pkts[1]
                       THEN "sent"
                     ELSE IF \E q \in RequestsFor(from) :
                                \E k \in DOMAIN req[q].pkts : p = req[q].pkts[k]
                       THEN "leaked"
                     ELSE fate[p]]
      BY DEF ReplyInsert
    <3>. HIDE DEF Waits
    <3>6. \A p \in Packet :
             (IF \E q \in RequestsFor(from) : p = req[q].pkts[1]
                THEN "sent"
              ELSE IF \E q \in RequestsFor(from) :
                         \E k \in DOMAIN req[q].pkts : p = req[q].pkts[k]
                THEN "leaked"
              ELSE fate[p])
             = (IF ~Waits(p) THEN fate[p]
                ELSE IF p = w[1] THEN "sent" ELSE "leaked")
      BY <3>4, Zenon
    <3>. QED
      BY <3>5, <3>6, Zenon
  <2>. QED
    BY <2>1, <2>2, Zenon
<1>. HIDE DEF w
<1>. QED
  BY <1>1, <1>4, <1>8, <1>9, Zenon
  DEF Resolver!Resolve, Resolver!Waits, KnownMap, WaitingMap, w

\* Expiry forgets mappings and nothing else.
LEMMA WakeRefines ==
    ASSUME MapsRead, MapsRead', Wake
    PROVE  \E S \in SUBSET IP : Resolver!Expire(S)
<1>. DEFINE S == {ip \in IP : Known(ip)' = Null}
<1>1. ASSUME NEW ip \in IP PROVE Known(ip)' = IF ip \in S THEN Null ELSE Known(ip)
  <2>1. CASE ip \in S
    BY <2>1, Zenon
  <2>2. CASE ip \notin S
    <3>1. SlotsFor(ip)' # {}
      BY <2>2, Zenon DEF MapsRead
    <3>2. PICK i \in SlotsFor(ip)' : TRUE
      BY <3>1, Zenon
    <3>3. i \in SlotsFor(ip) /\ entries'[i] = entries[i]
      BY <3>2 DEF Wake, SlotsFor
    <3>4. Known(ip) = entries[i].mac /\ Known(ip)' = entries'[i].mac
      BY <3>2, <3>3, Zenon DEF MapsRead
    <3>. QED
      BY <2>2, <3>3, <3>4, Zenon
  <2>. QED
    BY <2>1, <2>2
<1>2. WaitingMap' = WaitingMap
  BY WaitingStays DEF Wake
<1>3. S \in SUBSET IP
  OBVIOUS
<1>. HIDE DEF S
<1>4. \A ip \in IP : KnownMap[ip] = Known(ip)
  BY Zenon DEF KnownMap
<1>5. KnownMap' = [ip \in IP |-> IF ip \in S THEN Null ELSE KnownMap[ip]]
  <2>1. KnownMap' = [ip \in IP |-> Known(ip)']
    BY Zenon DEF KnownMap
  <2>2. \A ip \in IP : Known(ip)' = IF ip \in S THEN Null ELSE KnownMap[ip]
    BY <1>1, <1>4, Zenon
  <2>. QED
    BY <2>1, <2>2, Zenon
<1>6. fate' = fate
  BY DEF Wake
<1>7. Resolver!Expire(S)
  BY <1>2, <1>5, <1>6, Zenon DEF Resolver!Expire, KnownMap, WaitingMap
<1>. QED
  BY <1>3, <1>7, Zenon

\* handle_arpreq is not seen by the resolver, except that it reports the
\* newest packet of a request, which goes on waiting.
LEMMA HandleRefines ==
    ASSUME RefInv, MapsRead, MapsRead', NEW t \in Thread, Handle(t)
    PROVE  (\E ip \in IP : Resolver!GiveUp(ip)) \/ UNCHANGED Resolver!vars
<1>0. /\ \A r \in ReqId : req[r] \in Request /\ req[r].pkts \in Seq(Packet)
      /\ cur[t] \in Queue /\ cur[t] \in ReqId /\ req[cur[t]].pkts # <<>>
      /\ entries' = entries
  BY DEF RefInv, TypeOK, Request, Handle, CheckAge, CheckTries, SendArp,
         Stamp, LoadTimes, StoreTimes, Unreachable, PointerInv, NoDangling,
         InUse, Handling, HandlePC
<1>1. KnownMap' = KnownMap
  BY <1>0, KnownStays
<1>2. \A r \in ReqId : /\ req'[r].st = req[r].st
                       /\ req'[r].ip = req[r].ip
                       /\ req'[r].pkts = req[r].pkts
  <2>1. CASE Stamp(t)
    BY <1>0, <2>1 DEF Stamp, RefInv, TypeOK, Request
  <2>2. CASE StoreTimes(t)
    BY <1>0, <2>2 DEF StoreTimes, RefInv, TypeOK, Request
  <2>3. CASE req' = req
    BY <2>3
  <2>4. CASE Unreachable(t)
    BY <1>0, <2>3, <2>4 DEF Unreachable
  <2>. QED
    BY <2>1, <2>2, <2>3, <2>4 DEF Handle, CheckAge, CheckTries, SendArp,
       LoadTimes
<1>3. WaitingMap' = WaitingMap
  BY <1>2, WaitingStays
<1>4. CASE Unreachable(t)
  <2>1. fate' = [fate EXCEPT ![req[cur[t]].pkts[1]] = "reported"]
    BY <1>0, <1>4 DEF Unreachable
  <2>2. PICK ip \in IP : ip = req[cur[t]].ip
    BY <1>0 DEF RefInv, QueuedForIp
  <2>3. cur[t] \in RequestsFor(ip)
    BY <1>0, <2>2 DEF RequestsFor
  <2>4. WaitingMap[ip] = req[cur[t]].pkts
    BY <2>3, Zenon DEF MapsRead, WaitingMap
  <2>5. Resolver!GiveUp(ip)
    BY <1>0, <1>1, <1>3, <2>1, <2>4, Zenon
    DEF Resolver!GiveUp, KnownMap, WaitingMap
  <2>. QED
    BY <2>5, Zenon
<1>5. CASE fate' = fate
  BY <1>1, <1>3, <1>5, StutterRefines
<1>. QED
  BY <1>4, <1>5 DEF Handle, CheckAge, CheckTries, SendArp, Stamp, LoadTimes,
     StoreTimes

\* Every step is a step of the resolver or a stutter.
LEMMA StepRefines ==
    RefInv /\ RefInv' /\ [Next]_vars => [Resolver!Next]_(Resolver!vars)
<1>1. SUFFICES ASSUME RefInv, RefInv', [Next]_vars
               PROVE  Resolver!Next \/ UNCHANGED Resolver!vars
  OBVIOUS
<1>2. MapsRead /\ MapsRead'
  BY <1>1, MapsReadHolds, MapsReadNext DEF RefInv
<1>3. ASSUME NEW p \in Packet, NEW ip \in IP, ReceiveIp(p, ip)
      PROVE  Resolver!Next
  BY <1>2, <1>3, ReceiveIpRefines DEF Resolver!Next
<1>4. CASE ForwardLookup
  BY <1>1, <1>2, <1>4, ForwardLookupRefines, Zenon DEF Resolver!Next
<1>5. ASSUME NEW r \in ReqId, ForwardQueue(r) PROVE Resolver!Next
  <2>1. job.pkt \in Packet /\ job.ip \in IP
    BY <1>1, <1>5 DEF ForwardQueue, RefInv, TypeOK
  <2>2. Resolver!Enqueue(job.pkt, job.ip)
    BY <1>1, <1>2, <1>5, <2>1, ForwardQueueRefines
  <2>. QED
    BY <2>1, <2>2, Zenon DEF Resolver!Next
<1>6. CASE ReplyInsert
  <2>1. job.ip \in IP /\ job.mac \in MAC
    BY <1>1, <1>6 DEF ReplyInsert, RefInv, TypeOK
  <2>2. Resolver!Resolve(job.ip, job.mac)
    BY <1>1, <1>2, <1>6, <2>1, ReplyInsertRefines
  <2>. QED
    BY <2>1, <2>2, Zenon DEF Resolver!Next
<1>7. CASE Wake
  BY <1>2, <1>7, WakeRefines, Zenon DEF Resolver!Next
<1>8. ASSUME NEW t \in Thread, Handle(t)
      PROVE  Resolver!Next \/ UNCHANGED Resolver!vars
  BY <1>1, <1>2, <1>8, HandleRefines, Zenon DEF Resolver!Next
<1>9. CASE UNCHANGED <<entries, req, fate>>
  BY <1>2, <1>9, OutsideStays, StutterRefines
<1>10. CASE Tick
  <2>1. \A i \in Slot : /\ entries'[i] = Null <=> entries[i] = Null
                        /\ entries[i] # Null =>
                             /\ entries'[i].ip = entries[i].ip
                             /\ entries'[i].mac = entries[i].mac
    <3>1. SUFFICES ASSUME NEW i \in Slot
                   PROVE  /\ entries'[i] = Null <=> entries[i] = Null
                          /\ entries[i] # Null =>
                               /\ entries'[i].ip = entries[i].ip
                               /\ entries'[i].mac = entries[i].mac
      OBVIOUS
    <3>2. CASE entries[i] = Null \/ entries[i].age > SR_ARPCACHE_TO
      BY <1>10, <3>2 DEF Tick
    <3>3. CASE ~(entries[i] = Null \/ entries[i].age > SR_ARPCACHE_TO)
      <4>1. entries[i] \in Entry
        BY <1>1, <3>3 DEF RefInv, TypeOK
      <4>2. entries'[i] = [entries[i] EXCEPT !.age = @ + 1]
        BY <1>10, <3>3 DEF Tick
      <4>3. entries'[i] # Null
        <5>1. [entries[i] EXCEPT !.age = @ + 1] \in Entry
          BY <3>3, <4>1, TimeoutAssumption DEF Entry
        <5>. QED
          BY <4>2, <5>1, EntryAssumption
      <4>. QED
        BY <3>3, <4>1, <4>2, <4>3 DEF Entry
    <3>. QED
      BY <3>2, <3>3
  <2>2. KnownMap' = KnownMap
    BY <1>2, <2>1, KnownStays
  <2>3. \A r \in ReqId : req[r] \in Request
    BY <1>1 DEF RefInv, TypeOK
  <2>4. WaitingMap' = WaitingMap
    BY <1>2, <1>10, <2>3, WaitingStays DEF Tick, Request
  <2>. QED
    BY <1>10, <2>2, <2>4, StutterRefines DEF Tick
<1>11. CASE ReplyLookup \/ SweepDone \/ UNCHANGED vars
            \/ (\E r \in ReqId : SweepNext(r))
            \/ (\E ip \in IP, mac \in MAC : ReceiveReply(ip, mac))
  BY <1>9, <1>11 DEF ReplyLookup, SweepDone, SweepNext, ReceiveReply, vars
<1>. QED
  BY <1>1, <1>3, <1>4, <1>5, <1>6, <1>7, <1>8, <1>10, <1>11
  DEF Next, Work, Sweep

\* The cache with its two threads, its mutex and its request objects
\* implements the abstract resolver: a packet is sent, queued, lost or
\* reported only as the resolver allows, and a mapping appears only through a
\* reply and disappears only through expiry.
THEOREM ResolverImplemented == Spec => ImplementsResolver
<1>1. Spec => []RefInv
  BY TypeCorrect, CacheConsistent, PointersSafe, PacketsAccounted,
     QueuedForIpHolds, PTL DEF RefInv
<1>. QED
  BY <1>1, InitRefines, StepRefines, PTL
  DEF Spec, ImplementsResolver, Resolver!Spec

=============================================================================
