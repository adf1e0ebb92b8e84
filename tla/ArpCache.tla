------------------------------ MODULE ArpCache ------------------------------
(***************************************************************************)
(* The ARP cache and ARP request queue of the simple router                *)
(* (router/sr_arpcache.c) with the two threads that use them:              *)
(*                                                                         *)
(*   "main"     the packet loop: forward_ip_packet and deal_arp            *)
(*              (router/sr_router.c) call lookup, queuereq, insert and,    *)
(*              without holding the mutex, handle_arpreq;                  *)
(*   "sweeper"  sr_arpcache_timeout: once a second it takes the mutex,     *)
(*              expires entries, runs handle_arpreq on every queued        *)
(*              request and releases the mutex.                            *)
(*                                                                         *)
(* The mutex is held by the sweeper exactly while it is not asleep.  Each  *)
(* critical section of the main thread touches only mutex-protected state  *)
(* and is one atomic step that waits for the mutex.  handle_arpreq runs    *)
(* unprotected in the main thread, so it is cut at every access to the     *)
(* fields sent and times_sent that the sweeper also writes.                *)
(*                                                                         *)
(* Clock values are only ever compared with the current time, so each      *)
(* time_t is represented by its age in seconds, saturated just above the   *)
(* largest bound the code compares it with.  The request list is the set   *)
(* of requests with st = "queued": the mutex is held through a sweep, so   *)
(* its order decides nothing but the order of the frames sent.             *)
(***************************************************************************)
EXTENDS Integers, Sequences

CONSTANTS
    IP,               \* addresses that are looked up
    MAC,              \* Ethernet addresses carried by ARP replies
    Packet,           \* datagrams to forward; each arrives at most once
    ReqId,            \* struct sr_arpreq objects that calloc can return
    SR_ARPCACHE_SZ,   \* slots of the cache (100 in the code)
    SR_ARPCACHE_TO,   \* seconds before an entry expires (15 in the code)
    MAX_TRIES,        \* ARP requests before giving up (5 in the code)
    Null

ASSUME SizeAssumption == SR_ARPCACHE_SZ \in Nat
ASSUME TimeoutAssumption == SR_ARPCACHE_TO \in Nat
ASSUME TriesAssumption == MAX_TRIES \in Nat \ {0}
ASSUME NullAssumption == Null \notin IP \cup MAC \cup Packet \cup ReqId

VARIABLES
    entries,   \* cache->entries: Null for a slot with valid = 0
    req,       \* the struct sr_arpreq objects
    pc,        \* where each thread is
    cur,       \* the request handle_arpreq works on (the sweeper's walker)
    stale,     \* age of the local variable now of handle_arpreq
    reg,       \* times_sent as loaded by times_sent++
    todo,      \* requests the sweeper has not visited in this sweep
    nap,       \* seconds the sweeper has slept, saturated at 1
    job,       \* the frame the main thread is working on
    sends,     \* history: ARP requests sent for each request
    fate       \* history: what became of each packet

vars == <<entries, req, pc, cur, stale, reg, todo, nap, job, sends, fate>>

Thread == {"main", "sweeper"}
Slot == 0 .. SR_ARPCACHE_SZ - 1
Entry == [ip : IP, mac : MAC, age : 0 .. SR_ARPCACHE_TO + 1]

\* A valid slot is told from an invalid one.
ASSUME EntryAssumption == Null \notin Entry

\* "free": not allocated yet.  "queued": on cache->requests.  "leaked": taken
\* off the list by sr_arpcache_insert and never freed.  "freed": destroyed.
Request == [st : {"free", "queued", "leaked", "freed"}, ip : IP \cup {Null},
            age : 0 .. 1, times : Nat, pkts : Seq(Packet)]
Gone(st) == [st |-> st, ip |-> Null, age |-> 1, times |-> 0, pkts |-> <<>>]

HandlePC == {"check_age", "check_tries", "send", "stamp", "load", "store",
             "unreachable"}
MainPC == {"idle", "fwd_lookup", "fwd_queue", "rep_lookup", "rep_insert"}
SweepPC == {"sleep", "next"}
NoJob == [ip |-> Null, pkt |-> Null, mac |-> Null]

Locked == pc["sweeper"] # "sleep"
Queue == {r \in ReqId : req[r].st = "queued"}
RequestsFor(ip) == {r \in Queue : req[r].ip = ip}
SlotsFor(ip) == {i \in Slot : entries[i] # Null /\ entries[i].ip = ip}
Cached(ip) == SlotsFor(ip) # {}
FirstInvalid(i) == /\ entries[i] = Null
                   /\ \A j \in Slot : j < i => entries[j] # Null

Init ==
    /\ entries = [i \in Slot |-> Null]
    /\ req = [r \in ReqId |-> Gone("free")]
    /\ pc = [t \in Thread |-> IF t = "main" THEN "idle" ELSE "sleep"]
    /\ cur = [t \in Thread |-> Null]
    /\ stale = [t \in Thread |-> 0]
    /\ reg = [t \in Thread |-> 0]
    /\ todo = {}
    /\ nap = 0
    /\ job = NoJob
    /\ sends = [r \in ReqId |-> 0]
    /\ fate = [p \in Packet |-> "new"]

-----------------------------------------------------------------------------
(* The main thread: forwarding a datagram.                                 *)

\* forward_ip_packet has decided to send datagram p to address ip.
ReceiveIp(p, ip) ==
    /\ pc["main"] = "idle"
    /\ fate[p] = "new"
    /\ pc' = [pc EXCEPT !["main"] = "fwd_lookup"]
    /\ job' = [NoJob EXCEPT !.ip = ip, !.pkt = p]
    /\ fate' = [fate EXCEPT ![p] = "held"]
    /\ UNCHANGED <<entries, req, cur, stale, reg, todo, nap, sends>>

\* sr_arpcache_lookup, and the send when the mapping is cached.
ForwardLookup ==
    /\ pc["main"] = "fwd_lookup"
    /\ ~Locked
    /\ IF Cached(job.ip)
         THEN /\ fate' = [fate EXCEPT ![job.pkt] = "sent"]
              /\ pc' = [pc EXCEPT !["main"] = "idle"]
              /\ job' = NoJob
         ELSE /\ pc' = [pc EXCEPT !["main"] = "fwd_queue"]
              /\ UNCHANGED <<fate, job>>
    /\ UNCHANGED <<entries, req, cur, stale, reg, todo, nap, sends>>

QueueOnOverwrite(r) ==
    IF RequestsFor(job.ip) # {}
      THEN /\ r \in RequestsFor(job.ip)
           /\ req' = [req EXCEPT ![r].pkts = <<job.pkt>>]
      ELSE /\ req[r].st = "free"
           /\ req' = [req EXCEPT ![r] = [st |-> "queued", ip |-> job.ip,
                                         age |-> 1, times |-> 0,
                                         pkts |-> <<job.pkt>>]]

\* sr_arpcache_queuereq: the packet joins the request for its address, which
\* is allocated when there is none; the newest packet is at the head.
QueueOn(r) ==
    IF RequestsFor(job.ip) # {}
      THEN /\ r \in RequestsFor(job.ip)
           /\ req' = [req EXCEPT ![r].pkts = <<job.pkt>> \o @]
      ELSE /\ req[r].st = "free"
           /\ req' = [req EXCEPT ![r] = [st |-> "queued", ip |-> job.ip,
                                         age |-> 1, times |-> 0,
                                         pkts |-> <<job.pkt>>]]

ForwardQueue(r) ==
    /\ pc["main"] = "fwd_queue"
    /\ ~Locked
    /\ QueueOn(r)
    /\ fate' = [fate EXCEPT ![job.pkt] = "queued"]
    /\ pc' = [pc EXCEPT !["main"] = "check_age"]
    /\ cur' = [cur EXCEPT !["main"] = r]
    /\ job' = NoJob
    /\ UNCHANGED <<entries, stale, reg, todo, nap, sends>>

-----------------------------------------------------------------------------
(* The main thread: an ARP reply.                                          *)

ReceiveReply(ip, mac) ==
    /\ pc["main"] = "idle"
    /\ pc' = [pc EXCEPT !["main"] = "rep_lookup"]
    /\ job' = [NoJob EXCEPT !.ip = ip, !.mac = mac]
    /\ UNCHANGED <<entries, req, cur, stale, reg, todo, nap, sends, fate>>

ReplyLookupUnchecked ==
    /\ pc["main"] = "rep_lookup"
    /\ ~Locked
    /\ pc' = [pc EXCEPT !["main"] = "rep_insert"]
    /\ UNCHANGED <<entries, req, cur, stale, reg, todo, nap, job, sends, fate>>

\* deal_arp inserts only what is not cached: a mapping is never refreshed.
ReplyLookup ==
    /\ pc["main"] = "rep_lookup"
    /\ ~Locked
    /\ IF Cached(job.ip)
         THEN /\ pc' = [pc EXCEPT !["main"] = "idle"]
              /\ job' = NoJob
         ELSE /\ pc' = [pc EXCEPT !["main"] = "rep_insert"]
              /\ UNCHANGED job
    /\ UNCHANGED <<entries, req, cur, stale, reg, todo, nap, sends, fate>>

ReplyInsertKeeping ==
    /\ pc["main"] = "rep_insert"
    /\ ~Locked
    /\ entries' = [i \in Slot |->
                     IF FirstInvalid(i)
                       THEN [ip |-> job.ip, mac |-> job.mac, age |-> 0]
                       ELSE entries[i]]
    /\ fate' = [p \in Packet |->
                  IF \E r \in RequestsFor(job.ip) : p = req[r].pkts[1]
                    THEN "sent" ELSE fate[p]]
    /\ pc' = [pc EXCEPT !["main"] = "idle"]
    /\ job' = NoJob
    /\ UNCHANGED <<req, cur, stale, reg, todo, nap, sends>>

\* sr_arpcache_insert, then deal_arp sends the head of the packet list.  The
\* request has left the list and is never freed; the packets behind the head
\* are never sent.
ReplyInsert ==
    /\ pc["main"] = "rep_insert"
    /\ ~Locked
    /\ entries' = [i \in Slot |->
                     IF FirstInvalid(i)
                       THEN [ip |-> job.ip, mac |-> job.mac, age |-> 0]
                       ELSE entries[i]]
    /\ req' = [r \in ReqId |-> IF r \in RequestsFor(job.ip)
                                 THEN Gone("leaked") ELSE req[r]]
    /\ fate' = [p \in Packet |->
                  IF \E r \in RequestsFor(job.ip) : p = req[r].pkts[1]
                    THEN "sent"
                  ELSE IF \E r \in RequestsFor(job.ip) :
                             \E k \in DOMAIN req[r].pkts : p = req[r].pkts[k]
                    THEN "leaked"
                  ELSE fate[p]]
    /\ pc' = [pc EXCEPT !["main"] = "idle"]
    /\ job' = NoJob
    /\ UNCHANGED <<cur, stale, reg, todo, nap, sends>>

-----------------------------------------------------------------------------
(* handle_arpreq(cur[t]), run by either thread.                            *)

\* The caller's continuation: main returns to its loop, the sweeper reads
\* walker->next.
Resume(t) == IF t = "main" THEN "idle" ELSE "next"

\* Returning leaves main without a pointer to the request; the sweeper keeps
\* its walker for the read of walker->next.
Return(t) ==
    /\ pc' = [pc EXCEPT ![t] = Resume(t)]
    /\ cur' = IF t = "main" THEN [cur EXCEPT ![t] = Null] ELSE cur

\* if (difftime(time(&now), arpreq->sent) >= 1.0): reading the clock and
\* reading sent is one step, so a second that ends between the two is taken
\* to have ended before or after both.
CheckAge(t) ==
    /\ pc[t] = "check_age"
    /\ IF req[cur[t]].age >= 1
         THEN /\ pc' = [pc EXCEPT ![t] = "check_tries"]
              /\ UNCHANGED cur
         ELSE Return(t)
    /\ UNCHANGED <<entries, req, stale, reg, todo, nap, job, sends, fate>>

CheckTriesEarly(t) ==
    /\ pc[t] = "check_tries"
    /\ IF req[cur[t]].times + 1 >= MAX_TRIES
         THEN /\ pc' = [pc EXCEPT ![t] = "unreachable"]
              /\ stale' = [stale EXCEPT ![t] = 0]
         ELSE /\ pc' = [pc EXCEPT ![t] = "send"]
              /\ UNCHANGED stale
    /\ UNCHANGED <<entries, req, cur, reg, todo, nap, job, sends, fate>>

\* if (arpreq->times_sent >= 5)
CheckTries(t) ==
    /\ pc[t] = "check_tries"
    /\ IF req[cur[t]].times >= MAX_TRIES
         THEN /\ pc' = [pc EXCEPT ![t] = "unreachable"]
              /\ stale' = [stale EXCEPT ![t] = 0]
         ELSE /\ pc' = [pc EXCEPT ![t] = "send"]
              /\ UNCHANGED stale
    /\ UNCHANGED <<entries, req, cur, reg, todo, nap, job, sends, fate>>

\* send_arp_request(sr, walker->buf, ...)
SendArp(t) ==
    /\ pc[t] = "send"
    /\ sends' = [sends EXCEPT ![cur[t]] = @ + 1]
    /\ pc' = [pc EXCEPT ![t] = "stamp"]
    /\ UNCHANGED <<entries, req, cur, stale, reg, todo, nap, job, fate>>

\* arpreq->sent = now
Stamp(t) ==
    /\ pc[t] = "stamp"
    /\ req' = [req EXCEPT ![cur[t]].age = stale[t]]
    /\ stale' = [stale EXCEPT ![t] = 0]
    /\ pc' = [pc EXCEPT ![t] = "load"]
    /\ UNCHANGED <<entries, cur, reg, todo, nap, job, sends, fate>>

\* arpreq->times_sent++ is a load and a store
LoadTimes(t) ==
    /\ pc[t] = "load"
    /\ reg' = [reg EXCEPT ![t] = req[cur[t]].times]
    /\ pc' = [pc EXCEPT ![t] = "store"]
    /\ UNCHANGED <<entries, req, cur, stale, todo, nap, job, sends, fate>>

StoreTimes(t) ==
    /\ pc[t] = "store"
    /\ req' = [req EXCEPT ![cur[t]].times = reg[t] + 1]
    /\ reg' = [reg EXCEPT ![t] = 0]
    /\ Return(t)
    /\ UNCHANGED <<entries, stale, todo, nap, job, sends, fate>>

\* The loop that should have been written: every packet is reported and the
\* request is destroyed, as the pseudocode in sr_arpcache.h has it.
UnreachableAdvancing(t) ==
    /\ pc[t] = "unreachable"
    /\ fate' = [p \in Packet |->
                  IF \E k \in DOMAIN req[cur[t]].pkts : p = req[cur[t]].pkts[k]
                    THEN "reported" ELSE fate[p]]
    /\ req' = [req EXCEPT ![cur[t]] = Gone("freed")]
    /\ Return(t)
    /\ UNCHANGED <<entries, stale, reg, todo, nap, job, sends>>

\* while (walker) send_icmp_error(walker): the loop never advances walker, so
\* a non-empty list is reported at its head again and again and
\* sr_arpreq_destroy, which takes the (recursive) mutex, comes only after an
\* empty one.
Unreachable(t) ==
    /\ pc[t] = "unreachable"
    /\ IF req[cur[t]].pkts # <<>>
         THEN /\ fate' = [fate EXCEPT ![req[cur[t]].pkts[1]] = "reported"]
              /\ UNCHANGED <<req, pc, cur>>
         ELSE /\ t = "main" => ~Locked
              /\ req' = [req EXCEPT ![cur[t]] = Gone("freed")]
              /\ Return(t)
              /\ UNCHANGED fate
    /\ UNCHANGED <<entries, stale, reg, todo, nap, job, sends>>

-----------------------------------------------------------------------------
(* The sweeper thread.                                                     *)

\* After sleep(1): lock, invalidate what is older than SR_ARPCACHE_TO, start
\* walking the request list.
Wake ==
    /\ pc["sweeper"] = "sleep"
    /\ nap >= 1
    /\ entries' = [i \in Slot |->
                     IF entries[i] # Null /\ entries[i].age > SR_ARPCACHE_TO
                       THEN Null ELSE entries[i]]
    /\ todo' = Queue
    /\ nap' = 0
    /\ pc' = [pc EXCEPT !["sweeper"] = "next"]
    /\ UNCHANGED <<req, cur, stale, reg, job, sends, fate>>

\* walker = walker->next, and the call of handle_arpreq for it.
SweepNext(r) ==
    /\ pc["sweeper"] = "next"
    /\ r \in todo
    /\ todo' = todo \ {r}
    /\ cur' = [cur EXCEPT !["sweeper"] = r]
    /\ pc' = [pc EXCEPT !["sweeper"] = "check_age"]
    /\ UNCHANGED <<entries, req, stale, reg, nap, job, sends, fate>>

SweepDoneLocked ==
    /\ pc["sweeper"] = "next"
    /\ todo = {}
    /\ cur' = [cur EXCEPT !["sweeper"] = Null]
    /\ UNCHANGED <<entries, req, pc, stale, reg, todo, nap, job, sends, fate>>

\* The end of the list: unlock and sleep.
SweepDone ==
    /\ pc["sweeper"] = "next"
    /\ todo = {}
    /\ cur' = [cur EXCEPT !["sweeper"] = Null]
    /\ pc' = [pc EXCEPT !["sweeper"] = "sleep"]
    /\ UNCHANGED <<entries, req, stale, reg, todo, nap, job, sends, fate>>

-----------------------------------------------------------------------------
(* The passage of one second.                                              *)

HoldsNow(t) == pc[t] \in {"check_tries", "send", "stamp"}

Tick ==
    /\ entries' = [i \in Slot |->
                     IF entries[i] = Null \/ entries[i].age > SR_ARPCACHE_TO
                       THEN entries[i]
                       ELSE [entries[i] EXCEPT !.age = @ + 1]]
    /\ req' = [r \in ReqId |-> [req[r] EXCEPT !.age = 1]]
    /\ stale' = [t \in Thread |-> IF HoldsNow(t) THEN 1 ELSE stale[t]]
    /\ nap' = IF Locked THEN nap ELSE 1
    /\ UNCHANGED <<pc, cur, reg, todo, job, sends, fate>>

-----------------------------------------------------------------------------
(* The complete system.                                                    *)

Handle(t) ==
    \/ CheckAge(t) \/ CheckTries(t) \/ SendArp(t) \/ Stamp(t)
    \/ LoadTimes(t) \/ StoreTimes(t) \/ Unreachable(t)

\* The steps by which the main thread works on a frame it has received.
Work ==
    \/ ForwardLookup
    \/ \E r \in ReqId : ForwardQueue(r)
    \/ ReplyLookup
    \/ ReplyInsert

Sweep ==
    \/ Wake
    \/ \E r \in ReqId : SweepNext(r)
    \/ SweepDone

Next ==
    \/ \E p \in Packet, ip \in IP : ReceiveIp(p, ip)
    \/ \E ip \in IP, mac \in MAC : ReceiveReply(ip, mac)
    \/ Work
    \/ \E t \in Thread : Handle(t)
    \/ Sweep
    \/ Tick

Spec == Init /\ [][Next]_vars

\* Both threads run and the clock advances.  The main thread may lose the
\* mutex to the sweeper, but the sweeper sleeps for a second between two
\* critical sections, so it cannot lose it for ever.
Fairness ==
    /\ WF_vars(Tick)
    /\ WF_vars(Sweep)
    /\ SF_vars(Work)
    /\ \A t \in Thread : WF_vars(Handle(t))

FairSpec == Spec /\ Fairness

-----------------------------------------------------------------------------
(* Invariants.                                                             *)

Handling(t) == pc[t] \in HandlePC

\* The types of the state; every age stays within the range in which the
\* code's comparisons can tell two ages apart, and a thread is inside
\* handle_arpreq only with a request to work on.
TypeOK ==
    /\ entries \in [Slot -> Entry \cup {Null}]
    /\ req \in [ReqId -> Request]
    /\ pc \in [Thread -> MainPC \cup SweepPC \cup HandlePC]
    /\ pc["main"] \notin SweepPC /\ pc["sweeper"] \notin MainPC
    /\ cur \in [Thread -> ReqId \cup {Null}]
    /\ \A t \in Thread : Handling(t) => cur[t] \in ReqId
    /\ stale \in [Thread -> 0 .. 1]
    /\ reg \in [Thread -> Nat]
    /\ todo \in SUBSET ReqId
    /\ nap \in 0 .. 1
    /\ job \in [ip : IP \cup {Null}, pkt : Packet \cup {Null},
                mac : MAC \cup {Null}]
    /\ pc["main"] \in {"fwd_lookup", "fwd_queue"} =>
          job.ip \in IP /\ job.pkt \in Packet
    /\ pc["main"] \in {"rep_lookup", "rep_insert"} =>
          job.ip \in IP /\ job.mac \in MAC
    /\ sends \in [ReqId -> Nat]
    /\ fate \in [Packet -> {"new", "held", "queued", "sent", "leaked",
                            "reported"}]

\* sr_arpcache_insert never checks whether the address is already in the
\* table.  Because deal_arp looked it up first, in a critical section of its
\* own, at most one valid slot holds an address: no lookup depends on which
\* of two slots comes last.
OneMappingPerIp == \A ip \in IP : \A i, j \in SlotsFor(ip) : i = j

\* Two requests for one address would split its packets, and
\* sr_arpcache_insert would take only the first off the list.
OneRequestPerIp == \A ip \in IP : \A r, q \in RequestsFor(ip) : r = q

\* lookup and queuereq are two critical sections of forward_ip_packet, and
\* lookup and insert two of deal_arp.  Even so no address is ever cached and
\* waited for at once: such a request would be asked about until it is given
\* up although the answer is known.
CachedNotPending == \A ip \in IP : Cached(ip) => RequestsFor(ip) = {}

\* handle_arpreq keeps a pointer to a request outside the mutex in the main
\* thread, and sr_arpcache_sweepreqs reads walker->next after handle_arpreq
\* has returned.  The request is on the list, hence neither freed nor taken
\* off it, whenever such a pointer is used, and it has a packet, so that
\* walker->buf is no null dereference.
InUse(t) == Handling(t) \/ (t = "sweeper" /\ pc[t] = "next" /\ cur[t] # Null)
NoDangling ==
    \A t \in Thread : InUse(t) => /\ cur[t] \in Queue
                                 /\ req[cur[t]].pkts # <<>>

\* times_sent is incremented by both threads and the increments of one may
\* overwrite those of the other.  A lost increment only ever makes the router
\* try more often: a host is declared unreachable after MAX_TRIES requests
\* really sent, never fewer.
EnoughTries ==
    \A t \in Thread : pc[t] = "unreachable" => sends[cur[t]] >= MAX_TRIES

\* A lookup that misses is acted upon in a later critical section, of
\* queuereq or of insert.  The miss still holds then.
MissStillHolds ==
    pc["main"] \in {"fwd_queue", "rep_insert"} => ~Cached(job.ip)

\* The request list as the sweeper walks it: every request has a packet, all
\* that is still to be visited is on the list, and a sleeping sweeper has
\* nothing to visit.  (The strengthening that NoDangling needs.)
WalkInv ==
    /\ \A r \in Queue : req[r].pkts # <<>>
    /\ todo \subseteq Queue
    /\ pc["sweeper"] = "sleep" => todo = {} /\ cur["sweeper"] = Null

\* 1 while t has sent a request for r and not yet counted it.
Uncounted(t, r) ==
    IF pc[t] \in {"stamp", "load", "store"} /\ cur[t] = r THEN 1 ELSE 0

\* times_sent, and any value of it that a thread is about to write back,
\* never gets ahead of the requests really sent.  (The strengthening that
\* EnoughTries needs.)
CountNotAhead ==
    \A r \in ReqId :
        LET uncounted == Uncounted("main", r) + Uncounted("sweeper", r)
        IN  /\ req[r].times + uncounted <= sends[r]
            /\ \A t \in Thread : pc[t] = "store" /\ cur[t] = r =>
                  reg[t] + uncounted <= sends[r]

\* Three invariants that hold for any interleaving of the two threads, each with
\* the strengthening that makes it inductive.  An address has at most one valid
\* slot and at most one request and never both, and a lookup that missed in one
\* critical section is still a miss in the next (sr_arpcache_lookup, then
\* sr_arpcache_queuereq or sr_arpcache_insert).
CacheInv == OneMappingPerIp /\ OneRequestPerIp /\ CachedNotPending
              /\ MissStillHolds
\* Neither thread uses a request that was freed or taken off the list, although
\* handle_arpreq and sr_arpcache_sweepreqs keep pointers across critical sections.
PointerInv == NoDangling /\ WalkInv
\* A host is given up only after MAX_TRIES requests have really been sent,
\* whatever increments of times_sent the threads overwrite (handle_arpreq).
TriesInv == CountNotAhead /\ EnoughTries

\* A packet is waiting (or being reported) exactly while it is in the list of
\* one queued request, where it is once.  None is dropped by queueing another
\* and none is handed on twice.  The packet that forward_ip_packet is about to
\* queue is in no list yet (the strengthening that makes this inductive).
InList(p, r) == \E k \in DOMAIN req[r].pkts : req[r].pkts[k] = p
PacketAccounting ==
    /\ \A p \in Packet : fate[p] \in {"queued", "reported"}
                            <=> \E r \in Queue : InList(p, r)
    /\ \A r, q \in Queue : \A k \in DOMAIN req[r].pkts :
          \A l \in DOMAIN req[q].pkts :
             req[r].pkts[k] = req[q].pkts[l] => r = q /\ k = l
    /\ pc["main"] \in {"fwd_lookup", "fwd_queue"} => fate[job.pkt] = "held"

-----------------------------------------------------------------------------
(* Liveness.                                                               *)

Wedged == \E t \in Thread : pc[t] = "unreachable"

\* However the sweeper interferes, the main thread finishes with every frame
\* and comes back to its loop, unless one of the threads has given up on a
\* host.
MainReturns == pc["main"] # "idle" ~> pc["main"] = "idle" \/ Wedged

\* A request does not stay on the list for ever: it is answered or the
\* router gives up on the host.
RequestEnds == \A r \in ReqId : req[r].st = "queued" ~>
                                  req[r].st # "queued" \/ Wedged

\* An entry that has outlived SR_ARPCACHE_TO is invalidated.
EntryExpires == \A i \in Slot :
    (entries[i] # Null /\ entries[i].age > SR_ARPCACHE_TO) ~>
        (entries[i] = Null \/ Wedged)

\* All three: the router's threads get on with their work as long as neither has
\* given up on a host (sr_handlepacket, sr_arpcache_timeout).
ThreadsProgress == MainReturns /\ RequestEnds /\ EntryExpires

-----------------------------------------------------------------------------
(* What the pseudocode of sr_arpcache.h promises and the code does not do. *)

\* "send icmp host unreachable to source addr of all pkts waiting on this
\* request / arpreq_destroy(req)": giving up on a host comes to an end.
GivingUpEnds == \A t \in Thread : pc[t] = "unreachable" ~>
                                    pc[t] # "unreachable"

\* "send all packets on the req->packets linked list".
AllPacketsSent == \A p \in Packet : fate[p] # "leaked"

=============================================================================
