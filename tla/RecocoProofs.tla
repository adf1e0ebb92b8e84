---------------------------- MODULE RecocoProofs ----------------------------
(***************************************************************************)
(* Proofs about Recoco: that the threads which resume tasks never resume   *)
(* one twice (OnePlace), and that the hub never waits on a closed socket   *)
(* (ClosedNotSelected), for any number of calls and messages.              *)
(*                                                                         *)
(* A task is queued (it is to be started or has a turn in ready), asked    *)
(* for (in incoming), asleep (in tasks) or busy (in the second half of its *)
(* turn, or in a call on its own thread); the invariant says that these    *)
(* exclude one another and that a task which is still new is at most       *)
(* queued.  The second result rests on the first: the loop closes sockets  *)
(* while it is busy, and the hub selects for it only while it sleeps.      *)
(***************************************************************************)
EXTENDS Recoco, FiniteSetTheorems, TLAPS

Entry == {"start", "run"} \X Tasks

\* Does list q of ready tasks hold task t, does it hold its ScheduleTask, and
\* does it hold no task twice?
Holds(q, t) == \E i \in DOMAIN q : q[i][2] = t
Starts(q, t) == \E i \in DOMAIN q : q[i] = Start(t)
Distinct(q) == \A i, j \in DOMAIN q : q[i][2] = q[j][2] => i = j

Busy(t) ==
    \/ t = "later" /\ spc = "calls"
    \/ t = "io" /\ spc = "io"
    \/ t = "block" /\ blocking

TypeOK ==
    /\ ready \in Seq(Entry) /\ incoming \in Seq(Tasks) /\ tasks \subseteq Tasks
    /\ new \subseteq Tasks /\ setup \in Setups
    /\ chosen \subseteq tasks \cup {"pinger"} /\ (hpc # "handle" => chosen = {})

Apart ==
    /\ Distinct(ready) /\ IsInjective(incoming)
    /\ \A t \in Tasks :
         /\ Holds(ready, t) => t \notin Range(incoming) /\ t \notin tasks /\ ~ Busy(t)
         /\ t \in Range(incoming) => t \notin tasks /\ ~ Busy(t)
         /\ t \in tasks => ~ Busy(t)
         /\ t \in new => t \notin Range(incoming) /\ t \notin tasks /\ ~ Busy(t)
         /\ Starts(ready, t) => t \in new

-----------------------------------------------------------------------------
(* Lists of tasks.                                                         *)

LEMMA EntryParts ==
    ASSUME NEW e \in Entry
    PROVE  e[2] \in Tasks /\ (e = Start(e[2]) \/ e = Turn(e[2])) /\ Start(e[2]) # Turn(e[2])
BY DEF Entry, Start, Turn

LEMMA EntryMade ==
    ASSUME NEW t \in Tasks
    PROVE  /\ Start(t) \in Entry /\ Turn(t) \in Entry
           /\ Start(t)[2] = t /\ Turn(t)[2] = t
           /\ \A u : Turn(t) # Start(u)
           /\ \A u : Start(t) = Start(u) => t = u
BY DEF Entry, Start, Turn

LEMMA StartsHolds ==
    ASSUME NEW q, NEW t, Starts(q, t)
    PROVE  Holds(q, t)
BY DEF Starts, Holds, Start

LEMMA TailList ==
    ASSUME NEW q \in Seq(Entry), Distinct(q), q # <<>>
    PROVE  /\ Tail(q) \in Seq(Entry) /\ Distinct(Tail(q))
           /\ \A t : Holds(Tail(q), t) => Holds(q, t) /\ t # q[1][2]
           /\ \A t : Starts(Tail(q), t) => Starts(q, t)
           /\ q[1] \in Entry /\ Holds(q, q[1][2])
<1>1. PICK r : r = Tail(q)
  OBVIOUS
<1>2. /\ r \in Seq(Entry) /\ Len(q) \in Nat /\ Len(q) > 0
      /\ DOMAIN q = 1 .. Len(q) /\ DOMAIN r = 1 .. Len(q) - 1
      /\ \A i \in 1 .. Len(q) - 1 : r[i] = q[i + 1]
  BY <1>1
<1>3. 1 \in DOMAIN q /\ \A i \in DOMAIN r : i + 1 \in DOMAIN q /\ i + 1 # 1 /\ r[i] = q[i + 1]
  BY <1>2
<1>4. \A i, j \in DOMAIN r : i + 1 = j + 1 => i = j
  BY <1>2
<1>5. Distinct(r)
  BY <1>3, <1>4 DEF Distinct
<1>6. \A t : Holds(r, t) => Holds(q, t) /\ t # q[1][2]
  BY <1>3 DEF Holds, Distinct
<1>7. \A t : Starts(r, t) => Starts(q, t)
  BY <1>3 DEF Starts
<1>8. q[1] \in Entry /\ Holds(q, q[1][2])
  BY <1>2, <1>3 DEF Holds
<1>. QED
  BY <1>1, <1>2, <1>5, <1>6, <1>7, <1>8

\* Two lists with nothing in common, one behind the other.
LEMMA JoinedLists ==
    ASSUME NEW q \in Seq(Entry), Distinct(q), NEW r \in Seq(Entry), Distinct(r),
           \A t \in Tasks : ~ (Holds(q, t) /\ Holds(r, t))
    PROVE  /\ q \o r \in Seq(Entry) /\ Distinct(q \o r)
           /\ \A t : Holds(q \o r, t) => Holds(q, t) \/ Holds(r, t)
           /\ \A t : Starts(q \o r, t) => Starts(q, t) \/ Starts(r, t)
<1>1. PICK s : s = q \o r
  OBVIOUS
<1>2. /\ s \in Seq(Entry) /\ Len(q) \in Nat /\ Len(r) \in Nat
      /\ DOMAIN q = 1 .. Len(q) /\ DOMAIN r = 1 .. Len(r) /\ DOMAIN s = 1 .. Len(q) + Len(r)
      /\ \A i \in 1 .. Len(q) : s[i] = q[i]
      /\ \A i \in 1 .. Len(q) + Len(r) : i > Len(q) => s[i] = r[i - Len(q)]
  BY <1>1
<1>3. \A i \in DOMAIN s : \/ i \in DOMAIN q /\ s[i] = q[i]
                          \/ i - Len(q) \in DOMAIN r /\ s[i] = r[i - Len(q)]
  BY <1>2
<1>4. ASSUME NEW i \in DOMAIN s, NEW j \in DOMAIN s, s[i][2] = s[j][2]
      PROVE  i = j
  <2>1. s[i][2] \in Tasks
    BY <1>2, EntryParts
  <2>2. CASE i \in DOMAIN q /\ s[i] = q[i] /\ j \in DOMAIN q /\ s[j] = q[j]
    BY <1>4, <2>2 DEF Distinct
  <2>3. CASE /\ i - Len(q) \in DOMAIN r /\ s[i] = r[i - Len(q)]
             /\ j - Len(q) \in DOMAIN r /\ s[j] = r[j - Len(q)]
    <3>1. i - Len(q) = j - Len(q)
      BY <1>4, <2>3 DEF Distinct
    <3>. QED
      BY <1>2, <3>1
  <2>4. CASE i \in DOMAIN q /\ s[i] = q[i] /\ j - Len(q) \in DOMAIN r /\ s[j] = r[j - Len(q)]
    BY <1>4, <2>1, <2>4 DEF Holds
  <2>5. CASE j \in DOMAIN q /\ s[j] = q[j] /\ i - Len(q) \in DOMAIN r /\ s[i] = r[i - Len(q)]
    BY <1>4, <2>1, <2>5 DEF Holds
  <2>. QED
    BY <1>3, <2>2, <2>3, <2>4, <2>5
<1>5. Distinct(s)
  BY <1>4 DEF Distinct
<1>6. \A t : Holds(s, t) => Holds(q, t) \/ Holds(r, t)
  BY <1>3 DEF Holds
<1>7. \A t : Starts(s, t) => Starts(q, t) \/ Starts(r, t)
  BY <1>3 DEF Starts
<1>. QED
  BY <1>1, <1>2, <1>5, <1>6, <1>7

LEMMA OneEntry ==
    ASSUME NEW e \in Entry
    PROVE  /\ <<e>> \in Seq(Entry) /\ Distinct(<<e>>)
           /\ \A t : Holds(<<e>>, t) => t = e[2]
           /\ \A t : Starts(<<e>>, t) => e = Start(t)
<1>1. <<e>> \in Seq(Entry) /\ DOMAIN <<e>> = {1} /\ <<e>>[1] = e
  OBVIOUS
<1>. QED
  BY <1>1 DEF Distinct, Holds, Starts

\* A new entry at the end or in front, for a task that is not there.
LEMMA AddedEntry ==
    ASSUME NEW q \in Seq(Entry), Distinct(q), NEW e \in Entry, ~ Holds(q, e[2]),
           NEW r, r = Append(q, e) \/ r = q \o <<e>> \/ r = <<e>> \o q
    PROVE  /\ r \in Seq(Entry) /\ Distinct(r)
           /\ \A t : Holds(r, t) => Holds(q, t) \/ t = e[2]
           /\ \A t : Starts(r, t) => Starts(q, t) \/ e = Start(t)
<1>1. Append(q, e) = q \o <<e>>
  OBVIOUS
<1>2. PICK s : s = <<e>>
  OBVIOUS
<1>3. /\ s \in Seq(Entry) /\ Distinct(s)
      /\ \A t : Holds(s, t) => t = e[2]
      /\ \A t : Starts(s, t) => e = Start(t)
  BY <1>2, OneEntry
<1>4. \A t \in Tasks : ~ (Holds(q, t) /\ Holds(s, t)) /\ ~ (Holds(s, t) /\ Holds(q, t))
  BY <1>3
<1>5. /\ q \o s \in Seq(Entry) /\ Distinct(q \o s)
      /\ \A t : Holds(q \o s, t) => Holds(q, t) \/ Holds(s, t)
      /\ \A t : Starts(q \o s, t) => Starts(q, t) \/ Starts(s, t)
  BY <1>3, <1>4, JoinedLists
<1>6. /\ s \o q \in Seq(Entry) /\ Distinct(s \o q)
      /\ \A t : Holds(s \o q, t) => Holds(s, t) \/ Holds(q, t)
      /\ \A t : Starts(s \o q, t) => Starts(s, t) \/ Starts(q, t)
  BY <1>3, <1>4, JoinedLists
<1>7. r = q \o s \/ r = s \o q
  BY <1>1, <1>2
<1>. QED
  BY <1>3, <1>5, <1>6, <1>7

\* The turns that _return queues for all the tasks of a set.
LEMMA WokenTurns ==
    ASSUME NEW S, S \subseteq Tasks,
           NEW r, r = (LET q == SetToSeq(S) IN [i \in DOMAIN q |-> Turn(q[i])])
    PROVE  /\ r \in Seq(Entry) /\ Distinct(r)
           /\ \A t : Holds(r, t) => t \in S
           /\ \A t : ~ Starts(r, t)
<1>1. IsFiniteSet(Tasks)
  <2>1. \A x : IsFiniteSet({x})
    BY FS_Singleton
  <2>2. \A A, B : IsFiniteSet(A) /\ IsFiniteSet(B) => IsFiniteSet(A \cup B)
    BY FS_Union
  <2>3. Tasks = ({"later"} \cup {"timer"}) \cup ({"io"} \cup {"block"})
    BY DEF Tasks
  <2>. QED
    BY <2>1, <2>2, <2>3, Zenon
<1>2. IsFiniteSet(S)
  BY <1>1, FS_Subset
<1>3. PICK k \in Nat : k = Cardinality(S) /\ ExistsBijection(1 .. k, S)
  BY <1>2, FS_CardinalityType
<1>4. \E f \in [1 .. k -> S] : IsInjective(f)
  <2>1. PICK f : f \in Bijection(1 .. k, S)
    BY <1>3 DEF ExistsBijection
  <2>2. f \in [1 .. k -> S] /\ \A a, b \in 1 .. k : f[a] = f[b] => a = b
    BY <2>1 DEF Bijection, Injection, IsInjective
  <2>. QED
    BY <2>2 DEF IsInjective
<1>5. PICK q : q = SetToSeq(S)
  OBVIOUS
<1>6. q \in [1 .. k -> S] /\ IsInjective(q)
  BY <1>3, <1>4, <1>5, Zenon DEF SetToSeq
<1>7. /\ r = [i \in 1 .. k |-> Turn(q[i])]
      /\ \A i \in 1 .. k : q[i] \in Tasks /\ q[i] \in S
  BY <1>5, <1>6
<1>8. \A i \in 1 .. k : /\ r[i] = Turn(q[i]) /\ r[i] \in Entry /\ r[i][2] = q[i]
                        /\ \A u : r[i] # Start(u)
  BY <1>7, EntryMade
<1>9. r \in Seq(Entry) /\ DOMAIN r = 1 .. k
  BY <1>7, <1>8
<1>10. Distinct(r)
  BY <1>6, <1>8, <1>9 DEF Distinct, IsInjective
<1>. QED
  BY <1>7, <1>8, <1>9, <1>10 DEF Holds, Starts

\* The queue of the hub.
LEMMA AddedIncoming ==
    ASSUME incoming \in Seq(Tasks), IsInjective(incoming), NEW t \in Tasks, t \notin Range(incoming)
    PROVE  /\ Append(incoming, t) \in Seq(Tasks) /\ IsInjective(Append(incoming, t))
           /\ Range(Append(incoming, t)) = Range(incoming) \cup {t}
<1>1. PICK q, r : q = incoming /\ r = Append(incoming, t)
  OBVIOUS
<1>2. /\ r \in Seq(Tasks) /\ Len(q) \in Nat /\ DOMAIN q = 1 .. Len(q)
      /\ DOMAIN r = 1 .. Len(q) + 1
      /\ \A i \in 1 .. Len(q) : r[i] = q[i]
      /\ r[Len(q) + 1] = t
  BY <1>1
<1>3. DOMAIN r = DOMAIN q \cup {Len(q) + 1}
  BY <1>2
<1>4. \A i \in DOMAIN q : q[i] # t
  BY <1>1 DEF Range
<1>5. IsInjective(r)
  BY <1>1, <1>2, <1>3, <1>4 DEF IsInjective
<1>6. Range(r) = Range(q) \cup {t}
  BY <1>2, <1>3 DEF Range
<1>. QED
  BY <1>1, <1>2, <1>5, <1>6

-----------------------------------------------------------------------------
(* The steps.                                                              *)

\* Task t is in one place at most, and in none but ready while it is new.
Placed(t) ==
    /\ Holds(ready, t) => t \notin Range(incoming) /\ t \notin tasks /\ ~ Busy(t)
    /\ t \in Range(incoming) => t \notin tasks /\ ~ Busy(t)
    /\ t \in tasks => ~ Busy(t)
    /\ t \in new => t \notin Range(incoming) /\ t \notin tasks /\ ~ Busy(t)
    /\ Starts(ready, t) => t \in new

\* Task t gets nowhere where it was not.
Stays(t) ==
    /\ Holds(ready, t)' => Holds(ready, t)
    /\ Starts(ready, t)' => Starts(ready, t)
    /\ t \in Range(incoming') => t \in Range(incoming)
    /\ t \in tasks' => t \in tasks
    /\ Busy(t)' => Busy(t)
    /\ t \in new' <=> t \in new

LEMMA ApartParts ==
    /\ Apart <=> Distinct(ready) /\ IsInjective(incoming) /\ \A t \in Tasks : Placed(t)
    /\ Apart' <=> Distinct(ready)' /\ IsInjective(incoming)' /\ \A t \in Tasks : Placed(t)'
BY DEF Apart, Placed

LEMMA StaysPlaced ==
    ASSUME NEW t, Placed(t), Stays(t)
    PROVE  Placed(t)'
BY Zenon DEF Placed, Stays

LEMMA OneMoves ==
    ASSUME Apart, NEW t \in Tasks, Distinct(ready)', IsInjective(incoming)',
           Placed(t)', \A u \in Tasks \ {t} : Stays(u)
    PROVE  Apart'
<1>1. \A u \in Tasks \ {t} : Placed(u)'
  BY ApartParts, StaysPlaced
<1>. QED
  BY <1>1, ApartParts

LEMMA NoneMoves ==
    ASSUME TypeOK, Apart, UNCHANGED <<ready, incoming, tasks, new, setup, blocking>>,
           chosen' \subseteq tasks \cup {"pinger"}, hpc' # "handle" => chosen' = {},
           spc' \in {"calls", "io"} => spc' = spc
    PROVE  TypeOK' /\ Apart'
<1>1. \A t : Busy(t)' => Busy(t)
  BY Zenon DEF Busy
<1>2. \A t : Stays(t)
  BY <1>1, Zenon DEF Stays, Holds, Starts, Range
<1>3. \A t \in Tasks : Placed(t)'
  BY <1>2, ApartParts, StaysPlaced
<1>4. Distinct(ready)' /\ IsInjective(incoming)'
  BY Zenon DEF Apart, Distinct, IsInjective
<1>5. TypeOK'
  BY DEF TypeOK
<1>. QED
  BY <1>3, <1>4, <1>5, ApartParts

\* cycle takes the first task from the list.
LEMMA Taken ==
    ASSUME TypeOK, Apart, NEW t \in Tasks, First(Turn(t)), NEW r, r = Tail(ready)
    PROVE  /\ r \in Seq(Entry) /\ Distinct(r) /\ spc = "check"
           /\ \A u : Holds(r, u) => Holds(ready, u) /\ u # t
           /\ \A u : Starts(r, u) => Starts(ready, u) /\ u # t
           /\ t \notin Range(incoming) /\ t \notin tasks /\ \A u : Busy(u) => u = "block" /\ blocking
           /\ ~ Busy(t)
<1>1. ready \in Seq(Entry) /\ Distinct(ready) /\ ready # <<>> /\ ready[1] = Turn(t) /\ Turn(t)[2] = t
  BY EntryMade DEF TypeOK, Apart, First
<1>2. /\ r \in Seq(Entry) /\ Distinct(r)
      /\ \A u : Holds(r, u) => Holds(ready, u) /\ u # t
      /\ \A u : Starts(r, u) => Starts(ready, u)
      /\ Holds(ready, t)
  BY <1>1, TailList
<1>3. \A u : Starts(r, u) => u # t
  BY <1>2, StartsHolds
<1>4. spc = "check"
  BY DEF First
<1>. QED
  BY <1>2, <1>3, <1>4 DEF Apart, Busy

\* ... and the task waits for the hub.
LEMMA TakenToHub ==
    ASSUME TypeOK, Apart, NEW t \in Tasks, First(Turn(t)), ready' = Tail(ready), Register(t),
           new' = new \ {t}, spc' = "check", UNCHANGED <<blocking, setup>>
    PROVE  TypeOK' /\ Apart'
<1>1. /\ ready' \in Seq(Entry) /\ Distinct(ready')
      /\ \A u : Holds(ready', u) => Holds(ready, u) /\ u # t
      /\ \A u : Starts(ready', u) => Starts(ready, u) /\ u # t
      /\ t \notin Range(incoming) /\ t \notin tasks /\ ~ Busy(t)
  BY Taken
<1>2. /\ incoming' \in Seq(Tasks) /\ IsInjective(incoming')
      /\ Range(incoming') = Range(incoming) \cup {t}
      /\ UNCHANGED <<tasks, chosen, hpc>>
  BY <1>1, AddedIncoming DEF TypeOK, Apart, Register
<1>3. \A u : Busy(u)' => Busy(u)
  BY Zenon DEF Busy
<1>4. Placed(t)'
  BY <1>1, <1>2, <1>3 DEF Placed
<1>5. \A u \in Tasks \ {t} : Stays(u)
  BY <1>1, <1>2, <1>3 DEF Stays
<1>6. TypeOK'
  BY <1>1, <1>2 DEF TypeOK
<1>. QED
  BY <1>1, <1>2, <1>4, <1>5, <1>6, OneMoves

\* ... and the task is nowhere, or busy: in the rest of its turn, or in a call.
LEMMA TakenAway ==
    ASSUME TypeOK, Apart, NEW t \in Tasks, First(Turn(t)), ready' = Tail(ready),
           new' = new \ {t}, UNCHANGED <<incoming, tasks, chosen, hpc, setup>>,
           \A u \in Tasks \ {t} : Busy(u)' => Busy(u)
    PROVE  TypeOK' /\ Apart'
<1>1. /\ ready' \in Seq(Entry) /\ Distinct(ready')
      /\ \A u : Holds(ready', u) => Holds(ready, u) /\ u # t
      /\ \A u : Starts(ready', u) => Starts(ready, u) /\ u # t
      /\ t \notin Range(incoming) /\ t \notin tasks
  BY Taken
<1>2. Placed(t)'
  BY <1>1 DEF Placed
<1>3. \A u \in Tasks \ {t} : Stays(u)
  BY <1>1 DEF Stays
<1>4. TypeOK' /\ IsInjective(incoming')
  BY <1>1 DEF TypeOK, Apart
<1>. QED
  BY <1>1, <1>2, <1>3, <1>4, OneMoves

\* The second half of a turn ends, and the task waits for the hub.
LEMMA BusyToHub ==
    ASSUME TypeOK, Apart, NEW t \in Tasks, Busy(t), spc # "check", t # "block",
           new' = new \ {t}, spc' = "check", Register(t), UNCHANGED <<ready, blocking, setup>>
    PROVE  TypeOK' /\ Apart'
<1>1. ~ Holds(ready, t) /\ t \notin Range(incoming) /\ t \notin tasks
  BY DEF Apart
<1>2. /\ incoming' \in Seq(Tasks) /\ IsInjective(incoming')
      /\ Range(incoming') = Range(incoming) \cup {t}
      /\ UNCHANGED <<tasks, chosen, hpc>>
  BY <1>1, AddedIncoming DEF TypeOK, Apart, Register
<1>3. ~ Busy(t)' /\ \A u : Busy(u)' => Busy(u)
  BY Zenon DEF Busy
<1>4. ~ Starts(ready, t)
  BY <1>1, StartsHolds
<1>5. Placed(t)'
  BY <1>1, <1>2, <1>3, <1>4 DEF Placed
<1>6. \A u \in Tasks \ {t} : Stays(u)
  BY <1>2, <1>3 DEF Stays
<1>7. TypeOK' /\ Distinct(ready')
  BY <1>2 DEF TypeOK, Apart
<1>. QED
  BY <1>2, <1>5, <1>6, <1>7, OneMoves

\* The hub resumes tasks that sleep and puts those of its queue to sleep.
LEMMA Resumed ==
    ASSUME TypeOK, Apart, NEW S, S \subseteq tasks, NEW in, Resume(S, in),
           \/ in = Range(incoming) /\ incoming' = <<>>
           \/ in = {} /\ incoming' = incoming,
           UNCHANGED <<new, setup, blocking, spc>>, chosen' = {} \/ (chosen' = chosen /\ chosen = {})
    PROVE  TypeOK' /\ Apart'
<1>1. /\ ready \in Seq(Entry) /\ Distinct(ready) /\ S \subseteq Tasks
      /\ \A t \in Tasks : ~ (Holds(ready, t) /\ t \in S)
  BY DEF TypeOK, Apart
<1>2. /\ ready' \in Seq(Entry) /\ Distinct(ready')
      /\ \A t \in Tasks : Holds(ready', t) => Holds(ready, t) \/ t \in S
      /\ \A t \in Tasks : Starts(ready', t) => Starts(ready, t)
  <2>1. CASE S = {}
    BY <1>1, <2>1 DEF Resume, Wake
  <2>2. CASE S # {}
    <3>1. PICK r : r = (LET q == SetToSeq(S) IN [i \in DOMAIN q |-> Turn(q[i])])
      OBVIOUS
    <3>2. ready' = ready \o r
      BY <2>2, <3>1 DEF Resume, Wake, Schedule
    <3>3. /\ r \in Seq(Entry) /\ Distinct(r)
          /\ \A t : Holds(r, t) => t \in S
          /\ \A t : ~ Starts(r, t)
      BY <1>1, <3>1, WokenTurns
    <3>. QED
      BY <1>1, <3>2, <3>3, JoinedLists
  <2>. QED
    BY <2>1, <2>2
<1>3. /\ incoming' \in Seq(Tasks) /\ IsInjective(incoming')
      /\ \/ Range(incoming') = {} /\ in = Range(incoming)
         \/ Range(incoming') = Range(incoming) /\ in = {}
  <2>1. CASE in = Range(incoming) /\ incoming' = <<>>
    <3>1. incoming' \in Seq(Tasks) /\ DOMAIN incoming' = {}
      BY <2>1
    <3>2. IsInjective(incoming') /\ Range(incoming') = {}
      BY <3>1, Zenon DEF IsInjective, Range
    <3>. QED
      BY <2>1, <3>1, <3>2
  <2>2. CASE in = {} /\ incoming' = incoming
    BY <2>2 DEF TypeOK, Apart
  <2>. QED
    BY <2>1, <2>2
<1>4. tasks' = (tasks \ S) \cup in
  BY DEF Resume
<1>5. \A t : Busy(t)' <=> Busy(t)
  BY Zenon DEF Busy
<1>6. ASSUME NEW t \in Tasks PROVE Placed(t)'
  <2>1. Placed(t)
    BY ApartParts
  <2>. QED
    BY <1>2, <1>3, <1>4, <1>5, <2>1 DEF Placed
<1>7. Range(incoming) \subseteq Tasks
  BY DEF TypeOK, Range
<1>8. TypeOK'
  BY <1>2, <1>3, <1>4, <1>7 DEF TypeOK
<1>. QED
  BY <1>2, <1>3, <1>6, <1>8, ApartParts

PlacesInv == TypeOK /\ Apart

LEMMA TasksAre == {"later", "timer", "io", "block"} = Tasks /\ "pinger" \notin Tasks
BY DEF Tasks

\* A ScheduleTask puts its task in the place of itself.
LEMMA PlacesStart ==
    ASSUME PlacesInv, NEW t \in Tasks, StartRuns(t)
    PROVE  PlacesInv'
<1>0. /\ UNCHANGED <<incoming, tasks, chosen, hpc, new, setup, blocking, spc>>
      /\ First(Start(t))
  BY DEF StartRuns, hubVars
<1>1. ready \in Seq(Entry) /\ Distinct(ready) /\ ready # <<>> /\ ready[1] = Start(t)
  BY <1>0 DEF PlacesInv, TypeOK, Apart, First
<1>2. PICK r : r = Tail(ready)
  OBVIOUS
<1>3. Start(t)[2] = t /\ Turn(t)[2] = t /\ Turn(t) \in Entry /\ \A u : Turn(t) # Start(u)
  BY EntryMade
<1>4. /\ r \in Seq(Entry) /\ Distinct(r)
      /\ \A u : Holds(r, u) => Holds(ready, u) /\ u # t
      /\ \A u : Starts(r, u) => Starts(ready, u)
      /\ Holds(ready, t)
  BY <1>1, <1>2, <1>3, TailList
<1>6. /\ ready' \in Seq(Entry) /\ Distinct(ready')
      /\ \A u : Holds(ready', u) => Holds(ready, u)
      /\ \A u : Starts(ready', u) => Starts(ready, u)
  <2>1. CASE ready' = r
    BY <1>4, <2>1
  <2>2. CASE ready' = <<Turn(t)>> \o r
    <3>1. ~ Holds(r, Turn(t)[2])
      BY <1>3, <1>4
    <3>2. /\ ready' \in Seq(Entry) /\ Distinct(ready')
          /\ \A u : Holds(ready', u) => Holds(r, u) \/ u = Turn(t)[2]
          /\ \A u : Starts(ready', u) => Starts(r, u) \/ Turn(t) = Start(u)
      BY <1>3, <1>4, <2>2, <3>1, AddedEntry
    <3>. QED
      BY <1>3, <1>4, <3>2
  <2>. QED
    BY <1>2, <2>1, <2>2 DEF StartRuns
<1>7. \A u : Busy(u)' => Busy(u)
  BY <1>0, Zenon DEF Busy
<1>8. \A u : Stays(u)
  BY <1>0, <1>6, <1>7 DEF Stays
<1>9. \A u \in Tasks : Placed(u)'
  BY <1>8, ApartParts, StaysPlaced DEF PlacesInv
<1>10. TypeOK' /\ IsInjective(incoming)'
  BY <1>0, <1>6 DEF PlacesInv, TypeOK, Apart
<1>. QED
  BY <1>6, <1>9, <1>10, ApartParts DEF PlacesInv

LEMMA PlacesLater ==
    ASSUME PlacesInv, LaterWakes \/ LaterCalls \/ LaterWaits
    PROVE  PlacesInv'
<1>1. CASE LaterWakes /\ "later" \in new
  <2>1. /\ First(Turn("later")) /\ ready' = Tail(ready) /\ Register("later")
        /\ new' = new \ {"later"} /\ spc' = "check" /\ UNCHANGED <<blocking, setup>>
    BY <1>1 DEF LaterWakes, Takes, Yield
  <2>. QED
    BY <2>1, TasksAre, TakenToHub DEF PlacesInv
<1>2. CASE LaterWakes /\ "later" \notin new
  <2>1. /\ First(Turn("later")) /\ ready' = Tail(ready) /\ spc' = "calls" /\ spc = "check"
        /\ new' = new \ {"later"} /\ UNCHANGED <<incoming, tasks, chosen, hpc, setup, blocking>>
    BY <1>2 DEF LaterWakes, Takes, First, hubVars
  <2>2. \A u \in Tasks \ {"later"} : Busy(u)' => Busy(u)
    BY <2>1 DEF Busy
  <2>. QED
    BY <2>1, <2>2, TasksAre, TakenAway DEF PlacesInv
<1>3. CASE LaterCalls
  <2>1. UNCHANGED <<ready, incoming, tasks, chosen, hpc, new, setup, blocking, spc>>
    BY <1>3 DEF LaterCalls, hubVars
  <2>. QED
    BY <2>1, NoneMoves DEF PlacesInv, TypeOK
<1>4. CASE LaterWaits
  <2>1. /\ Busy("later") /\ spc # "check" /\ new' = new \ {"later"} /\ spc' = "check"
        /\ Register("later") /\ UNCHANGED <<ready, blocking, setup>>
    BY <1>4 DEF LaterWaits, Yield, Busy
  <2>. QED
    BY <2>1, TasksAre, BusyToHub DEF PlacesInv
<1>. QED
  BY <1>1, <1>2, <1>3, <1>4

LEMMA PlacesTimer ==
    ASSUME PlacesInv, TimerRuns
    PROVE  PlacesInv'
<1>0. /\ First(Turn("timer")) /\ new' = new \ {"timer"} /\ spc' = "check"
      /\ UNCHANGED <<setup, blocking>> /\ "timer" \in Tasks
  BY TasksAre DEF TimerRuns, Yield
<1>1. PICK again \in BOOLEAN :
        /\ ready' = IF again THEN Append(Tail(ready), Turn("timer")) ELSE Tail(ready)
        /\ IF again \/ timer.cancelled THEN UNCHANGED hubVars ELSE Register("timer")
  BY DEF TimerRuns
<1>2. \A u : Busy(u)' => Busy(u)
  BY <1>0, Zenon DEF Busy
<1>3. CASE again
  <2>1. PICK r : r = Tail(ready)
    OBVIOUS
  <2>2. /\ r \in Seq(Entry) /\ Distinct(r)
        /\ \A u : Holds(r, u) => Holds(ready, u) /\ u # "timer"
        /\ \A u : Starts(r, u) => Starts(ready, u) /\ u # "timer"
        /\ "timer" \notin Range(incoming) /\ "timer" \notin tasks /\ ~ Busy("timer")
    BY <1>0, <2>1, Taken DEF PlacesInv
  <2>3. /\ Turn("timer") \in Entry /\ Turn("timer")[2] = "timer"
        /\ \A u : Turn("timer") # Start(u)
    BY <1>0, EntryMade
  <2>4. ~ Holds(r, Turn("timer")[2])
    BY <2>2, <2>3
  <2>5. ready' = Append(r, Turn("timer"))
    BY <1>1, <1>3, <2>1
  <2>6. /\ ready' \in Seq(Entry) /\ Distinct(ready')
        /\ \A u : Holds(ready', u) => Holds(r, u) \/ u = Turn("timer")[2]
        /\ \A u : Starts(ready', u) => Starts(r, u) \/ Turn("timer") = Start(u)
    BY <2>2, <2>3, <2>4, <2>5, AddedEntry
  <2>7. UNCHANGED <<incoming, tasks, chosen, hpc>>
    BY <1>1, <1>3 DEF hubVars
  <2>8. Placed("timer")'
    BY <1>0, <1>2, <2>2, <2>3, <2>6, <2>7 DEF Placed
  <2>9. \A u \in Tasks \ {"timer"} : Stays(u)
    BY <1>0, <1>2, <2>2, <2>3, <2>6, <2>7 DEF Stays
  <2>10. TypeOK' /\ IsInjective(incoming)'
    BY <1>0, <2>6, <2>7 DEF PlacesInv, TypeOK, Apart
  <2>. QED
    BY <1>0, <2>6, <2>8, <2>9, <2>10, OneMoves DEF PlacesInv
<1>4. CASE ~ again /\ timer.cancelled
  <2>1. ready' = Tail(ready) /\ UNCHANGED <<incoming, tasks, chosen, hpc>>
    BY <1>1, <1>4 DEF hubVars
  <2>. QED
    BY <1>0, <1>2, <2>1, TakenAway DEF PlacesInv
<1>5. CASE ~ again /\ ~ timer.cancelled
  <2>1. ready' = Tail(ready) /\ Register("timer")
    BY <1>1, <1>5
  <2>. QED
    BY <1>0, <2>1, TakenToHub DEF PlacesInv
<1>. QED
  BY <1>3, <1>4, <1>5

LEMMA PlacesBlock ==
    ASSUME PlacesInv, BlockRuns \/ BlockReturns
    PROVE  PlacesInv'
<1>1. CASE BlockRuns
  <2>1. /\ First(Turn("block")) /\ ready' = Tail(ready) /\ spc' = "check"
        /\ new' = new \ {"block"} /\ UNCHANGED <<incoming, tasks, chosen, hpc, setup>>
    BY <1>1 DEF BlockRuns, Takes, Yield, hubVars
  <2>2. \A u \in Tasks \ {"block"} : Busy(u)' => Busy(u)
    BY <2>1 DEF Busy
  <2>. QED
    BY <2>1, <2>2, TasksAre, TakenAway DEF PlacesInv
<1>2. CASE BlockReturns
  <2>1. /\ ready' = ready \o <<Turn("block")>> /\ ~ blocking' /\ blocking /\ "block" \in Tasks
        /\ UNCHANGED <<incoming, tasks, chosen, hpc, new, setup, spc>>
    BY <1>2, TasksAre DEF BlockReturns, Schedule, hubVars
  <2>2. /\ ~ Holds(ready, "block") /\ "block" \notin Range(incoming) /\ "block" \notin tasks
        /\ ready \in Seq(Entry) /\ Distinct(ready)
    BY <2>1 DEF PlacesInv, TypeOK, Apart, Busy
  <2>3. /\ Turn("block") \in Entry /\ Turn("block")[2] = "block"
        /\ \A u : Turn("block") # Start(u)
    BY <2>1, EntryMade
  <2>4. /\ ready' \in Seq(Entry) /\ Distinct(ready')
        /\ \A u : Holds(ready', u) => Holds(ready, u) \/ u = "block"
        /\ \A u : Starts(ready', u) => Starts(ready, u)
    BY <2>1, <2>2, <2>3, AddedEntry
  <2>5. ~ Busy("block")' /\ \A u : Busy(u)' => Busy(u)
    BY <2>1 DEF Busy
  <2>6. ~ Starts(ready, "block")
    BY <2>2, StartsHolds
  <2>7. Placed("block")'
    BY <2>1, <2>2, <2>4, <2>5, <2>6 DEF Placed
  <2>8. \A u \in Tasks \ {"block"} : Stays(u)
    BY <2>1, <2>4, <2>5 DEF Stays
  <2>9. TypeOK' /\ IsInjective(incoming)'
    BY <2>1, <2>4 DEF PlacesInv, TypeOK, Apart
  <2>. QED
    BY <2>1, <2>4, <2>7, <2>8, <2>9, OneMoves DEF PlacesInv
<1>. QED
  BY <1>1, <1>2

LEMMA PlacesIo ==
    ASSUME PlacesInv, IoStarts \/ IoHandles \/ IoCommand \/ IoTop
    PROVE  PlacesInv'
<1>1. CASE IoStarts \/ IoHandles
  <2>1. /\ First(Turn("io")) /\ ready' = Tail(ready) /\ spc' = "io"
        /\ new' = new \ {"io"} /\ UNCHANGED <<incoming, tasks, chosen, hpc, setup, blocking>>
    BY <1>1 DEF IoStarts, IoHandles, Takes, hubVars
  <2>2. \A u \in Tasks \ {"io"} : Busy(u)' => Busy(u)
    BY <2>1 DEF Busy
  <2>. QED
    BY <2>1, <2>2, TasksAre, TakenAway DEF PlacesInv
<1>2. CASE IoCommand
  <2>1. UNCHANGED <<ready, incoming, tasks, chosen, hpc, new, setup, blocking, spc>>
    BY <1>2 DEF IoCommand, schedVars, hubVars
  <2>. QED
    BY <2>1, NoneMoves DEF PlacesInv, TypeOK
<1>3. CASE IoTop
  <2>1. /\ Busy("io") /\ spc # "check" /\ new' = new \ {"io"} /\ spc' = "check"
        /\ Register("io") /\ UNCHANGED <<ready, blocking, setup>>
    BY <1>3 DEF IoTop, Yield, Busy
  <2>. QED
    BY <2>1, TasksAre, BusyToHub DEF PlacesInv
<1>. QED
  BY <1>1, <1>2, <1>3

LEMMA PlacesHub ==
    ASSUME PlacesInv, HubStep
    PROVE  PlacesInv'
<1>1. CASE HubCollects
  <2>1. UNCHANGED <<new, setup, blocking, spc, incoming, chosen>> /\ chosen = {}
    BY <1>1 DEF HubCollects, PlacesInv, TypeOK
  <2>2. CASE HubStops
    <3>1. UNCHANGED <<tasks, ready>>
      BY <1>1, <2>2 DEF HubCollects
    <3>. QED
      BY <2>1, <3>1, NoneMoves DEF PlacesInv
  <2>3. CASE ~ HubStops
    <3>1. Resume(Expired, {}) /\ hpc' = "select"
      BY <1>1, <2>3 DEF HubCollects
    <3>2. Expired \subseteq tasks
      BY DEF Expired
    <3>. QED
      BY <2>1, <3>1, <3>2, Resumed DEF PlacesInv
  <2>. QED
    BY <2>2, <2>3
<1>2. CASE HubSelects
  <2>1. /\ UNCHANGED <<ready, incoming, tasks, new, setup, blocking, spc>> /\ hpc' = "handle"
        /\ chosen' = WithIo \cup (IF pinged THEN {"pinger"} ELSE {})
    BY <1>2 DEF HubSelects, schedVars
  <2>2. chosen' \subseteq tasks \cup {"pinger"}
    BY <2>1 DEF WithIo
  <2>. QED
    BY <2>1, <2>2, NoneMoves DEF PlacesInv
<1>3. CASE HubHandles
  <2>1. UNCHANGED <<new, setup, blocking, spc>> /\ chosen' = {}
    BY <1>3 DEF HubHandles
  <2>2. chosen \ {"pinger"} \subseteq tasks
    BY DEF PlacesInv, TypeOK
  <2>3. CASE "pinger" \in chosen
    <3>1. Resume(chosen \ {"pinger"}, Range(incoming)) /\ incoming' = <<>>
      BY <1>3, <2>3 DEF HubHandles
    <3>. QED
      BY <2>1, <2>2, <3>1, Resumed DEF PlacesInv
  <2>4. CASE "pinger" \notin chosen
    <3>1. Resume(chosen, {}) /\ incoming' = incoming /\ chosen \subseteq tasks
      BY <1>3, <2>2, <2>4 DEF HubHandles
    <3>. QED
      BY <2>1, <3>1, Resumed DEF PlacesInv
  <2>. QED
    BY <2>3, <2>4
<1>4. CASE HubTimesOut
  <2>1. UNCHANGED <<new, setup, blocking, spc, incoming, chosen>> /\ chosen = {}
    BY <1>4 DEF HubTimesOut, PlacesInv, TypeOK
  <2>2. Resume({"timer"}, {}) /\ {"timer"} \subseteq tasks
    BY <1>4 DEF HubTimesOut
  <2>. QED
    BY <2>1, <2>2, Resumed DEF PlacesInv
<1>. QED
  BY <1>1, <1>2, <1>3, <1>4 DEF HubStep

LEMMA PlacesLaunch ==
    ASSUME PlacesInv, NEW t \in Tasks, Launch(t)
    PROVE  PlacesInv'
<1>1. /\ ready' = ready \o <<Start(t)>> /\ ~ Exists(t) /\ t \in setup.tasks
      /\ UNCHANGED <<incoming, tasks, chosen, hpc, new, setup, blocking, spc>>
  BY DEF Launch, Schedule, hubVars
<1>2. ready \in Seq(Entry) /\ Distinct(ready)
  BY DEF PlacesInv, TypeOK, Apart
<1>3. t \in new /\ Start(t) \notin Range(ready) /\ Turn(t) \notin Range(ready)
  BY <1>1 DEF Exists, Start, Turn
<1>4. ~ Holds(ready, t)
  <2>1. ASSUME NEW i \in DOMAIN ready PROVE ready[i][2] # t
    <3>1. ready[i] \in Entry /\ ready[i] \in Range(ready)
      BY <1>2, <2>1 DEF Range
    <3>. QED
      BY <1>3, <3>1, EntryParts
  <2>. QED
    BY <2>1 DEF Holds
<1>5. Start(t) \in Entry /\ Start(t)[2] = t /\ \A u : Start(t) = Start(u) => t = u
  BY EntryMade
<1>6. /\ ready' \in Seq(Entry) /\ Distinct(ready')
      /\ \A u : Holds(ready', u) => Holds(ready, u) \/ u = t
      /\ \A u : Starts(ready', u) => Starts(ready, u) \/ u = t
  <2>1. /\ ready' \in Seq(Entry) /\ Distinct(ready')
        /\ \A u : Holds(ready', u) => Holds(ready, u) \/ u = Start(t)[2]
        /\ \A u : Starts(ready', u) => Starts(ready, u) \/ Start(t) = Start(u)
    BY <1>1, <1>2, <1>4, <1>5, AddedEntry
  <2>. QED
    BY <1>5, <2>1
<1>7. \A u : Busy(u)' => Busy(u)
  BY <1>1, Zenon DEF Busy
<1>8. Placed(t)'
  <2>1. Placed(t)
    BY ApartParts DEF PlacesInv
  <2>. QED
    BY <1>1, <1>3, <1>6, <1>7, <2>1 DEF Placed
<1>9. \A u \in Tasks \ {t} : Stays(u)
  BY <1>1, <1>6, <1>7 DEF Stays
<1>10. TypeOK' /\ IsInjective(incoming)'
  BY <1>1, <1>6 DEF PlacesInv, TypeOK, Apart
<1>. QED
  BY <1>6, <1>8, <1>9, <1>10, OneMoves DEF PlacesInv

LEMMA PlacesRest ==
    ASSUME PlacesInv,
           \/ Wait \/ Wakes \/ Clear \/ Final \/ CallLater \/ CreateWorker \/ CloseWorker
           \/ Pinged \/ Cancel \/ TimePasses \/ PeerSends \/ UNCHANGED vars
    PROVE  PlacesInv'
<1>1. /\ UNCHANGED <<ready, incoming, tasks, chosen, hpc, new, setup, blocking>>
      /\ spc' \in {"calls", "io"} => spc' = spc
  <2>1. CASE Wait \/ Wakes \/ Clear \/ Final
    BY <2>1 DEF Wait, Wakes, Clear, Final, hubVars
  <2>2. CASE CallLater \/ CreateWorker \/ CloseWorker \/ Pinged
    BY <2>2 DEF CallLater, CreateWorker, CloseWorker, Pinged, schedVars, hubVars
  <2>3. CASE Cancel \/ TimePasses \/ PeerSends \/ UNCHANGED vars
    BY <2>3 DEF Cancel, TimePasses, PeerSends, vars, schedVars, hubVars
  <2>. QED
    BY <2>1, <2>2, <2>3
<1>. QED
  BY <1>1, NoneMoves DEF PlacesInv, TypeOK

LEMMA PlacesInit == Init => PlacesInv
<1>. SUFFICES ASSUME Init PROVE PlacesInv
  OBVIOUS
<1>1. /\ ready = <<>> /\ incoming = <<>> /\ tasks = {} /\ chosen = {} /\ setup \in Setups
      /\ new = setup.tasks /\ spc = "check" /\ blocking = FALSE
  BY DEF Init
<1>2. DOMAIN ready = {} /\ DOMAIN incoming = {} /\ ready \in Seq(Entry) /\ incoming \in Seq(Tasks)
  BY <1>1
<1>3. Distinct(ready) /\ IsInjective(incoming) /\ Range(incoming) = {}
  BY <1>2, Zenon DEF Distinct, IsInjective, Range
<1>4. \A t : ~ Holds(ready, t) /\ ~ Starts(ready, t)
  BY <1>2, Zenon DEF Holds, Starts
<1>5. \A t : ~ Busy(t)
  BY <1>1 DEF Busy
<1>6. Apart
  BY <1>1, <1>3, <1>4, <1>5 DEF Apart
<1>7. TypeOK
  BY <1>1, <1>2, RecocoAssumption DEF TypeOK
<1>. QED
  BY <1>6, <1>7 DEF PlacesInv

LEMMA PlacesStep == PlacesInv /\ [Next]_vars => PlacesInv'
<1>. SUFFICES ASSUME PlacesInv, [Next]_vars PROVE PlacesInv'
  OBVIOUS
<1>1. setup.tasks \subseteq Tasks
  BY RecocoAssumption DEF PlacesInv, TypeOK
<1>2. CASE SchedulerStep
  BY <1>1, <1>2, PlacesRest, PlacesStart, PlacesLater, PlacesTimer, PlacesBlock, PlacesIo
     DEF SchedulerStep
<1>. QED
  BY <1>2, PlacesHub, PlacesBlock, PlacesLaunch, PlacesRest DEF Next

\* A set of which all elements are equal counts for one at most.
LEMMA AtMostOneElement ==
    ASSUME NEW S, \A x, y \in S : x = y
    PROVE  Cardinality(S) = IF S = {} THEN 0 ELSE 1
<1>1. S = {} \/ \E x : S = {x}
  OBVIOUS
<1>. QED
  BY <1>1, FS_EmptySet, FS_Singleton

LEMMA PlacesOne == PlacesInv => OnePlace
<1>. SUFFICES ASSUME PlacesInv, NEW t \in Tasks PROVE Places(t) <= 1
  BY DEF OnePlace
<1>1. PICK A, B, C : /\ A = {i \in DOMAIN ready : ready[i] = Turn(t)}
                     /\ B = {i \in DOMAIN incoming : incoming[i] = t}
                     /\ C = tasks \cap {t}
  OBVIOUS
<1>2. A # {} => Holds(ready, t)
  BY <1>1, EntryMade DEF Holds
<1>3. B # {} => t \in Range(incoming)
  BY <1>1 DEF Range
<1>4. \A x, y \in A : x = y
  BY <1>1, EntryMade DEF PlacesInv, Apart, Distinct
<1>5. \A x, y \in B : x = y
  BY <1>1 DEF PlacesInv, Apart, IsInjective
<1>6. \A x, y \in C : x = y
  BY <1>1
<1>7. /\ Cardinality(A) = IF A = {} THEN 0 ELSE 1
      /\ Cardinality(B) = IF B = {} THEN 0 ELSE 1
      /\ Cardinality(C) = IF C = {} THEN 0 ELSE 1
  BY <1>4, <1>5, <1>6, AtMostOneElement
<1>8. Placed(t)
  BY ApartParts DEF PlacesInv
<1>9. /\ A # {} => B = {} /\ C = {} /\ ~ (t = "block" /\ blocking)
      /\ B # {} => C = {} /\ ~ (t = "block" /\ blocking)
      /\ C # {} => ~ (t = "block" /\ blocking)
  BY <1>1, <1>2, <1>3, <1>8 DEF Placed, Busy
<1>10. Places(t) = Cardinality(A) + Cardinality(B) + Cardinality(C)
                     + (IF t = "block" /\ blocking THEN 1 ELSE 0)
  BY <1>1 DEF Places
<1>. QED
  BY <1>7, <1>9, <1>10

\* No task is ever in two places, whichever tasks run together and however
\* often they are called: the scheduler, the hub and the threads of blocking
\* calls never resume one that another has resumed.
THEOREM TasksInOnePlace == Spec => []OnePlace
<1>1. Init => PlacesInv
  BY PlacesInit
<1>2. PlacesInv /\ [Next]_vars => PlacesInv'
  BY PlacesStep
<1>3. PlacesInv => OnePlace
  BY PlacesOne
<1>. QED
  BY <1>1, <1>2, <1>3, PTL DEF Spec

-----------------------------------------------------------------------------
(* Sockets.                                                                *)

Worker == [sock : {"none", "open", "closed"}, in : BOOLEAN, buf : Int, inbox : Int, eof : BOOLEAN]
Selected == [p : BOOLEAN, r : BOOLEAN, w : BOOLEAN]

SockType == worker \in Worker /\ reg \in Selected /\ got \in Selected
            /\ commands \in Seq({"add", "close"})

\* The worker is one of _workers only while its socket is open, its adding is
\* the first command of all, and outside the loop's turn nothing is selected on
\* but an open socket.
SockInv ==
    /\ SockType
    /\ worker.in => worker.sock = "open"
    /\ reg.r /\ spc # "io" => worker.sock = "open"
    /\ reg.r \/ reg.w \/ got.r \/ got.w \/ commands # <<>> => worker.sock # "none"
    /\ \A i \in DOMAIN commands : commands[i] = "add" => i = 1 /\ worker.sock = "open"

LEMMA SockInit == Init => SockInv
<1>. SUFFICES ASSUME Init PROVE SockInv
  OBVIOUS
<1>1. /\ commands = <<>> /\ reg = NoSelect /\ got = NoSelect
      /\ worker = [sock |-> "none", in |-> FALSE, buf |-> 0, inbox |-> 0, eof |-> FALSE]
  BY DEF Init
<1>2. worker \in Worker /\ worker.in = FALSE
  BY <1>1 DEF Worker
<1>3. NoSelect \in Selected /\ NoSelect.r = FALSE /\ NoSelect.w = FALSE
  BY DEF NoSelect, Selected
<1>4. commands \in Seq({"add", "close"}) /\ DOMAIN commands = {}
  BY <1>1
<1>. QED
  BY <1>1, <1>2, <1>3, <1>4 DEF SockInv, SockType

\* The fields of a worker, before and after an update.
LEMMA WorkerFields ==
    ASSUME NEW w \in Worker
    PROVE  /\ w.sock \in {"none", "open", "closed"} /\ w.in \in BOOLEAN
           /\ w.buf \in Int /\ w.inbox \in Int
BY DEF Worker

LEMMA BufWritten ==
    ASSUME NEW w \in Worker, NEW n \in Int, NEW v, v = [w EXCEPT !.buf = n]
    PROVE  v \in Worker /\ v.sock = w.sock /\ v.in = w.in
BY DEF Worker

LEMMA InboxWritten ==
    ASSUME NEW w \in Worker, NEW n \in Int, NEW v, v = [w EXCEPT !.inbox = n]
    PROVE  v \in Worker /\ v.sock = w.sock /\ v.in = w.in
BY DEF Worker

LEMMA EofWritten ==
    ASSUME NEW w \in Worker, NEW v, v = [w EXCEPT !.eof = TRUE]
    PROVE  v \in Worker /\ v.sock = w.sock /\ v.in = w.in
BY DEF Worker

LEMMA SockOpened ==
    ASSUME NEW w \in Worker, NEW v, v = [w EXCEPT !.sock = "open"]
    PROVE  v \in Worker /\ v.sock = "open" /\ v.in = w.in
BY DEF Worker

LEMMA WorkerAdded ==
    ASSUME NEW w \in Worker, NEW v, v = [w EXCEPT !.in = TRUE]
    PROVE  v \in Worker /\ v.sock = w.sock /\ v.in = TRUE
BY DEF Worker

LEMMA WorkerClosed ==
    ASSUME NEW w \in Worker, NEW v, v = [w EXCEPT !.in = FALSE, !.sock = "closed"]
    PROVE  v \in Worker /\ v.sock = "closed" /\ v.in = FALSE
BY DEF Worker

LEMMA SelectedParts ==
    /\ \A a, b, c \in BOOLEAN : /\ [p |-> a, r |-> b, w |-> c] \in Selected
                                /\ [p |-> a, r |-> b, w |-> c].r = b
                                /\ [p |-> a, r |-> b, w |-> c].w = c
    /\ \A s \in Selected : s.p \in BOOLEAN /\ s.r \in BOOLEAN /\ s.w \in BOOLEAN
BY DEF Selected

\* The steps that leave the sockets alone and do not leave the loop's turn.
LEMMA SockSame ==
    ASSUME SockInv, UNCHANGED <<worker, reg, got, commands>>, spc = "io" => spc' = "io"
    PROVE  SockInv'
BY DEF SockInv, SockType

\* The steps that change only the buffers of the worker.
LEMMA SockBuffers ==
    ASSUME SockInv, UNCHANGED <<reg, got, commands, spc>>, worker' \in Worker,
           worker'.sock = worker.sock, worker'.in = worker.in
    PROVE  SockInv'
BY DEF SockInv, SockType

\* Another command to close.
LEMMA CommandAdded ==
    ASSUME SockInv, NEW q, q = Append(commands, "close")
    PROVE  /\ q \in Seq({"add", "close"})
           /\ \A i \in DOMAIN q : q[i] = "add" => i = 1 /\ worker.sock = "open"
<1>1. /\ q \in Seq({"add", "close"}) /\ Len(commands) \in Nat /\ DOMAIN commands = 1 .. Len(commands)
      /\ DOMAIN q = 1 .. Len(commands) + 1
      /\ \A i \in 1 .. Len(commands) : q[i] = commands[i]
      /\ q[Len(commands) + 1] = "close"
  BY DEF SockInv, SockType
<1>2. \A i \in DOMAIN q : i \in DOMAIN commands \/ i = Len(commands) + 1
  BY <1>1
<1>. QED
  BY <1>1, <1>2 DEF SockInv

LEMMA SockIoHandles ==
    ASSUME SockInv, IoHandles
    PROVE  SockInv'
<1>0. /\ worker \in Worker /\ reg \in Selected /\ got \in Selected
      /\ worker.in \in BOOLEAN /\ worker.buf \in Int /\ worker.inbox \in Int
      /\ got.r \in BOOLEAN /\ got.w \in BOOLEAN
  BY WorkerFields, SelectedParts DEF SockInv, SockType
<1>1. PICK n : n = IF got.r THEN worker.inbox ELSE 0
  OBVIOUS
<1>2. PICK answers \in 0 .. n, fails \in {FALSE, got.r \/ got.w} :
      \E l \in IF got.w /\ ~ fails /\ worker.buf > 0 THEN 1 .. worker.buf ELSE {0} :
        /\ worker' = [worker EXCEPT !.inbox = @ - n, !.buf = @ + answers - l, !.in = @ /\ ~ fails]
        /\ commands' = IF fails THEN Append(commands, "close") ELSE commands
  BY <1>1 DEF IoHandles
<1>3. PICK l \in IF got.w /\ ~ fails /\ worker.buf > 0 THEN 1 .. worker.buf ELSE {0} :
        worker' = [worker EXCEPT !.inbox = @ - n, !.buf = @ + answers - l, !.in = @ /\ ~ fails]
  BY <1>2, Zenon
<1>4. n \in Int /\ answers \in Int /\ l \in Int
  <2>1. n \in Int
    BY <1>0, <1>1
  <2>2. l \in Int
    BY <1>0, <1>3
  <2>. QED
    BY <2>1, <2>2
<1>11. fails \in BOOLEAN /\ (fails => got.r \/ got.w)
  BY <1>2, Zenon
<1>5. PICK i, b, k : i = worker.inbox - n /\ b = worker.buf + answers - l /\ k = (worker.in /\ ~ fails)
  OBVIOUS
<1>6. i \in Int /\ b \in Int /\ k \in BOOLEAN
  BY <1>0, <1>4, <1>5
<1>7. worker' = [worker EXCEPT !.inbox = i, !.buf = b, !.in = k]
  BY <1>3, <1>5
<1>8. worker' \in Worker /\ worker'.sock = worker.sock /\ worker'.in = k
  <2>1. PICK w, v : w \in Worker /\ w = worker /\ v = worker'
    BY <1>0
  <2>2. v = [w EXCEPT !.inbox = i, !.buf = b, !.in = k]
    BY <1>7, <2>1
  <2>3. w \in Worker
    BY <2>1
  <2>4. v \in Worker /\ v.sock = w.sock /\ v.in = k
    BY ONLY <2>3, <1>6, <2>2 DEF Worker
  <2>. QED
    BY <2>1, <2>4
<1>9. /\ got' = NoSelect /\ reg' = reg /\ spc' = "io"
      /\ NoSelect \in Selected /\ NoSelect.r = FALSE /\ NoSelect.w = FALSE
  BY SelectedParts DEF IoHandles, NoSelect
<1>10. /\ commands' \in Seq({"add", "close"})
       /\ \A j \in DOMAIN commands' : commands'[j] = "add" => j = 1 /\ worker.sock = "open"
       /\ commands' # <<>> => worker.sock # "none"
  <2>1. CASE fails
    BY <1>2, <1>11, <2>1, CommandAdded DEF SockInv
  <2>2. CASE ~ fails
    BY <1>2, <2>2 DEF SockInv, SockType
  <2>. QED
    BY <2>1, <2>2
<1>. QED
  BY <1>0, <1>5, <1>8, <1>9, <1>10 DEF SockInv, SockType

LEMMA SockCommand ==
    ASSUME SockInv, IoCommand
    PROVE  SockInv'
<1>0. /\ commands \in Seq({"add", "close"}) /\ commands # <<>> /\ worker \in Worker
      /\ worker.sock # "none" /\ worker.sock \in {"none", "open", "closed"}
  BY WorkerFields DEF SockInv, SockType, IoCommand
<1>1. /\ worker' = Carried(worker, commands[1]) /\ commands' = Tail(commands)
      /\ UNCHANGED <<reg, got, spc>> /\ spc = "io"
  BY DEF IoCommand, schedVars
<1>2. /\ commands' \in Seq({"add", "close"}) /\ Len(commands) \in Nat /\ 1 \in DOMAIN commands
      /\ DOMAIN commands' = 1 .. Len(commands) - 1 /\ DOMAIN commands = 1 .. Len(commands)
      /\ \A i \in DOMAIN commands' : commands'[i] = commands[i + 1]
  BY <1>0, <1>1
<1>3. \A i \in DOMAIN commands' : i + 1 \in DOMAIN commands /\ i + 1 # 1
  BY <1>2
<1>4. \A i \in DOMAIN commands' : commands'[i] # "add"
  BY <1>2, <1>3 DEF SockInv
<1>5. /\ worker' \in Worker /\ worker'.sock # "none"
      /\ worker'.in => worker'.sock = "open"
  <2>1. CASE commands[1] = "add"
    <3>1. worker.sock = "open" /\ worker' = [worker EXCEPT !.in = TRUE]
      BY <1>1, <1>2, <2>1 DEF SockInv, Carried
    <3>. QED
      BY <1>0, <3>1, WorkerAdded
  <2>2. CASE commands[1] # "add"
    <3>1. worker' = [worker EXCEPT !.in = FALSE, !.sock = "closed"]
      BY <1>1, <2>2 DEF Carried
    <3>. QED
      BY <1>0, <3>1, WorkerClosed
  <2>. QED
    BY <2>1, <2>2
<1>. QED
  BY <1>1, <1>2, <1>4, <1>5 DEF SockInv, SockType

LEMMA SockTop ==
    ASSUME SockInv, IoTop
    PROVE  SockInv'
<1>1. /\ reg' = Watch(worker) /\ UNCHANGED <<worker, commands, got>> /\ worker.in \in BOOLEAN
      /\ worker \in Worker
  BY WorkerFields DEF IoTop, SockInv, SockType
<1>2. PICK k \in BOOLEAN : k = (worker.in /\ worker.buf > 0)
  OBVIOUS
<1>3. reg' \in Selected /\ reg'.r = worker.in /\ reg'.w = k
  BY <1>1, <1>2, SelectedParts DEF Watch
<1>. QED
  BY <1>1, <1>2, <1>3 DEF SockInv, SockType

LEMMA SockSelects ==
    ASSUME SockInv, HubSelects
    PROVE  SockInv'
<1>1. UNCHANGED <<worker, reg, commands, spc>> /\ (got' = Io \/ got' = got)
  BY DEF HubSelects, schedVars
<1>2. reg \in Selected /\ reg.p \in BOOLEAN /\ reg.r \in BOOLEAN /\ reg.w \in BOOLEAN
  BY SelectedParts DEF SockInv, SockType
<1>3. PICK a, b \in BOOLEAN : /\ a = (reg.p /\ ioPing)
                              /\ b = (reg.r /\ (worker.inbox > 0 \/ worker.eof))
  OBVIOUS
<1>4. Io = [p |-> a, r |-> b, w |-> reg.w]
  BY <1>3 DEF Io
<1>5. Io \in Selected /\ Io.r = b /\ Io.w = reg.w
  BY <1>2, <1>3, <1>4, SelectedParts
<1>. QED
  BY <1>1, <1>3, <1>5 DEF SockInv, SockType

LEMMA SockWorkers ==
    ASSUME SockInv, CreateWorker \/ CloseWorker
    PROVE  SockInv'
<1>0. worker \in Worker /\ UNCHANGED <<reg, got, spc>>
  BY DEF SockInv, SockType, CreateWorker, CloseWorker, schedVars
<1>1. CASE CreateWorker
  <2>1. /\ worker.sock = "none" /\ worker' = [worker EXCEPT !.sock = "open"]
        /\ commands' = Append(commands, "add")
    BY <1>1 DEF CreateWorker
  <2>2. commands = <<>>
    BY <2>1 DEF SockInv
  <2>3. /\ commands' \in Seq({"add", "close"}) /\ DOMAIN commands' = {1}
    BY <2>1, <2>2
  <2>4. worker' \in Worker /\ worker'.sock = "open" /\ worker'.in = worker.in
    BY <1>0, <2>1, SockOpened
  <2>. QED
    BY <1>0, <2>1, <2>3, <2>4 DEF SockInv, SockType
<1>2. CASE CloseWorker
  <2>1. worker.sock = "open" /\ UNCHANGED worker /\ commands' = Append(commands, "close")
    BY <1>2 DEF CloseWorker, CloseQueued
  <2>2. /\ commands' \in Seq({"add", "close"})
        /\ \A i \in DOMAIN commands' : commands'[i] = "add" => i = 1 /\ worker.sock = "open"
    BY <2>1, CommandAdded
  <2>. QED
    BY <1>0, <2>1, <2>2 DEF SockInv, SockType
<1>. QED
  BY <1>1, <1>2

LEMMA SockStep == SockInv /\ [Next]_vars => SockInv'
<1>. SUFFICES ASSUME SockInv, [Next]_vars PROVE SockInv'
  OBVIOUS
<1>0. worker \in Worker
  BY DEF SockInv, SockType
<1>1. CASE LaterCalls
  <2>1. UNCHANGED <<reg, got, commands, spc>>
    BY <1>1 DEF LaterCalls
  <2>2. worker' = worker \/ worker' = [worker EXCEPT !.buf = @ + 1]
    BY <1>1 DEF LaterCalls
  <2>3. worker.buf + 1 \in Int
    BY <1>0, WorkerFields
  <2>4. worker' \in Worker /\ worker'.sock = worker.sock /\ worker'.in = worker.in
    BY <1>0, <2>2, <2>3, BufWritten
  <2>. QED
    BY <2>1, <2>4, SockBuffers
<1>2. CASE PeerSends
  <2>1. UNCHANGED <<reg, got, commands, spc>>
    BY <1>2 DEF PeerSends, schedVars
  <2>2. worker' = [worker EXCEPT !.inbox = @ + 1] \/ worker' = [worker EXCEPT !.eof = TRUE]
    BY <1>2 DEF PeerSends
  <2>3. worker.inbox + 1 \in Int
    BY <1>0, WorkerFields
  <2>4. worker' \in Worker /\ worker'.sock = worker.sock /\ worker'.in = worker.in
    BY <1>0, <2>2, <2>3, InboxWritten, EofWritten
  <2>. QED
    BY <2>1, <2>4, SockBuffers
<1>3. CASE Wait \/ Wakes \/ Clear \/ Final \/ (\E t \in setup.tasks : StartRuns(t))
  <2>1. UNCHANGED <<worker, reg, got, commands>> /\ (spc # "io" \/ spc' = spc)
    BY <1>3 DEF Wait, Wakes, Clear, Final, StartRuns, ioVars
  <2>. QED
    BY <2>1, SockSame
<1>4. CASE LaterWakes \/ LaterWaits \/ TimerRuns \/ BlockRuns \/ IoStarts
  <2>1. UNCHANGED <<worker, reg, got, commands>> /\ spc # "io"
    BY <1>4 DEF LaterWakes, LaterWaits, TimerRuns, BlockRuns, IoStarts, Takes, First, ioVars
  <2>. QED
    BY <2>1, SockSame
<1>5. CASE HubCollects \/ HubHandles \/ HubTimesOut \/ BlockReturns \/ (\E t \in Tasks : Launch(t))
  <2>1. UNCHANGED <<worker, reg, got, commands, spc>>
    BY <1>5 DEF HubCollects, HubHandles, HubTimesOut, BlockReturns, Launch, ioVars
  <2>. QED
    BY <2>1, SockSame
<1>6. CASE CallLater \/ Pinged \/ Cancel \/ TimePasses \/ UNCHANGED vars
  <2>1. UNCHANGED <<worker, reg, got, commands, spc>>
    BY <1>6 DEF CallLater, Pinged, Cancel, TimePasses, vars, schedVars, ioVars
  <2>. QED
    BY <2>1, SockSame
<1>. QED
  BY <1>1, <1>2, <1>3, <1>4, <1>5, <1>6, SockIoHandles, SockCommand, SockTop, SockSelects,
     SockWorkers DEF Next, SchedulerStep, HubStep

\* The hub never waits on a closed socket: RecocoIOLoop closes sockets only in
\* its own turn, and in its turn it is not asleep in the hub.
THEOREM ClosedNeverSelected == Spec => []ClosedNotSelected
<1>1. Init => PlacesInv /\ SockInv
  BY PlacesInit, SockInit
<1>2. PlacesInv /\ SockInv /\ [Next]_vars => PlacesInv' /\ SockInv'
  BY PlacesStep, SockStep
<1>3. PlacesInv /\ SockInv => ClosedNotSelected
  <2>. SUFFICES ASSUME PlacesInv, SockInv, "io" \in tasks, reg.r PROVE worker.sock # "closed"
    BY DEF ClosedNotSelected
  <2>1. spc # "io"
    BY TasksAre DEF PlacesInv, Apart, Busy
  <2>. QED
    BY <2>1 DEF SockInv
<1>. QED
  BY <1>1, <1>2, <1>3, PTL DEF Spec

=============================================================================
