---------------------------- MODULE EventsProofs ----------------------------
(***************************************************************************)
(* Theorems about Events, for every set of components, sinks and           *)
(* priorities and every bound: raiseEvent skips no handler, and every sink *)
(* is bound to each of its components once, as soon as they are there.     *)
(***************************************************************************)
EXTENDS Events, FiniteSetTheorems, TLAPS

-----------------------------------------------------------------------------
(* The invariants.                                                         *)

Entry == [pri : Nat, who : Sinks \cup {Other}, once : BOOLEAN, eid : Nat \ {0}]
Raising == [name : Names, live : BOOLEAN, list : Seq(Entry), next : Nat \ {0}, inside : Nat,
            called : Seq(Nat), start : SUBSET Nat, known : SUBSET Names]

\* The types of the state.
TypeOK ==
    /\ components \subseteq Names /\ IsFiniteSet(components) /\ unheard \subseteq Names
    /\ handlers \in Seq(Entry) /\ frames \in Seq(Raising)
    /\ wants \in [Sinks -> SUBSET Names] /\ bound \in [Sinks -> Seq(Names)]
    /\ launched \subseteq Sinks /\ eid \in Nat

\* The entries of a list have eids that were given out, to those o says.
OwnedBy(o, list) ==
    \A i \in 1 .. Len(list) : list[i].eid \in DOMAIN o /\ list[i].who = o[list[i].eid]
Distinct(list) == \A i, j \in 1 .. Len(list) : list[i].eid = list[j].eid => i = j

\* No two listeners have one eid, and only other listeners are in the middle of a call.
Owned(o) ==
    /\ o \in [1 .. eid -> Sinks \cup {Other}]
    /\ OwnedBy(o, handlers) /\ Distinct(handlers)
    /\ \A i \in 1 .. Len(frames) :
         /\ OwnedBy(o, frames[i].list)
         /\ frames[i].inside # 0 => frames[i].inside \in 1 .. eid /\ o[frames[i].inside] = Other
OwnersKnown == \E o \in [1 .. eid -> Sinks \cup {Other}] : Owned(o)

\* What a loop goes over, with H the list of listeners.
Over(f, H) == IF f.live THEN H ELSE f.list

\* Every handler that was there when the event was raised has been called, or the
\* loop has still to come to it.
Pending(f, H) ==
    \A x \in f.start : \/ \E i \in 1 .. Len(f.called) : f.called[i] = x
                       \/ \E i \in f.next .. Len(Over(f, H)) : Over(f, H)[i].eid = x
AllPending == \A i \in 1 .. Len(frames) : Pending(frames[i], handlers)

\* A sink listens to no component twice, and to all that it does not wait for.
BoundPart ==
    \A s \in Sinks : /\ IsInjective(bound[s]) /\ ToSet(bound[s]) \cap wants[s] = {}
                     /\ ToSet(bound[s]) \cup wants[s] = Wants[s]

\* A sink that waits for something is among the listeners.
Waiting(s) == s \in launched /\ wants[s] # {}
Listening == \A s \in Sinks : Waiting(s) => \E i \in 1 .. Len(handlers) : handlers[i].who = s

\* An event that knows of a component which a sink still waits for has that sink
\* before it.
Before(f, s, H) ==
    \E i \in 1 .. Len(H) : /\ H[i].who = s /\ H[i].eid \in f.start
                           /\ \A j \in 1 .. Len(f.called) : f.called[j] # H[i].eid
Told(f, H) ==
    /\ f.name \in f.known /\ f.known \subseteq components
    /\ \A s \in launched : wants[s] \cap f.known # {} => Before(f, s, H)
AllTold == \A i \in 1 .. Len(frames) : Told(frames[i], handlers)

\* A component that a sink still waits for is the one of an event under way,
\* unless it went unheard.
Announced ==
    \A s \in launched : \A n \in wants[s] \cap (components \ unheard) :
        \E i \in 1 .. Len(frames) : frames[i].name = n
WaitInv == Listening /\ AllTold /\ Announced

-----------------------------------------------------------------------------
(* The lists of listeners and of events.                                   *)

\* A part of a sequence, and two sequences put together.
LEMMA PartOf ==
    ASSUME NEW S, NEW q \in Seq(S), NEW m \in 1 .. Len(q) + 1, NEW n \in m - 1 .. Len(q)
    PROVE  /\ SubSeq(q, m, n) \in Seq(S) /\ Len(SubSeq(q, m, n)) = (n - m) + 1
           /\ \A i \in 1 .. (n - m) + 1 : SubSeq(q, m, n)[i] = q[(m + i) - 1]
<1>1. Len(q) \in Nat /\ m \in Nat /\ n \in Nat /\ n <= Len(q) /\ m - 1 <= n /\ 1 <= m
  OBVIOUS
<1>. QED
  BY <1>1

LEMMA TogetherParts ==
    ASSUME NEW S, NEW a \in Seq(S), NEW b \in Seq(S)
    PROVE  /\ a \o b \in Seq(S) /\ Len(a \o b) = Len(a) + Len(b)
           /\ Len(a) \in Nat /\ Len(b) \in Nat
           /\ \A i \in 1 .. Len(a) : (a \o b)[i] = a[i]
           /\ \A i \in 1 .. Len(b) : (a \o b)[Len(a) + i] = b[i]
OBVIOUS

\* M is L with e put in at k.
Grown(L, M, e, k) ==
    /\ M \in Seq(Entry) /\ Len(M) = Len(L) + 1 /\ k \in 1 .. Len(M) /\ M[k] = e
    /\ \A i \in 1 .. k - 1 : M[i] = L[i]
    /\ \A i \in k .. Len(L) : M[i + 1] = L[i]

LEMMA GrownJoin ==
    ASSUME NEW L \in Seq(Entry), NEW k \in 1 .. Len(L) + 1, NEW e \in Entry,
           NEW a \in Seq(Entry), NEW u \in Seq(Entry), NEW b \in Seq(Entry),
           Len(a) = k - 1, \A i \in 1 .. k - 1 : a[i] = L[i], Len(u) = 1, u[1] = e,
           Len(b) = (Len(L) - k) + 1, \A i \in 1 .. (Len(L) - k) + 1 : b[i] = L[(k + i) - 1]
    PROVE  Grown(L, (a \o u) \o b, e, k)
<1>. DEFINE c == a \o u
            d == c \o b
<1>1. Len(L) \in Nat /\ k \in Nat /\ 1 <= k /\ k <= Len(L) + 1
  OBVIOUS
<1>2. c \in Seq(Entry) /\ Len(c) = k /\ c[k] = e /\ \A i \in 1 .. k - 1 : c[i] = L[i]
  <2>1. /\ c \in Seq(Entry) /\ Len(c) = Len(a) + Len(u)
        /\ \A i \in 1 .. Len(a) : c[i] = a[i]
        /\ \A i \in 1 .. Len(u) : c[Len(a) + i] = u[i]
    BY ONLY a \in Seq(Entry), u \in Seq(Entry), TogetherParts
  <2>. HIDE DEF c
  <2>2. 1 \in 1 .. Len(u) /\ Len(a) + 1 = k /\ Len(a) + Len(u) = k
    BY <1>1
  <2>. QED
    BY <2>1, <2>2
<1>. HIDE DEF c
<1>3. /\ d \in Seq(Entry) /\ Len(d) = Len(L) + 1
      /\ \A i \in 1 .. k : d[i] = c[i]
      /\ \A i \in 1 .. Len(b) : d[k + i] = b[i]
  <2>1. /\ d \in Seq(Entry) /\ Len(d) = Len(c) + Len(b)
        /\ \A i \in 1 .. Len(c) : d[i] = c[i]
        /\ \A i \in 1 .. Len(b) : d[Len(c) + i] = b[i]
    <3>1. c \in Seq(Entry)
      BY <1>2
    <3>. QED
      BY ONLY <3>1, b \in Seq(Entry), TogetherParts
  <2>. HIDE DEF d
  <2>2. Len(c) + Len(b) = Len(L) + 1
    BY <1>1, <1>2
  <2>. QED
    BY <1>2, <2>1, <2>2
<1>. HIDE DEF d
<1>4. ASSUME NEW i \in k .. Len(L) PROVE d[i + 1] = L[i]
  <2>1. /\ (i - k) + 1 \in 1 .. Len(b) /\ k + ((i - k) + 1) = i + 1
        /\ (k + ((i - k) + 1)) - 1 = i /\ (i - k) + 1 \in 1 .. (Len(L) - k) + 1
    BY <1>1
  <2>2. b[(i - k) + 1] = L[i]
    BY <2>1
  <2>. QED
    BY <1>3, <2>1, <2>2
<1>5. ASSUME NEW i \in 1 .. k - 1 PROVE d[i] = L[i]
  <2>1. i \in 1 .. k
    BY <1>1
  <2>. QED
    BY <1>2, <1>3, <2>1
<1>6. k \in 1 .. k /\ k \in 1 .. Len(d)
  BY <1>1, <1>3
<1>7. Grown(L, d, e, k)
  BY <1>2, <1>3, <1>4, <1>5, <1>6 DEF Grown
<1>. QED
  BY <1>7 DEF d, c

\* addListener puts the entry in somewhere and keeps the order of the others.
LEMMA InsertedParts ==
    ASSUME NEW list \in Seq(Entry), NEW e \in Entry
    PROVE  \E k \in 1 .. Len(list) + 1 : Grown(list, Inserted(list, e), e, k)
<1>. DEFINE P == {i \in DOMAIN list : list[i].pri >= e.pri}
            k == Cardinality(P) + 1
<1>1. Len(list) \in Nat /\ P \in SUBSET (1 .. Len(list))
  OBVIOUS
<1>2. k \in 1 .. Len(list) + 1
  <2>. HIDE DEF P
  <2>1. IsFiniteSet(1 .. Len(list)) /\ Cardinality(1 .. Len(list)) = Len(list)
    BY <1>1, FS_Interval
  <2>2. Cardinality(P) <= Len(list) /\ Cardinality(P) \in Nat
    BY <1>1, <2>1, FS_Subset, FS_CardinalityType
  <2>. QED
    BY <1>1, <2>2
<1>3. Inserted(list, e) = InsertAt(list, k, e)
  BY DEF Inserted
<1>. HIDE DEF P, k
<1>. DEFINE a == SubSeq(list, 1, k - 1)
            b == SubSeq(list, k, Len(list))
            u == <<e>>
<1>4. /\ k - 1 \in 1 - 1 .. Len(list) /\ 1 \in 1 .. Len(list) + 1
      /\ Len(list) \in k - 1 .. Len(list) /\ ((k - 1) - 1) + 1 = k - 1
      /\ \A i \in 1 .. k - 1 : (1 + i) - 1 = i
  BY <1>1, <1>2
<1>5. a \in Seq(Entry) /\ Len(a) = k - 1 /\ \A i \in 1 .. k - 1 : a[i] = list[i]
  BY <1>4, PartOf
<1>6. /\ b \in Seq(Entry) /\ Len(b) = (Len(list) - k) + 1
      /\ \A i \in 1 .. (Len(list) - k) + 1 : b[i] = list[(k + i) - 1]
  BY <1>2, <1>4, PartOf
<1>7. u \in Seq(Entry) /\ Len(u) = 1 /\ u[1] = e
  OBVIOUS
<1>8. Inserted(list, e) = (a \o u) \o b
  BY <1>3 DEF InsertAt
<1>. HIDE DEF a, b, u
<1>9. Grown(list, (a \o u) \o b, e, k)
  <2>1. a \in Seq(Entry) /\ b \in Seq(Entry) /\ u \in Seq(Entry)
    BY <1>5, <1>6, <1>7
  <2>. QED
    BY ONLY list \in Seq(Entry), e \in Entry, <2>1, <1>2, <1>5, <1>6, <1>7, GrownJoin
<1>. QED
  BY <1>2, <1>8, <1>9

\* M is L without the entry at k.
Shrunk(L, M, k) ==
    /\ M \in Seq(Entry) /\ k \in 1 .. Len(L) /\ Len(M) = Len(L) - 1
    /\ \A i \in 1 .. k - 1 : M[i] = L[i]
    /\ \A i \in k + 1 .. Len(L) : M[i - 1] = L[i]

LEMMA ShrunkJoin ==
    ASSUME NEW L \in Seq(Entry), NEW k \in 1 .. Len(L),
           NEW a \in Seq(Entry), NEW b \in Seq(Entry),
           Len(a) = k - 1, \A i \in 1 .. k - 1 : a[i] = L[i],
           Len(b) = Len(L) - k, \A i \in 1 .. Len(L) - k : b[i] = L[k + i]
    PROVE  Shrunk(L, a \o b, k)
<1>. DEFINE d == a \o b
<1>1. Len(L) \in Nat /\ k \in Nat /\ 1 <= k /\ k <= Len(L)
  OBVIOUS
<1>2. /\ d \in Seq(Entry) /\ Len(d) = Len(L) - 1
      /\ \A i \in 1 .. k - 1 : d[i] = a[i]
      /\ \A i \in 1 .. Len(b) : d[(k - 1) + i] = b[i]
  <2>1. /\ d \in Seq(Entry) /\ Len(d) = Len(a) + Len(b)
        /\ \A i \in 1 .. Len(a) : d[i] = a[i]
        /\ \A i \in 1 .. Len(b) : d[Len(a) + i] = b[i]
    BY ONLY a \in Seq(Entry), b \in Seq(Entry), TogetherParts
  <2>. HIDE DEF d
  <2>2. Len(a) + Len(b) = Len(L) - 1
    BY <1>1
  <2>. QED
    BY <2>1, <2>2
<1>. HIDE DEF d
<1>3. ASSUME NEW i \in k + 1 .. Len(L) PROVE d[i - 1] = L[i]
  <2>1. /\ i - k \in 1 .. Len(b) /\ (k - 1) + (i - k) = i - 1 /\ k + (i - k) = i
        /\ i - k \in 1 .. Len(L) - k
    BY <1>1
  <2>2. b[i - k] = L[i]
    BY <2>1
  <2>. QED
    BY <1>2, <2>1, <2>2
<1>4. Shrunk(L, d, k)
  BY <1>2, <1>3 DEF Shrunk
<1>. QED
  BY <1>4 DEF d

\* removeListener takes out an entry with the eid, if there is one.
LEMMA WithoutParts ==
    ASSUME handlers \in Seq(Entry), NEW e
    PROVE  \/ /\ Without(e) = handlers
              /\ \A i \in 1 .. Len(handlers) : handlers[i].eid # e
           \/ \E k \in 1 .. Len(handlers) :
                Shrunk(handlers, Without(e), k) /\ handlers[k].eid = e
<1>1. CASE e \in Eids(handlers)
  <2>. DEFINE k == CHOOSE i \in DOMAIN handlers : handlers[i].eid = e
              a == SubSeq(handlers, 1, k - 1)
              b == SubSeq(handlers, k + 1, Len(handlers))
  <2>1. k \in 1 .. Len(handlers) /\ handlers[k].eid = e
    BY <1>1 DEF Eids
  <2>2. Without(e) = a \o b
    BY <1>1 DEF Without, RemoveAt
  <2>. HIDE DEF k
  <2>3. /\ k - 1 \in 1 - 1 .. Len(handlers) /\ 1 \in 1 .. Len(handlers) + 1
        /\ ((k - 1) - 1) + 1 = k - 1 /\ \A i \in 1 .. k - 1 : (1 + i) - 1 = i
        /\ k + 1 \in 1 .. Len(handlers) + 1 /\ Len(handlers) \in (k + 1) - 1 .. Len(handlers)
        /\ (Len(handlers) - (k + 1)) + 1 = Len(handlers) - k
        /\ \A i \in 1 .. Len(handlers) - k : ((k + 1) + i) - 1 = k + i
    <3>1. Len(handlers) \in Nat
      OBVIOUS
    <3>. QED
      BY <2>1, <3>1
  <2>4. a \in Seq(Entry) /\ Len(a) = k - 1 /\ \A i \in 1 .. k - 1 : a[i] = handlers[i]
    BY <2>3, PartOf
  <2>5. /\ b \in Seq(Entry) /\ Len(b) = Len(handlers) - k
        /\ \A i \in 1 .. Len(handlers) - k : b[i] = handlers[k + i]
    <3>1. /\ b \in Seq(Entry) /\ Len(b) = (Len(handlers) - (k + 1)) + 1
          /\ \A i \in 1 .. (Len(handlers) - (k + 1)) + 1 : b[i] = handlers[((k + 1) + i) - 1]
      BY <2>3, PartOf
    <3>. HIDE DEF b
    <3>. QED
      BY <2>3, <3>1
  <2>. HIDE DEF a, b
  <2>6. Shrunk(handlers, a \o b, k)
    BY <2>1, <2>4, <2>5, ShrunkJoin
  <2>. QED
    BY <2>1, <2>2, <2>6
<1>2. CASE e \notin Eids(handlers)
  BY <1>2 DEF Eids, Without
<1>. QED
  BY <1>1, <1>2

\* The innermost event, and the others.
LEMMA TopParts ==
    ASSUME NEW S, NEW fs \in Seq(S), fs # <<>>
    PROVE  /\ Len(fs) \in Nat \ {0} /\ Last(fs) = fs[Len(fs)] /\ Last(fs) \in S
           /\ Front(fs) \in Seq(S) /\ Len(Front(fs)) = Len(fs) - 1
           /\ \A i \in 1 .. Len(fs) - 1 : Front(fs)[i] = fs[i]
           /\ \A g \in S : /\ Append(Front(fs), g) \in Seq(S)
                           /\ Len(Append(Front(fs), g)) = Len(fs)
                           /\ Append(Front(fs), g)[Len(fs)] = g
                           /\ \A i \in 1 .. Len(fs) - 1 : Append(Front(fs), g)[i] = fs[i]
<1>1. Len(fs) \in Nat \ {0} /\ Last(fs) = fs[Len(fs)] /\ Last(fs) \in S
  BY DEF Last
<1>2. /\ Front(fs) \in Seq(S) /\ Len(Front(fs)) = Len(fs) - 1
      /\ \A i \in 1 .. Len(fs) - 1 : Front(fs)[i] = fs[i]
  <2>1. /\ 1 \in 1 .. Len(fs) + 1 /\ Len(fs) - 1 \in 1 - 1 .. Len(fs)
        /\ ((Len(fs) - 1) - 1) + 1 = Len(fs) - 1 /\ \A i \in 1 .. Len(fs) - 1 : (1 + i) - 1 = i
    BY <1>1
  <2>. QED
    BY <2>1, PartOf DEF Front
<1>. HIDE DEF Front
<1>3. ASSUME NEW g \in S
      PROVE  /\ Append(Front(fs), g) \in Seq(S)
             /\ Len(Append(Front(fs), g)) = Len(fs)
             /\ Append(Front(fs), g)[Len(fs)] = g
             /\ \A i \in 1 .. Len(fs) - 1 : Append(Front(fs), g)[i] = fs[i]
  BY <1>1, <1>2
<1>. QED
  BY <1>1, <1>2, <1>3

\* A function on an interval is a sequence.
LEMMA IntervalSequence ==
    ASSUME NEW S, NEW n \in Nat, NEW f \in [1 .. n -> S]
    PROVE  f \in Seq(S) /\ Len(f) = n
OBVIOUS

\* The list of listeners is replaced: every loop keeps the list it goes over.
LEMMA DetachedParts ==
    ASSUME handlers \in Seq(Entry), NEW fs \in Seq(Raising)
    PROVE  /\ Detached(fs) \in Seq(Raising) /\ Len(Detached(fs)) = Len(fs)
           /\ \A i \in 1 .. Len(fs) :
                /\ ~ Detached(fs)[i].live /\ Detached(fs)[i].list = Over(fs[i], handlers)
                /\ Detached(fs)[i].name = fs[i].name /\ Detached(fs)[i].next = fs[i].next
                /\ Detached(fs)[i].inside = fs[i].inside /\ Detached(fs)[i].called = fs[i].called
                /\ Detached(fs)[i].start = fs[i].start /\ Detached(fs)[i].known = fs[i].known
<1>1. ASSUME NEW i \in 1 .. Len(fs)
      PROVE  LET g == IF fs[i].live THEN [fs[i] EXCEPT !.live = FALSE, !.list = handlers]
                                    ELSE fs[i] IN
             /\ g \in Raising
             /\ ~ g.live /\ g.list = Over(fs[i], handlers)
             /\ g.name = fs[i].name /\ g.next = fs[i].next
             /\ g.inside = fs[i].inside /\ g.called = fs[i].called
             /\ g.start = fs[i].start /\ g.known = fs[i].known
  <2>1. fs[i] \in Raising
    OBVIOUS
  <2>2. PICK f \in Raising : f = fs[i]
    BY <2>1
  <2>3. CASE f.live
    BY <2>2, <2>3 DEF Raising, Over
  <2>4. CASE ~ f.live
    BY <2>2, <2>4 DEF Raising, Over
  <2>. QED
    BY <2>3, <2>4
<1>2. DOMAIN fs = 1 .. Len(fs) /\ Len(fs) \in Nat
  OBVIOUS
<1>3. Detached(fs) \in [1 .. Len(fs) -> Raising]
  BY <1>1, <1>2 DEF Detached
<1>4. Detached(fs) \in Seq(Raising) /\ Len(Detached(fs)) = Len(fs)
  BY <1>2, <1>3, IntervalSequence
<1>. QED
  BY <1>1, <1>2, <1>4 DEF Detached

-----------------------------------------------------------------------------
(* The shapes of the steps.                                                *)

\* A frame of the stack is the same but for what it goes over.
Same(f, g) ==
    /\ g.name = f.name /\ g.next = f.next /\ g.inside = f.inside
    /\ g.called = f.called /\ g.start = f.start /\ g.known = f.known

\* frames' is fs, also when the list of listeners has been replaced.
Carried(fs) ==
    /\ frames' \in Seq(Raising) /\ Len(frames') = Len(fs)
    /\ \A i \in 1 .. Len(fs) :
         /\ Same(fs[i], frames'[i])
         /\ Over(frames'[i], handlers') = Over(fs[i], handlers)
         /\ frames'[i].list = fs[i].list \/ frames'[i].list = handlers

\* No entry is new, and none has gone but those of an eid.
Lost(e) ==
    /\ handlers' \in Seq(Entry)
    /\ \A i \in 1 .. Len(handlers') : \E j \in 1 .. Len(handlers) : handlers'[i] = handlers[j]
    /\ \A j \in 1 .. Len(handlers) :
         handlers[j].eid # e => \E i \in 1 .. Len(handlers') : handlers'[i] = handlers[j]
    /\ Distinct(handlers) => Distinct(handlers')

LEMMA ShrunkLost ==
    ASSUME handlers \in Seq(Entry), NEW k \in 1 .. Len(handlers), Shrunk(handlers, handlers', k)
    PROVE  Lost(handlers[k].eid)
<1>1. Len(handlers) \in Nat /\ Len(handlers') = Len(handlers) - 1 /\ handlers' \in Seq(Entry)
  BY DEF Shrunk
<1>. DEFINE at(i) == IF i < k THEN i ELSE i + 1
<1>2. ASSUME NEW i \in 1 .. Len(handlers')
      PROVE  at(i) \in 1 .. Len(handlers) /\ handlers'[i] = handlers[at(i)]
  <2>1. CASE i < k
    <3>1. i \in 1 .. k - 1 /\ i \in 1 .. Len(handlers)
      BY <1>1, <2>1
    <3>. QED
      BY <2>1, <3>1 DEF Shrunk
  <2>2. CASE ~ (i < k)
    <3>1. i + 1 \in k + 1 .. Len(handlers) /\ i + 1 \in 1 .. Len(handlers) /\ (i + 1) - 1 = i
      BY <1>1, <2>2
    <3>2. handlers'[(i + 1) - 1] = handlers[i + 1]
      BY <3>1 DEF Shrunk
    <3>. QED
      BY <2>2, <3>1, <3>2
  <2>. QED
    BY <2>1, <2>2
<1>3. ASSUME NEW i \in 1 .. Len(handlers'), NEW j \in 1 .. Len(handlers'), at(i) = at(j)
      PROVE  i = j
  BY <1>1, <1>3
<1>4. ASSUME NEW j \in 1 .. Len(handlers), handlers[j].eid # handlers[k].eid
      PROVE  \E i \in 1 .. Len(handlers') : handlers'[i] = handlers[j]
  <2>1. CASE j < k
    <3>1. j \in 1 .. k - 1 /\ j \in 1 .. Len(handlers')
      BY <1>1, <2>1
    <3>. QED
      BY <3>1 DEF Shrunk
  <2>2. CASE j > k
    <3>1. j \in k + 1 .. Len(handlers) /\ j - 1 \in 1 .. Len(handlers')
      BY <1>1, <2>2
    <3>. QED
      BY <3>1 DEF Shrunk
  <2>. QED
    BY <1>1, <1>4, <2>1, <2>2
<1>. HIDE DEF at
<1>5. ASSUME Distinct(handlers) PROVE Distinct(handlers')
  BY <1>2, <1>3, <1>5 DEF Distinct
<1>. QED
  BY <1>1, <1>2, <1>4, <1>5 DEF Lost

\* The two ways in which a handler that may remove itself leaves the lists.
LEMMA RemovalParts ==
    ASSUME handlers \in Seq(Entry), NEW fs \in Seq(Raising), NEW e,
           \/ frames' = fs /\ handlers' = handlers
           \/ handlers' = Without(e) /\ frames' = Detached(fs)
    PROVE  Carried(fs) /\ Lost(e)
<1>1. CASE frames' = fs /\ handlers' = handlers
  <2>1. Carried(fs)
    BY <1>1 DEF Carried, Same, Over
  <2>2. Lost(e)
    BY <1>1 DEF Lost
  <2>. QED
    BY <2>1, <2>2
<1>2. CASE handlers' = Without(e) /\ frames' = Detached(fs)
  <2>1. Carried(fs)
    BY <1>2, DetachedParts DEF Carried, Same, Over
  <2>2. Lost(e)
    <3>1. CASE Without(e) = handlers
      <4>1. handlers' = handlers
        BY <1>2, <3>1
      <4>. QED
        BY <4>1 DEF Lost
    <3>2. CASE \E k \in 1 .. Len(handlers) :
                 Shrunk(handlers, Without(e), k) /\ handlers[k].eid = e
      BY <1>2, <3>2, ShrunkLost
    <3>. QED
      BY <3>1, <3>2, WithoutParts
  <2>. QED
    BY <2>1, <2>2
<1>. QED
  BY <1>1, <1>2

\* The innermost event, and what the loop makes of it.
LEMMA TopKnown ==
    ASSUME frames \in Seq(Raising), frames # <<>>
    PROVE  /\ Len(frames) \in Nat \ {0} /\ Top = frames[Len(frames)] /\ Top \in Raising
           /\ Len(frames) \in 1 .. Len(frames)
           /\ Front(frames) \in Seq(Raising) /\ Len(Front(frames)) = Len(frames) - 1
           /\ \A i \in 1 .. Len(frames) - 1 : Front(frames)[i] = frames[i]
BY TopParts DEF Top

LEMMA SetTopParts ==
    ASSUME frames \in Seq(Raising), frames # <<>>, NEW g \in Raising
    PROVE  /\ SetTop(g) \in Seq(Raising) /\ Len(SetTop(g)) = Len(frames)
           /\ SetTop(g)[Len(frames)] = g
           /\ \A i \in 1 .. Len(frames) - 1 : SetTop(g)[i] = frames[i]
BY TopParts DEF SetTop

\* g is the innermost event after the loop has taken up h.
Stepped(g, h) ==
    /\ g \in Raising /\ g.name = Top.name /\ g.live = Top.live /\ g.list = Top.list
    /\ g.next = Top.next + 1 /\ g.start = Top.start /\ g.known = Top.known
    /\ Len(g.called) = Len(Top.called) + 1
    /\ \A i \in 1 .. Len(Top.called) : g.called[i] = Top.called[i]
    /\ g.called[Len(Top.called) + 1] = h.eid

LEMMA CalledParts ==
    ASSUME frames \in Seq(Raising), frames # <<>>, NEW h \in Entry
    PROVE  Stepped(Called(h), h) /\ Called(h).inside = Top.inside
<1>1. PICK f \in Raising : f = Top
  BY TopKnown
<1>2. PICK x \in Nat : x = h.eid
  BY DEF Entry
<1>. DEFINE c == Append(f.called, x)
<1>3. f.called \in Seq(Nat) /\ f.next \in Nat
  BY DEF Raising
<1>4. /\ c \in Seq(Nat) /\ Len(c) = Len(f.called) + 1 /\ c[Len(f.called) + 1] = x
      /\ \A i \in 1 .. Len(f.called) : c[i] = f.called[i]
  BY <1>3
<1>5. Called(h) = [f EXCEPT !.next = f.next + 1, !.called = c]
  BY <1>1, <1>2 DEF Called, Raising
<1>. HIDE DEF c
<1>6. PICK g : g = Called(h)
  OBVIOUS
<1>7. /\ g \in Raising /\ g.name = f.name /\ g.live = f.live /\ g.list = f.list
      /\ g.next = f.next + 1 /\ g.inside = f.inside /\ g.start = f.start
      /\ g.known = f.known /\ g.called = c
  <2>1. f.next + 1 \in Nat \ {0} /\ c \in Seq(Nat)
    BY <1>3, <1>4
  <2>. QED
    BY ONLY f \in Raising, <2>1, <1>5, <1>6 DEF Raising
<1>8. /\ Len(g.called) = Len(f.called) + 1 /\ g.called[Len(f.called) + 1] = x
      /\ \A i \in 1 .. Len(f.called) : g.called[i] = f.called[i]
  BY ONLY <1>4, <1>7
<1>9. Stepped(g, h) /\ g.inside = Top.inside
  BY ONLY <1>1, <1>2, <1>7, <1>8 DEF Stepped
<1>. QED
  BY ONLY <1>6, <1>9

LEMMA InsideParts ==
    ASSUME NEW f \in Raising, NEW x \in Nat, NEW g, g = [f EXCEPT !.inside = x]
    PROVE  /\ g \in Raising /\ g.name = f.name /\ g.live = f.live /\ g.list = f.list
           /\ g.next = f.next /\ g.inside = x /\ g.start = f.start
           /\ g.known = f.known /\ g.called = f.called
BY DEF Raising

\* The components found are put in a sequence, each once.
LEMMA SetSequence ==
    ASSUME NEW T, NEW S \in SUBSET T, IsFiniteSet(S)
    PROVE  /\ SetToSeq(S) \in Seq(T) /\ IsInjective(SetToSeq(S)) /\ ToSet(SetToSeq(S)) = S
<1>. DEFINE n == Cardinality(S)
            f == SetToSeq(S)
<1>1. n \in Nat /\ ExistsBijection(1 .. n, S)
  BY FS_CardinalityType
<1>2. \E g \in [1 .. n -> S] : IsInjective(g)
  BY <1>1 DEF ExistsBijection, Bijection, Injection, IsInjective
<1>3. f \in [1 .. n -> S] /\ IsInjective(f)
  BY <1>2 DEF SetToSeq
<1>4. f \in Injection(1 .. n, S)
  BY <1>3 DEF Injection
<1>5. IsFiniteSet(1 .. n) /\ Cardinality(1 .. n) = n
  BY <1>1, FS_Interval
<1>6. f \in Surjection(1 .. n, S)
  BY <1>4, <1>5, FS_Injection
<1>7. \A y \in S : \E i \in 1 .. n : f[i] = y
  BY <1>6 DEF Surjection
<1>. HIDE DEF f, n
<1>8. f \in Seq(T) /\ Len(f) = n
  <2>1. f \in [1 .. n -> T]
    BY <1>3
  <2>. QED
    BY <1>1, <2>1, IntervalSequence
<1>9. ToSet(f) = S
  <2>1. DOMAIN f = 1 .. n /\ \A i \in 1 .. n : f[i] \in S
    BY <1>3
  <2>. QED
    BY <1>7, <2>1 DEF ToSet
<1>. QED
  BY <1>3, <1>8, <1>9 DEF f

\* What listenToDependencies does to the sink, and to the others.
LEMMA BindParts ==
    ASSUME TypeOK, NEW s \in Sinks, listenToDependencies(s)
    PROVE  /\ wants' \in [Sinks -> SUBSET Names] /\ bound' \in [Sinks -> Seq(Names)]
           /\ wants'[s] = wants[s] \ components
           /\ \A r \in Sinks \ {s} : wants'[r] = wants[r] /\ bound'[r] = bound[r]
           /\ \E q \in Seq(Names) : /\ bound'[s] = bound[s] \o q /\ IsInjective(q)
                                    /\ ToSet(q) = wants[s] \cap components
<1>. DEFINE q == SetToSeq(Found(s))
<1>1. Found(s) = wants[s] \cap components /\ Found(s) \in SUBSET Names
  BY DEF Found, TypeOK
<1>2. IsFiniteSet(Found(s))
  BY <1>1, FS_Subset DEF TypeOK
<1>3. q \in Seq(Names) /\ IsInjective(q) /\ ToSet(q) = wants[s] \cap components
  BY <1>1, <1>2, SetSequence
<1>4. bound' = [bound EXCEPT ![s] = @ \o q] /\ wants' = [wants EXCEPT ![s] = @ \ Found(s)]
  BY DEF listenToDependencies
<1>. HIDE DEF q
<1>5. wants \in [Sinks -> SUBSET Names] /\ bound \in [Sinks -> Seq(Names)]
  BY DEF TypeOK
<1>6. bound'[s] = bound[s] \o q /\ bound[s] \o q \in Seq(Names)
  <2>1. bound'[s] = bound[s] \o q
    BY <1>4, <1>5
  <2>2. bound[s] \in Seq(Names)
    BY <1>5
  <2>3. bound[s] \o q \in Seq(Names)
    BY ONLY <2>2, <1>3, TogetherParts
  <2>. QED
    BY <2>1, <2>3
<1>7. bound' \in [Sinks -> Seq(Names)]
  BY <1>4, <1>5, <1>6
<1>8. wants' \in [Sinks -> SUBSET Names] /\ wants'[s] = wants[s] \ components
  BY <1>1, <1>4, <1>5
<1>9. \A r \in Sinks \ {s} : wants'[r] = wants[r] /\ bound'[r] = bound[r]
  BY <1>4, <1>5
<1>. QED
  BY <1>3, <1>6, <1>7, <1>8, <1>9

\* The listener who is put in somewhere with the next eid.
Added(who) ==
    /\ eid' = eid + 1
    /\ \E e \in Entry : /\ e.who = who /\ e.eid = eid + 1
                        /\ \E k \in 1 .. Len(handlers) + 1 : Grown(handlers, handlers', e, k)

LEMMA AddParts ==
    ASSUME TypeOK, NEW who \in Sinks \cup {Other}, NEW pri \in Nat, NEW once \in BOOLEAN,
           addListener(who, pri, once)
    PROVE  Added(who)
<1>. DEFINE e == [pri |-> pri, who |-> who, once |-> once, eid |-> eid + 1]
<1>1. e \in Entry /\ e.who = who /\ e.eid = eid + 1
  BY DEF Entry, TypeOK
<1>2. eid' = eid + 1 /\ handlers' = Inserted(handlers, e)
  BY DEF addListener
<1>. HIDE DEF e
<1>3. \E k \in 1 .. Len(handlers) + 1 : Grown(handlers, handlers', e, k)
  BY <1>1, <1>2, InsertedParts DEF TypeOK
<1>. QED
  BY <1>1, <1>2, <1>3 DEF Added

LEMMA TurnParts ==
    ASSUME TypeOK, Turn
    PROVE  /\ frames # <<>> /\ Top.inside = 0 /\ Top.next \in 1 .. Len(Over(Top, handlers))
           /\ Over(Top, handlers) \in Seq(Entry) /\ Over(Top, handlers)[Top.next] \in Entry
           /\ Loop(Top) = Over(Top, handlers)
<1>1. frames # <<>> /\ Top.inside = 0 /\ Top.next <= Len(Loop(Top))
  BY DEF Turn
<1>2. Top \in Raising
  BY <1>1, TopKnown DEF TypeOK
<1>3. Loop(Top) = Over(Top, handlers)
  BY DEF Loop, Over
<1>4. Over(Top, handlers) \in Seq(Entry) /\ Top.next \in Nat \ {0}
  BY <1>2 DEF Over, Raising, TypeOK
<1>. HIDE DEF Top, Loop, Over
<1>5. Top.next \in 1 .. Len(Over(Top, handlers))
  BY <1>1, <1>3, <1>4
<1>. QED
  BY <1>1, <1>3, <1>4, <1>5

LEMMA SinkParts ==
    ASSUME TypeOK, InvokeSink
    PROVE  \E h \in Entry, g \in Raising :
             /\ h = Over(Top, handlers)[Top.next] /\ h.who \in Sinks
             /\ listenToDependencies(h.who) /\ Stepped(g, h) /\ g.inside = 0
             /\ Carried(SetTop(g)) /\ Lost(h.eid)
             /\ Ready(h.who) \/ handlers' = handlers
<1>1. Turn
  BY DEF InvokeSink
<1>2. PICK h \in Entry : h = Over(Top, handlers)[Top.next] /\ h = Loop(Top)[Top.next]
  BY <1>1, TurnParts
<1>3. /\ h.who # Other /\ listenToDependencies(h.who)
      /\ IF Ready(h.who)
           THEN handlers' = Without(h.eid) /\ frames' = Detached(SetTop(Called(h)))
           ELSE frames' = SetTop(Called(h)) /\ handlers' = handlers
  BY <1>2 DEF InvokeSink
<1>4. h.who \in Sinks /\ h.eid \in Nat
  BY <1>3 DEF Entry
<1>. DEFINE g == Called(h)
<1>5. frames # <<>> /\ Top.inside = 0 /\ Top \in Raising
  BY <1>1, TurnParts, TopKnown DEF TypeOK
<1>6. Stepped(g, h) /\ g.inside = 0
  BY <1>5, CalledParts DEF TypeOK
<1>. HIDE DEF g
<1>7. g \in Raising
  BY <1>6 DEF Stepped
<1>8. SetTop(g) \in Seq(Raising)
  BY <1>5, <1>7, SetTopParts DEF TypeOK
<1>9. \/ frames' = SetTop(g) /\ handlers' = handlers
      \/ handlers' = Without(h.eid) /\ frames' = Detached(SetTop(g))
  BY <1>3 DEF g
<1>10. Carried(SetTop(g)) /\ Lost(h.eid)
  BY <1>8, <1>9, RemovalParts DEF TypeOK
<1>11. Ready(h.who) \/ handlers' = handlers
  BY <1>3
<1>. QED
  BY <1>2, <1>3, <1>4, <1>6, <1>7, <1>10, <1>11

LEMMA OtherParts ==
    ASSUME TypeOK, InvokeOther
    PROVE  \E h \in Entry, g \in Raising :
             /\ h = Over(Top, handlers)[Top.next] /\ h.who = Other
             /\ Stepped(g, h) /\ g.inside = h.eid
             /\ Carried(SetTop(g)) /\ handlers' = handlers
<1>1. Turn /\ handlers' = handlers
  BY DEF InvokeOther
<1>2. PICK h \in Entry : h = Over(Top, handlers)[Top.next] /\ h = Loop(Top)[Top.next]
  BY <1>1, TurnParts
<1>3. h.who = Other /\ frames' = SetTop([Called(h) EXCEPT !.inside = h.eid])
  BY <1>2 DEF InvokeOther
<1>4. h.eid \in Nat
  BY DEF Entry
<1>5. frames # <<>>
  BY <1>1, TurnParts
<1>6. PICK f : f = Called(h) /\ Stepped(f, h)
  BY <1>5, CalledParts DEF TypeOK
<1>7. f \in Raising
  BY <1>6 DEF Stepped
<1>8. PICK g : g = [f EXCEPT !.inside = h.eid]
  OBVIOUS
<1>9. /\ g \in Raising /\ g.name = f.name /\ g.live = f.live /\ g.list = f.list
      /\ g.next = f.next /\ g.inside = h.eid /\ g.start = f.start
      /\ g.known = f.known /\ g.called = f.called
  BY ONLY <1>4, <1>7, <1>8, InsideParts
<1>10. Stepped(g, h)
  BY ONLY <1>6, <1>9 DEF Stepped
<1>11. frames' = SetTop(g)
  BY <1>3, <1>6, <1>8
<1>12. SetTop(g) \in Seq(Raising)
  BY <1>5, <1>9, SetTopParts DEF TypeOK
<1>13. Carried(SetTop(g))
  BY <1>1, <1>11, <1>12, RemovalParts DEF TypeOK
<1>. QED
  BY <1>1, <1>2, <1>3, <1>9, <1>10, <1>13

\* g is the innermost event after the handler has returned.
Left(g) == /\ g \in Raising /\ g.name = Top.name /\ g.live = Top.live /\ g.list = Top.list
           /\ g.next = Top.next /\ g.inside = 0 /\ g.start = Top.start
           /\ g.known = Top.known /\ g.called = Top.called

LEMMA ReturnParts ==
    ASSUME TypeOK, HandlerReturns
    PROVE  /\ frames # <<>> /\ Top.inside # 0 /\ Lost(Top.inside)
           /\ \/ Carried(Front(frames)) /\ unheard' = unheard \cup {Top.name}
              \/ \E g \in Raising : Left(g) /\ Carried(SetTop(g)) /\ unheard' = unheard
<1>1. frames # <<>> /\ Top.inside # 0
  BY DEF HandlerReturns
<1>2. PICK g : g = [Top EXCEPT !.inside = 0]
  OBVIOUS
<1>3. Top \in Raising /\ Front(frames) \in Seq(Raising)
  BY <1>1, TopKnown DEF TypeOK
<1>4. Left(g)
  <2>1. PICK f \in Raising : f = Top
    BY <1>3
  <2>2. 0 \in Nat
    OBVIOUS
  <2>3. /\ g \in Raising /\ g.name = f.name /\ g.live = f.live /\ g.list = f.list
        /\ g.next = f.next /\ g.inside = 0 /\ g.start = f.start
        /\ g.known = f.known /\ g.called = f.called
    BY ONLY f \in Raising, <1>2, <2>1, <2>2, InsideParts
  <2>. QED
    BY ONLY <2>1, <2>3 DEF Left
<1>5. g \in Raising
  BY <1>4 DEF Left
<1>6. SetTop(g) \in Seq(Raising)
  BY <1>1, <1>5, SetTopParts DEF TypeOK
<1>7. PICK halt \in BOOLEAN :
        /\ LET fs == IF halt THEN Front(frames) ELSE SetTop(g) IN
           \/ frames' = fs /\ handlers' = handlers
           \/ handlers' = Without(Top.inside) /\ frames' = Detached(fs)
        /\ unheard' = IF halt THEN unheard \cup {Top.name} ELSE unheard
  BY <1>2 DEF HandlerReturns
<1>8. CASE halt
  <2>1. Carried(Front(frames)) /\ Lost(Top.inside)
    BY <1>3, <1>7, <1>8, RemovalParts DEF TypeOK
  <2>. QED
    BY <1>1, <1>7, <1>8, <2>1
<1>9. CASE ~ halt
  <2>1. Carried(SetTop(g)) /\ Lost(Top.inside)
    BY <1>6, <1>7, <1>9, RemovalParts DEF TypeOK
  <2>. QED
    BY <1>1, <1>4, <1>5, <1>7, <1>9, <2>1
<1>. QED
  BY <1>8, <1>9

LEMMA RemoveParts ==
    ASSUME TypeOK, removeListener
    PROVE  \E j \in 1 .. Len(handlers) :
             handlers[j].who = Other /\ Lost(handlers[j].eid) /\ Carried(frames)
<1>1. PICK h \in Range(handlers) : h.who = Other /\ handlers' = Without(h.eid)
  BY DEF removeListener
<1>2. frames' = Detached(frames)
  BY DEF removeListener
<1>3. PICK j \in 1 .. Len(handlers) : h = handlers[j]
  BY <1>1 DEF Range, TypeOK
<1>4. Lost(h.eid) /\ Carried(frames)
  BY <1>1, <1>2, RemovalParts DEF TypeOK
<1>. QED
  BY <1>1, <1>3, <1>4

\* An event that has just been raised.
Begun(f, name) ==
    /\ f \in Raising /\ f.name = name /\ f.live /\ f.list = <<>> /\ f.next = 1 /\ f.inside = 0
    /\ f.called = <<>> /\ f.known = components'
    /\ f.start = {handlers[i].eid : i \in 1 .. Len(handlers)}

LEMMA RegisterParts ==
    ASSUME TypeOK, NEW name \in Names, register(name)
    PROVE  /\ components' = components \cup {name} /\ components' \subseteq Names
           /\ IsFiniteSet(components')
           /\ \/ handlers = <<>> /\ frames' = frames
              \/ \E f \in Raising :
                   /\ Begun(f, name) /\ frames' \in Seq(Raising)
                   /\ Len(frames') = Len(frames) + 1 /\ frames'[Len(frames) + 1] = f
                   /\ \A i \in 1 .. Len(frames) : frames'[i] = frames[i]
<1>1. components' = components \cup {name} /\ components' \subseteq Names
  BY DEF register, TypeOK
<1>2. IsFiniteSet(components')
  BY <1>1, FS_AddElement DEF TypeOK
<1>3. frames' = IF handlers = <<>> THEN frames ELSE Append(frames, Frame(name))
  BY DEF register, Raise
<1>4. PICK f : f = Frame(name)
  OBVIOUS
<1>5. Eids(handlers) = {handlers[i].eid : i \in 1 .. Len(handlers)}
      /\ Eids(handlers) \subseteq Nat
  <2>1. handlers \in Seq(Entry) /\ DOMAIN handlers = 1 .. Len(handlers)
    BY DEF TypeOK
  <2>2. \A i \in 1 .. Len(handlers) : handlers[i] \in Entry
    BY <2>1
  <2>3. \A h \in Entry : h.eid \in Nat
    BY DEF Entry
  <2>. QED
    BY ONLY <2>1, <2>2, <2>3 DEF Eids
<1>6. Begun(f, name)
  <2>1. <<>> \in Seq(Entry) /\ <<>> \in Seq(Nat) /\ 1 \in Nat \ {0} /\ 0 \in Nat
    OBVIOUS
  <2>. QED
    BY <1>1, <1>4, <1>5, <2>1 DEF Begun, Frame, Raising
<1>7. f \in Raising
  BY <1>6 DEF Begun
<1>8. CASE handlers # <<>>
  <2>1. frames' = Append(frames, f)
    BY <1>3, <1>4, <1>8
  <2>2. frames \in Seq(Raising)
    BY DEF TypeOK
  <2>3. /\ frames' \in Seq(Raising) /\ Len(frames') = Len(frames) + 1
        /\ frames'[Len(frames) + 1] = f
        /\ \A i \in 1 .. Len(frames) : frames'[i] = frames[i]
    BY ONLY <1>7, <2>1, <2>2
  <2>. QED
    BY <1>1, <1>2, <1>6, <1>7, <2>3
<1>. QED
  BY <1>1, <1>2, <1>3, <1>8

-----------------------------------------------------------------------------
(* The types.                                                              *)

LEMMA InitTyped == Init => TypeOK
<1>. SUFFICES ASSUME Init PROVE TypeOK
  OBVIOUS
<1>1. components \subseteq Names /\ IsFiniteSet(components) /\ unheard \subseteq Names
  BY FS_EmptySet DEF Init
<1>2. handlers \in Seq(Entry) /\ frames \in Seq(Raising) /\ launched \subseteq Sinks /\ eid \in Nat
  BY DEF Init
<1>3. wants \in [Sinks -> SUBSET Names]
  BY EventsAssumption DEF Init
<1>4. bound \in [Sinks -> Seq(Names)]
  <2>1. <<>> \in Seq(Names) /\ bound = [s \in Sinks |-> <<>>]
    BY DEF Init
  <2>. QED
    BY <2>1
<1>. QED
  BY <1>1, <1>2, <1>3, <1>4 DEF TypeOK

LEMMA AddedTyped ==
    ASSUME TypeOK, NEW who, Added(who)
    PROVE  handlers' \in Seq(Entry) /\ eid' \in Nat
BY DEF Added, Grown, TypeOK

LEMMA StepTyped == TypeOK /\ [Next]_vars => TypeOK'
<1>. SUFFICES ASSUME TypeOK, [Next]_vars PROVE TypeOK'
  OBVIOUS
<1>1. ASSUME NEW s \in Sinks, launch(s) PROVE TypeOK'
  <2>1. wants' \in [Sinks -> SUBSET Names] /\ bound' \in [Sinks -> Seq(Names)]
    BY <1>1, BindParts DEF launch
  <2>2. handlers' \in Seq(Entry) /\ eid' \in Nat
    <3>1. CASE Ready(s)
      BY <1>1, <3>1 DEF launch, TypeOK
    <3>2. CASE ~ Ready(s)
      <4>1. addListener(s, 0, FALSE)
        BY <1>1, <3>2 DEF launch
      <4>2. Added(s)
        BY <4>1, AddParts
      <4>. QED
        BY <4>2, AddedTyped
    <3>. QED
      BY <3>1, <3>2
  <2>3. /\ launched' = launched \cup {s} /\ components' = components
        /\ frames' = frames /\ unheard' = unheard
    BY <1>1 DEF launch
  <2>. QED
    BY <2>1, <2>2, <2>3 DEF TypeOK
<1>2. ASSUME NEW n \in Names, register(n) PROVE TypeOK'
  <2>1. frames' \in Seq(Raising) /\ components' \subseteq Names /\ IsFiniteSet(components')
    BY <1>2, RegisterParts DEF TypeOK
  <2>2. UNCHANGED <<handlers, wants, bound, launched, unheard, eid>>
    BY <1>2 DEF register
  <2>. QED
    BY <2>1, <2>2 DEF TypeOK
<1>3. CASE listen
  <2>1. PICK pri \in Priorities, once \in BOOLEAN : addListener(Other, pri, once)
    BY <1>3 DEF listen
  <2>2. pri \in Nat
    BY EventsAssumption
  <2>3. Added(Other)
    BY <2>1, <2>2, AddParts
  <2>4. UNCHANGED <<components, frames, wants, bound, launched, unheard>>
    BY <1>3 DEF listen
  <2>. QED
    BY <2>3, <2>4, AddedTyped DEF TypeOK
<1>4. CASE removeListener
  <2>1. handlers' \in Seq(Entry) /\ frames' \in Seq(Raising)
    BY <1>4, RemoveParts DEF Lost, Carried
  <2>2. UNCHANGED <<components, wants, bound, launched, unheard, eid>>
    BY <1>4 DEF removeListener
  <2>. QED
    BY <2>1, <2>2 DEF TypeOK
<1>5. CASE InvokeSink
  <2>1. PICK h \in Entry : /\ h.who \in Sinks /\ listenToDependencies(h.who) /\ Lost(h.eid)
                           /\ frames' \in Seq(Raising)
    BY <1>5, SinkParts DEF Carried
  <2>2. wants' \in [Sinks -> SUBSET Names] /\ bound' \in [Sinks -> Seq(Names)]
    BY <2>1, BindParts
  <2>3. UNCHANGED <<components, launched, unheard, eid>>
    BY <1>5 DEF InvokeSink
  <2>. QED
    BY <2>1, <2>2, <2>3 DEF TypeOK, Lost
<1>6. CASE InvokeOther
  <2>1. frames' \in Seq(Raising)
    BY <1>6, OtherParts DEF Carried
  <2>2. UNCHANGED <<components, handlers, wants, bound, launched, unheard, eid>>
    BY <1>6 DEF InvokeOther
  <2>. QED
    BY <2>1, <2>2 DEF TypeOK
<1>7. CASE HandlerReturns
  <2>1. frames' \in Seq(Raising) /\ handlers' \in Seq(Entry)
    BY <1>7, ReturnParts DEF Carried, Lost
  <2>2. Top.name \in Names
    BY <1>7, ReturnParts, TopKnown DEF TypeOK, Raising
  <2>3. unheard' \subseteq Names
    BY <1>7, <2>2, ReturnParts DEF TypeOK
  <2>4. UNCHANGED <<components, wants, bound, launched, eid>>
    BY <1>7 DEF HandlerReturns
  <2>. QED
    BY <2>1, <2>3, <2>4 DEF TypeOK
<1>8. CASE HandlerRaises \/ LoopEnds
  <2>1. frames # <<>> /\ frames' = Front(frames)
    BY <1>8 DEF HandlerRaises, LoopEnds
  <2>2. frames' \in Seq(Raising) /\ Top.name \in Names
    BY <2>1, TopKnown DEF TypeOK, Raising
  <2>3. unheard' \subseteq Names
    BY <1>8, <2>2 DEF HandlerRaises, LoopEnds, TypeOK
  <2>4. UNCHANGED <<components, handlers, wants, bound, launched, eid>>
    BY <1>8 DEF HandlerRaises, LoopEnds
  <2>. QED
    BY <2>2, <2>3, <2>4 DEF TypeOK
<1>9. CASE UNCHANGED vars
  BY <1>9 DEF TypeOK, vars
<1>. QED
  BY <1>1, <1>2, <1>3, <1>4, <1>5, <1>6, <1>7, <1>8, <1>9 DEF Next

\* What the state is made of (the fields of the classes in revent.py and core.py).
THEOREM EventsTyped == Spec => []TypeOK
BY InitTyped, StepTyped, PTL DEF Spec

-----------------------------------------------------------------------------
(* Each eid is one listener's.                                             *)

OwnedFrame(o, f) ==
    /\ OwnedBy(o, f.list)
    /\ f.inside # 0 => f.inside \in 1 .. eid /\ o[f.inside] = Other

\* A new listener gets a new eid.
LEMMA AddedOwned ==
    ASSUME TypeOK, OwnersKnown, NEW who \in Sinks \cup {Other}, Added(who), frames' = frames
    PROVE  OwnersKnown'
<1>1. PICK o \in [1 .. eid -> Sinks \cup {Other}] : Owned(o)
  BY DEF OwnersKnown
<1>2. PICK e \in Entry, k \in 1 .. Len(handlers) + 1 :
        e.who = who /\ e.eid = eid + 1 /\ Grown(handlers, handlers', e, k)
  BY DEF Added
<1>3. eid' = eid + 1 /\ eid \in Nat
  BY DEF Added, TypeOK
<1>. DEFINE p == [x \in 1 .. eid + 1 |-> IF x = eid + 1 THEN who ELSE o[x]]
<1>4. p \in [1 .. eid' -> Sinks \cup {Other}] /\ DOMAIN p = 1 .. eid + 1 /\ p[eid + 1] = who
  BY <1>1, <1>3
<1>5. \A x \in 1 .. eid : x \in 1 .. eid + 1 /\ x # eid + 1 /\ p[x] = o[x]
  BY <1>1, <1>3
<1>. HIDE DEF p
<1>6. DOMAIN o = 1 .. eid
  BY <1>1
<1>7. ASSUME NEW list, OwnedBy(o, list) PROVE OwnedBy(p, list)
  BY <1>4, <1>5, <1>6, <1>7 DEF OwnedBy
<1>8. \A i \in 1 .. Len(handlers) : /\ handlers[i].eid \in 1 .. eid
                                    /\ handlers[i].who = o[handlers[i].eid]
  BY <1>1, <1>6 DEF Owned, OwnedBy
<1>. DEFINE from(i) == IF i < k THEN i ELSE i - 1
<1>9. Len(handlers) \in Nat /\ Len(handlers') = Len(handlers) + 1
  BY <1>2 DEF Grown, TypeOK
<1>10. ASSUME NEW i \in 1 .. Len(handlers'), i # k
       PROVE  from(i) \in 1 .. Len(handlers) /\ handlers'[i] = handlers[from(i)]
  <2>1. CASE i < k
    <3>1. i \in 1 .. k - 1 /\ i \in 1 .. Len(handlers)
      BY <1>9, <2>1
    <3>. QED
      BY <1>2, <2>1, <3>1 DEF Grown
  <2>2. CASE i > k
    <3>1. i - 1 \in k .. Len(handlers) /\ i - 1 \in 1 .. Len(handlers) /\ (i - 1) + 1 = i /\ ~ i < k
      BY <1>9, <2>2
    <3>2. handlers'[(i - 1) + 1] = handlers[i - 1]
      BY <1>2, <3>1 DEF Grown
    <3>. QED
      BY <3>1, <3>2
  <2>. QED
    BY <1>9, <1>10, <2>1, <2>2
<1>11. ASSUME NEW i \in 1 .. Len(handlers'), NEW j \in 1 .. Len(handlers'),
              i # k, j # k, from(i) = from(j)
       PROVE  i = j
  BY <1>9, <1>11
<1>. HIDE DEF from
<1>12. handlers'[k] = e /\ k \in 1 .. Len(handlers')
  BY <1>2 DEF Grown
<1>13. OwnedBy(p, handlers')
  <2>1. ASSUME NEW i \in 1 .. Len(handlers')
        PROVE  handlers'[i].eid \in 1 .. eid + 1 /\ handlers'[i].who = p[handlers'[i].eid]
    <3>1. CASE i = k
      BY <1>2, <1>3, <1>4, <1>12, <3>1
    <3>2. CASE i # k
      BY <1>5, <1>8, <1>10, <3>2
    <3>. QED
      BY <3>1, <3>2
  <2>. QED
    BY <1>4, <2>1 DEF OwnedBy
<1>14. Distinct(handlers')
  <2>1. \A i \in 1 .. Len(handlers') : i # k => handlers'[i].eid # eid + 1
    BY <1>5, <1>8, <1>10
  <2>2. Distinct(handlers)
    BY <1>1 DEF Owned
  <2>. QED
    BY <1>2, <1>10, <1>11, <1>12, <2>1, <2>2 DEF Distinct
<1>15. ASSUME NEW i \in 1 .. Len(frames')
       PROVE  /\ OwnedBy(p, frames'[i].list)
              /\ frames'[i].inside # 0
                   => frames'[i].inside \in 1 .. eid' /\ p[frames'[i].inside] = Other
  BY <1>1, <1>3, <1>5, <1>7 DEF Owned
<1>. QED
  BY <1>4, <1>13, <1>14, <1>15 DEF OwnersKnown, Owned

\* Nobody gets one otherwise.
LEMMA CarriedOwned ==
    ASSUME TypeOK, NEW o \in [1 .. eid -> Sinks \cup {Other}], Owned(o), eid' = eid,
           NEW fs \in Seq(Raising), Carried(fs), NEW e, Lost(e),
           \A i \in 1 .. Len(fs) : OwnedFrame(o, fs[i])
    PROVE  OwnersKnown'
<1>1. OwnedBy(o, handlers) /\ Distinct(handlers)
  BY DEF Owned
<1>2. OwnedBy(o, handlers') /\ Distinct(handlers')
  BY <1>1 DEF Lost, OwnedBy
<1>3. ASSUME NEW i \in 1 .. Len(frames')
      PROVE  /\ OwnedBy(o, frames'[i].list)
             /\ frames'[i].inside # 0
                  => frames'[i].inside \in 1 .. eid' /\ o[frames'[i].inside] = Other
  <2>1. i \in 1 .. Len(fs) /\ Same(fs[i], frames'[i])
        /\ (frames'[i].list = fs[i].list \/ frames'[i].list = handlers)
    BY DEF Carried
  <2>. QED
    BY <1>1, <2>1 DEF OwnedFrame, Same
<1>. QED
  BY <1>2, <1>3 DEF OwnersKnown, Owned

LEMMA FramesOwned ==
    ASSUME TypeOK, NEW o \in [1 .. eid -> Sinks \cup {Other}], Owned(o)
    PROVE  /\ \A i \in 1 .. Len(frames) : OwnedFrame(o, frames[i])
           /\ frames # <<>> =>
                /\ OwnedFrame(o, Top) /\ OwnedBy(o, Over(Top, handlers))
                /\ \A i \in 1 .. Len(Front(frames)) : OwnedFrame(o, Front(frames)[i])
                /\ \A g \in Raising : OwnedFrame(o, g) =>
                     \A i \in 1 .. Len(SetTop(g)) : OwnedFrame(o, SetTop(g)[i])
<1>1. \A i \in 1 .. Len(frames) : OwnedFrame(o, frames[i])
  BY DEF Owned, OwnedFrame
<1>2. ASSUME frames # <<>>
      PROVE  /\ OwnedFrame(o, Top) /\ OwnedBy(o, Over(Top, handlers))
             /\ \A i \in 1 .. Len(Front(frames)) : OwnedFrame(o, Front(frames)[i])
  <2>1. /\ Len(frames) \in Nat \ {0} /\ Top = frames[Len(frames)]
        /\ Len(frames) \in 1 .. Len(frames) /\ Len(Front(frames)) = Len(frames) - 1
        /\ \A i \in 1 .. Len(frames) - 1 : i \in 1 .. Len(frames) /\ Front(frames)[i] = frames[i]
    BY <1>2, TopKnown DEF TypeOK
  <2>2. OwnedFrame(o, Top)
    BY <1>1, <2>1
  <2>3. OwnedBy(o, Over(Top, handlers))
    BY <2>2 DEF OwnedFrame, Over, Owned
  <2>. QED
    BY <1>1, <2>1, <2>2, <2>3
<1>3. ASSUME frames # <<>>, NEW g \in Raising, OwnedFrame(o, g), NEW i \in 1 .. Len(SetTop(g))
      PROVE  OwnedFrame(o, SetTop(g)[i])
  <2>1. /\ Len(frames) \in Nat /\ Len(SetTop(g)) = Len(frames) /\ SetTop(g)[Len(frames)] = g
        /\ \A j \in 1 .. Len(frames) - 1 : SetTop(g)[j] = frames[j]
    BY <1>3, SetTopParts DEF TypeOK
  <2>2. i = Len(frames) \/ (i \in 1 .. Len(frames) - 1 /\ i \in 1 .. Len(frames))
    BY <2>1
  <2>. QED
    BY <1>1, <1>3, <2>1, <2>2
<1>. QED
  BY <1>1, <1>2, <1>3

LEMMA InitOwned == Init => OwnersKnown
<1>. SUFFICES ASSUME Init PROVE OwnersKnown
  OBVIOUS
<1>1. eid = 0 /\ Len(handlers) = 0 /\ Len(frames) = 0
  BY DEF Init
<1>2. PICK o : o = [x \in 1 .. 0 |-> Other]
  OBVIOUS
<1>3. o \in [1 .. eid -> Sinks \cup {Other}]
  BY <1>1, <1>2
<1>4. Owned(o)
  BY <1>1, <1>3 DEF Owned, OwnedBy, Distinct
<1>. QED
  BY <1>3, <1>4 DEF OwnersKnown

LEMMA StepOwned == TypeOK /\ OwnersKnown /\ [Next]_vars => OwnersKnown'
<1>. SUFFICES ASSUME TypeOK, OwnersKnown, [Next]_vars PROVE OwnersKnown'
  OBVIOUS
<1>0. PICK o \in [1 .. eid -> Sinks \cup {Other}] : Owned(o)
  BY DEF OwnersKnown
<1>. USE FramesOwned
<1>1. ASSUME UNCHANGED <<handlers, frames, eid>> PROVE OwnersKnown'
  BY <1>1 DEF OwnersKnown, Owned, OwnedBy, Distinct
<1>2. ASSUME NEW s \in Sinks, launch(s) PROVE OwnersKnown'
  <2>1. frames' = frames
    BY <1>2 DEF launch
  <2>2. CASE Ready(s)
    BY <1>1, <1>2, <2>1, <2>2 DEF launch
  <2>3. CASE ~ Ready(s)
    <3>1. addListener(s, 0, FALSE)
      BY <1>2, <2>3 DEF launch
    <3>2. Added(s)
      BY <3>1, AddParts
    <3>. QED
      BY <2>1, <3>2, AddedOwned
  <2>. QED
    BY <2>2, <2>3
<1>3. ASSUME NEW n \in Names, register(n) PROVE OwnersKnown'
  <2>1. handlers' = handlers /\ eid' = eid
    BY <1>3 DEF register
  <2>2. CASE frames' = frames
    BY <1>1, <2>1, <2>2
  <2>3. ASSUME NEW f \in Raising, Begun(f, n), Len(frames') = Len(frames) + 1,
               frames'[Len(frames) + 1] = f,
               \A i \in 1 .. Len(frames) : frames'[i] = frames[i]
        PROVE  OwnersKnown'
    <3>1. ASSUME NEW i \in 1 .. Len(frames') PROVE OwnedFrame(o, frames'[i])
      <4>1. i = Len(frames) + 1 \/ i \in 1 .. Len(frames)
        BY <2>3 DEF TypeOK
      <4>2. OwnedFrame(o, f)
        BY <2>3 DEF Begun, OwnedFrame, OwnedBy
      <4>. QED
        BY <1>0, <2>3, <4>1, <4>2
    <3>2. Owned(o)'
      BY <1>0, <2>1, <3>1 DEF Owned, OwnedFrame, OwnedBy, Distinct
    <3>. QED
      BY <2>1, <3>2 DEF OwnersKnown
  <2>. QED
    BY <1>3, <2>2, <2>3, RegisterParts
<1>4. CASE listen
  <2>1. PICK pri \in Priorities, once \in BOOLEAN : addListener(Other, pri, once)
    BY <1>4 DEF listen
  <2>2. pri \in Nat
    BY EventsAssumption
  <2>3. Added(Other) /\ frames' = frames
    BY <1>4, <2>1, <2>2, AddParts DEF listen
  <2>. QED
    BY <2>3, AddedOwned
<1>5. CASE removeListener
  <2>1. eid' = eid /\ frames \in Seq(Raising)
    BY <1>5 DEF removeListener, TypeOK
  <2>. QED
    BY <1>0, <1>5, <2>1, RemoveParts, CarriedOwned
<1>6. CASE InvokeSink
  <2>1. PICK h \in Entry, g \in Raising :
          Stepped(g, h) /\ g.inside = 0 /\ Carried(SetTop(g)) /\ Lost(h.eid)
    BY <1>6, SinkParts
  <2>2. frames # <<>> /\ eid' = eid
    BY <1>6 DEF InvokeSink, Turn
  <2>3. OwnedFrame(o, g)
    BY <1>0, <2>1, <2>2 DEF OwnedFrame, Stepped
  <2>4. SetTop(g) \in Seq(Raising)
    BY <2>2, SetTopParts DEF TypeOK
  <2>. QED
    BY <1>0, <2>1, <2>2, <2>3, <2>4, CarriedOwned
<1>7. CASE InvokeOther
  <2>1. PICK h \in Entry, g \in Raising :
          /\ h = Over(Top, handlers)[Top.next] /\ h.who = Other
          /\ Stepped(g, h) /\ g.inside = h.eid /\ Carried(SetTop(g)) /\ handlers' = handlers
    BY <1>7, OtherParts
  <2>2. frames # <<>> /\ eid' = eid /\ Top.next \in 1 .. Len(Over(Top, handlers))
    BY <1>7, TurnParts DEF InvokeOther
  <2>3. h.eid \in 1 .. eid /\ o[h.eid] = Other
    BY <1>0, <2>1, <2>2 DEF OwnedBy
  <2>4. OwnedFrame(o, g)
    BY <1>0, <2>1, <2>2, <2>3 DEF OwnedFrame, Stepped
  <2>5. SetTop(g) \in Seq(Raising) /\ Lost(0)
    BY <2>1, <2>2, SetTopParts DEF TypeOK, Lost
  <2>. QED
    BY <1>0, <2>1, <2>2, <2>4, <2>5, CarriedOwned
<1>8. CASE HandlerReturns
  <2>1. frames # <<>> /\ eid' = eid /\ Lost(Top.inside)
    BY <1>8, ReturnParts DEF HandlerReturns
  <2>2. CASE Carried(Front(frames))
    BY <1>0, <2>1, <2>2, TopKnown, CarriedOwned DEF TypeOK
  <2>3. ASSUME NEW g \in Raising, Left(g), Carried(SetTop(g)) PROVE OwnersKnown'
    <3>1. OwnedFrame(o, g)
      BY <1>0, <2>1, <2>3 DEF OwnedFrame, Left
    <3>2. SetTop(g) \in Seq(Raising)
      BY <2>1, SetTopParts DEF TypeOK
    <3>. QED
      BY <1>0, <2>1, <2>3, <3>1, <3>2, CarriedOwned
  <2>. QED
    BY <1>8, <2>2, <2>3, ReturnParts
<1>9. CASE HandlerRaises \/ LoopEnds
  <2>1. frames # <<>> /\ frames' = Front(frames) /\ handlers' = handlers /\ eid' = eid
    BY <1>9 DEF HandlerRaises, LoopEnds
  <2>2. Front(frames) \in Seq(Raising)
    BY <2>1, TopKnown DEF TypeOK
  <2>3. Carried(Front(frames)) /\ Lost(0)
    BY <2>1, <2>2, RemovalParts DEF TypeOK
  <2>. QED
    BY <1>0, <2>1, <2>2, <2>3, CarriedOwned
<1>10. CASE UNCHANGED vars
  BY <1>1, <1>10 DEF vars
<1>. QED
  BY <1>2, <1>3, <1>4, <1>5, <1>6, <1>7, <1>8, <1>9, <1>10 DEF Next

-----------------------------------------------------------------------------
(* No handler is skipped.                                                  *)

\* A new listener moves those behind it one place on: what a loop has still to come
\* to is still to come.
LEMMA AddedPending ==
    ASSUME TypeOK, AllPending, NEW who, Added(who), frames' = frames
    PROVE  AllPending'
<1>1. PICK e \in Entry, k \in 1 .. Len(handlers) + 1 : Grown(handlers, handlers', e, k)
  BY DEF Added
<1>2. Len(handlers) \in Nat /\ Len(handlers') = Len(handlers) + 1
  BY <1>1 DEF Grown, TypeOK
<1>3. ASSUME NEW f \in Raising, Pending(f, handlers) PROVE Pending(f, handlers')
  <2>1. CASE ~ f.live
    BY <1>3, <2>1 DEF Pending, Over
  <2>2. CASE f.live
    <3>1. Over(f, handlers) = handlers /\ Over(f, handlers') = handlers' /\ f.next \in Nat
      BY <2>2 DEF Over, Raising
    <3>2. ASSUME NEW i \in f.next .. Len(handlers)
          PROVE  \E j \in f.next .. Len(handlers') : handlers'[j] = handlers[i]
      <4>1. i \in 1 .. Len(handlers) /\ f.next <= i
        BY <1>2, <3>1 DEF Raising
      <4>2. CASE i < k
        <5>1. i \in 1 .. k - 1 /\ i \in f.next .. Len(handlers')
          BY <1>2, <3>1, <4>1, <4>2
        <5>. QED
          BY <1>1, <5>1 DEF Grown
      <4>3. CASE ~ i < k
        <5>1. i \in k .. Len(handlers) /\ i + 1 \in f.next .. Len(handlers')
          BY <1>2, <3>1, <4>1, <4>3
        <5>. QED
          BY <1>1, <5>1 DEF Grown
      <4>. QED
        BY <4>2, <4>3
    <3>3. ASSUME NEW x \in f.start,
                 ~ \E i \in 1 .. Len(f.called) : f.called[i] = x
          PROVE  \E j \in f.next .. Len(handlers') : handlers'[j].eid = x
      <4>1. PICK i \in f.next .. Len(handlers) : handlers[i].eid = x
        BY <1>3, <3>1, <3>3 DEF Pending
      <4>. QED
        BY <3>2, <4>1
    <3>. QED
      BY <3>1, <3>3 DEF Pending
  <2>. QED
    BY <2>1, <2>2
<1>. QED
  BY <1>3 DEF AllPending, TypeOK

LEMMA CarriedPending ==
    ASSUME NEW fs \in Seq(Raising), Carried(fs),
           \A i \in 1 .. Len(fs) : Pending(fs[i], handlers)
    PROVE  AllPending'
<1>1. ASSUME NEW i \in 1 .. Len(frames') PROVE Pending(frames'[i], handlers')
  <2>1. /\ i \in 1 .. Len(fs) /\ Same(fs[i], frames'[i])
        /\ Over(frames'[i], handlers') = Over(fs[i], handlers)
    BY DEF Carried
  <2>2. Pending(fs[i], handlers)
    BY <2>1
  <2>. QED
    BY <2>1, <2>2 DEF Same, Pending
<1>. QED
  BY <1>1 DEF AllPending

\* The loop takes up one handler, and that one is called.
LEMMA SteppedPending ==
    ASSUME TypeOK, Turn, NEW g \in Raising, NEW h \in Entry, h = Over(Top, handlers)[Top.next],
           Stepped(g, h), Pending(Top, handlers)
    PROVE  Pending(g, handlers)
<1>1. frames # <<>> /\ Top \in Raising
  BY TurnParts, TopKnown DEF TypeOK
<1>2. PICK f \in Raising : f = Top
  BY <1>1
<1>3. /\ g.live = f.live /\ g.list = f.list /\ g.next = f.next + 1 /\ g.start = f.start
      /\ Len(g.called) = Len(f.called) + 1
      /\ \A i \in 1 .. Len(f.called) : g.called[i] = f.called[i]
      /\ g.called[Len(f.called) + 1] = h.eid
  BY <1>2 DEF Stepped
<1>4. f.next \in Nat /\ Len(f.called) \in Nat
  BY DEF Raising
<1>5. Over(g, handlers) = Over(f, handlers) /\ Over(f, handlers) \in Seq(Entry)
  BY <1>2, <1>3, TurnParts DEF Over
<1>6. PICK L \in Seq(Entry) : L = Over(f, handlers)
  BY <1>5
<1>7. ASSUME NEW x \in f.start
      PROVE  \/ \E i \in 1 .. Len(g.called) : g.called[i] = x
             \/ \E i \in g.next .. Len(L) : L[i].eid = x
  <2>1. CASE \E i \in 1 .. Len(f.called) : f.called[i] = x
    BY <1>3, <1>4, <2>1
  <2>2. ASSUME NEW i \in f.next .. Len(L), L[i].eid = x
        PROVE  \/ \E j \in 1 .. Len(g.called) : g.called[j] = x
               \/ \E j \in g.next .. Len(L) : L[j].eid = x
    <3>1. CASE i = f.next
      <4>1. h.eid = x /\ Len(f.called) + 1 \in 1 .. Len(g.called)
        BY <1>2, <1>3, <1>4, <1>6, <2>2, <3>1
      <4>. QED
        BY <1>3, <4>1
    <3>2. CASE i # f.next
      <4>1. Len(L) \in Nat
        OBVIOUS
      <4>2. i \in g.next .. Len(L)
        BY <1>3, <1>4, <3>2, <4>1
      <4>. QED
        BY <2>2, <4>2
    <3>. QED
      BY <3>1, <3>2
  <2>3. \/ \E i \in 1 .. Len(f.called) : f.called[i] = x
        \/ \E i \in f.next .. Len(L) : L[i].eid = x
    BY <1>2, <1>6, <1>7 DEF Pending
  <2>. QED
    BY <2>1, <2>2, <2>3
<1>. QED
  BY <1>3, <1>5, <1>6, <1>7 DEF Pending

LEMMA FramesPending ==
    ASSUME TypeOK, AllPending
    PROVE  frames # <<>> =>
             /\ Pending(Top, handlers)
             /\ \A i \in 1 .. Len(Front(frames)) : Pending(Front(frames)[i], handlers)
             /\ \A g \in Raising : Pending(g, handlers) =>
                  \A i \in 1 .. Len(SetTop(g)) : Pending(SetTop(g)[i], handlers)
<1>1. \A i \in 1 .. Len(frames) : Pending(frames[i], handlers)
  BY DEF AllPending
<1>2. ASSUME frames # <<>>
      PROVE  /\ Pending(Top, handlers)
             /\ \A i \in 1 .. Len(Front(frames)) : Pending(Front(frames)[i], handlers)
  <2>1. /\ Len(frames) \in Nat \ {0} /\ Top = frames[Len(frames)]
        /\ Len(frames) \in 1 .. Len(frames) /\ Len(Front(frames)) = Len(frames) - 1
        /\ \A i \in 1 .. Len(frames) - 1 : i \in 1 .. Len(frames) /\ Front(frames)[i] = frames[i]
    BY <1>2, TopKnown DEF TypeOK
  <2>. QED
    BY <1>1, <2>1
<1>3. ASSUME frames # <<>>, NEW g \in Raising, Pending(g, handlers), NEW i \in 1 .. Len(SetTop(g))
      PROVE  Pending(SetTop(g)[i], handlers)
  <2>1. /\ Len(frames) \in Nat /\ Len(SetTop(g)) = Len(frames) /\ SetTop(g)[Len(frames)] = g
        /\ \A j \in 1 .. Len(frames) - 1 : SetTop(g)[j] = frames[j]
    BY <1>3, SetTopParts DEF TypeOK
  <2>2. i = Len(frames) \/ (i \in 1 .. Len(frames) - 1 /\ i \in 1 .. Len(frames))
    BY <2>1
  <2>. QED
    BY <1>1, <1>3, <2>1, <2>2
<1>. QED
  BY <1>2, <1>3

LEMMA StepPending == TypeOK /\ AllPending /\ [Next]_vars => AllPending'
<1>. SUFFICES ASSUME TypeOK, AllPending, [Next]_vars PROVE AllPending'
  OBVIOUS
<1>1. ASSUME UNCHANGED <<handlers, frames>> PROVE AllPending'
  BY <1>1 DEF AllPending, Pending, Over
<1>2. ASSUME NEW s \in Sinks, launch(s) PROVE AllPending'
  <2>1. frames' = frames
    BY <1>2 DEF launch
  <2>2. CASE Ready(s)
    BY <1>1, <1>2, <2>1, <2>2 DEF launch
  <2>3. CASE ~ Ready(s)
    <3>1. addListener(s, 0, FALSE)
      BY <1>2, <2>3 DEF launch
    <3>2. Added(s)
      BY <3>1, AddParts
    <3>. QED
      BY <2>1, <3>2, AddedPending
  <2>. QED
    BY <2>2, <2>3
<1>3. ASSUME NEW n \in Names, register(n) PROVE AllPending'
  <2>1. handlers' = handlers
    BY <1>3 DEF register
  <2>2. CASE frames' = frames
    BY <1>1, <2>1, <2>2
  <2>3. ASSUME NEW f \in Raising, Begun(f, n), Len(frames') = Len(frames) + 1,
               frames'[Len(frames) + 1] = f,
               \A i \in 1 .. Len(frames) : frames'[i] = frames[i]
        PROVE  AllPending'
    <3>1. Pending(f, handlers)
      BY <2>3 DEF Begun, Pending, Over
    <3>2. ASSUME NEW i \in 1 .. Len(frames') PROVE Pending(frames'[i], handlers')
      <4>1. i = Len(frames) + 1 \/ i \in 1 .. Len(frames)
        BY <2>3 DEF TypeOK
      <4>. QED
        BY <2>1, <2>3, <3>1, <4>1 DEF AllPending
    <3>. QED
      BY <3>2 DEF AllPending
  <2>. QED
    BY <1>3, <2>2, <2>3, RegisterParts
<1>4. CASE listen
  <2>1. PICK pri \in Priorities, once \in BOOLEAN : addListener(Other, pri, once)
    BY <1>4 DEF listen
  <2>2. pri \in Nat
    BY EventsAssumption
  <2>3. Added(Other) /\ frames' = frames
    BY <1>4, <2>1, <2>2, AddParts DEF listen
  <2>. QED
    BY <2>3, AddedPending
<1>5. CASE removeListener
  <2>1. frames \in Seq(Raising) /\ Carried(frames)
    BY <1>5, RemoveParts DEF TypeOK
  <2>. QED
    BY <2>1, CarriedPending DEF AllPending
<1>6. CASE InvokeSink \/ InvokeOther
  <2>1. PICK h \in Entry, g \in Raising :
          h = Over(Top, handlers)[Top.next] /\ Stepped(g, h) /\ Carried(SetTop(g))
    BY <1>6, SinkParts, OtherParts
  <2>2. Turn /\ frames # <<>>
    BY <1>6 DEF InvokeSink, InvokeOther, Turn
  <2>3. Pending(g, handlers)
    BY <2>1, <2>2, FramesPending, SteppedPending
  <2>4. SetTop(g) \in Seq(Raising) /\ \A i \in 1 .. Len(SetTop(g)) : Pending(SetTop(g)[i], handlers)
    BY <2>2, <2>3, FramesPending, SetTopParts DEF TypeOK
  <2>. QED
    BY <2>1, <2>4, CarriedPending
<1>7. CASE HandlerReturns
  <2>1. frames # <<>>
    BY <1>7 DEF HandlerReturns
  <2>2. CASE Carried(Front(frames))
    BY <2>1, <2>2, TopKnown, FramesPending, CarriedPending DEF TypeOK
  <2>3. ASSUME NEW g \in Raising, Left(g), Carried(SetTop(g)) PROVE AllPending'
    <3>1. Pending(g, handlers)
      BY <2>1, <2>3, FramesPending DEF Left, Pending, Over
    <3>2. SetTop(g) \in Seq(Raising)
          /\ \A i \in 1 .. Len(SetTop(g)) : Pending(SetTop(g)[i], handlers)
      BY <2>1, <3>1, FramesPending, SetTopParts DEF TypeOK
    <3>. QED
      BY <2>3, <3>2, CarriedPending
  <2>. QED
    BY <1>7, <2>2, <2>3, ReturnParts
<1>8. CASE HandlerRaises \/ LoopEnds
  <2>1. frames # <<>> /\ frames' = Front(frames) /\ handlers' = handlers
    BY <1>8 DEF HandlerRaises, LoopEnds
  <2>2. Front(frames) \in Seq(Raising)
    BY <2>1, TopKnown DEF TypeOK
  <2>3. Carried(Front(frames))
    BY <2>1, <2>2, RemovalParts DEF TypeOK
  <2>. QED
    BY <2>1, <2>2, <2>3, FramesPending, CarriedPending
<1>9. CASE UNCHANGED vars
  BY <1>1, <1>9 DEF vars
<1>. QED
  BY <1>2, <1>3, <1>4, <1>5, <1>6, <1>7, <1>8, <1>9 DEF Next

\* At the end of a loop nothing is still to come.
LEMMA EndedCalled ==
    ASSUME TypeOK, AllPending, LoopEnds
    PROVE  \A x \in Top.start : \E i \in 1 .. Len(Top.called) : Top.called[i] = x
<1>1. frames # <<>> /\ Top.next > Len(Over(Top, handlers))
  BY DEF LoopEnds, Loop, Over
<1>2. Top \in Raising /\ Pending(Top, handlers)
  BY <1>1, TopKnown, FramesPending DEF TypeOK
<1>3. Over(Top, handlers) \in Seq(Entry) /\ Top.next \in Nat
  BY <1>2 DEF Over, Raising, TypeOK
<1>. HIDE DEF Top, Over
<1>4. Len(Over(Top, handlers)) \in Nat
  BY <1>3
<1>5. Top.next .. Len(Over(Top, handlers)) = {}
  BY <1>1, <1>3, <1>4
<1>. QED
  BY <1>2, <1>5 DEF Pending

LEMMA StepSkipsNone ==
    ASSUME TypeOK, AllPending, [Next]_vars,
           frames # <<>>, Top.inside = 0, Len(frames') < Len(frames)
    PROVE  Top.start \subseteq ToSet(Top.called)
<1>0. Len(frames) \in Nat
  BY DEF TypeOK
<1>1. CASE LoopEnds
  <2>1. DOMAIN Top.called = 1 .. Len(Top.called)
    BY TopKnown DEF TypeOK, Raising
  <2>. QED
    BY <1>1, <2>1, EndedCalled DEF ToSet
<1>2. ASSUME Len(frames') = Len(frames) PROVE FALSE
  BY <1>0, <1>2
<1>3. ASSUME NEW s \in Sinks, launch(s) PROVE FALSE
  BY <1>2, <1>3 DEF launch
<1>4. ASSUME NEW n \in Names, register(n) PROVE FALSE
  BY <1>0, <1>4, RegisterParts
<1>5. ASSUME listen PROVE FALSE
  BY <1>2, <1>5 DEF listen
<1>6. ASSUME removeListener PROVE FALSE
  BY <1>2, <1>6, RemoveParts DEF Carried
<1>7. ASSUME InvokeSink \/ InvokeOther PROVE FALSE
  <2>1. PICK g \in Raising : Carried(SetTop(g))
    BY <1>7, SinkParts, OtherParts
  <2>2. Len(frames') = Len(SetTop(g))
    BY <2>1 DEF Carried
  <2>. QED
    BY <1>2, <2>2, SetTopParts DEF TypeOK
<1>8. ASSUME HandlerReturns \/ HandlerRaises PROVE FALSE
  BY <1>8 DEF HandlerReturns, HandlerRaises
<1>9. ASSUME UNCHANGED vars PROVE FALSE
  BY <1>2, <1>9 DEF vars
<1>. QED
  BY <1>1, <1>3, <1>4, <1>5, <1>6, <1>7, <1>8, <1>9 DEF Next

\* raiseEvent calls every handler that was there when it began, if it goes to its
\* end, whatever the handlers add, remove or raise meanwhile (revent.py:275-299).
THEOREM NoneEverSkipped == Spec => NoneSkipped
<1>1. Init => AllPending
  BY DEF Init, AllPending
<1>2. TypeOK /\ AllPending /\ [Next]_vars
        => [(frames # <<>> /\ Top.inside = 0 /\ Len(frames') < Len(frames))
              => Top.start \subseteq ToSet(Top.called)]_vars
  BY StepSkipsNone
<1>. QED
  BY <1>1, <1>2, EventsTyped, StepPending, PTL DEF Spec, NoneSkipped

-----------------------------------------------------------------------------
(* What the sinks listen to.                                               *)

LEMMA JoinedSets ==
    ASSUME NEW a \in Seq(Names), NEW q \in Seq(Names), IsInjective(a), IsInjective(q),
           ToSet(a) \cap ToSet(q) = {}
    PROVE  IsInjective(a \o q) /\ ToSet(a \o q) = ToSet(a) \cup ToSet(q)
<1>. DEFINE c == a \o q
<1>1. /\ c \in Seq(Names) /\ Len(c) = Len(a) + Len(q) /\ Len(a) \in Nat /\ Len(q) \in Nat
      /\ \A i \in 1 .. Len(a) : c[i] = a[i]
      /\ \A i \in 1 .. Len(q) : c[Len(a) + i] = q[i]
  BY ONLY a \in Seq(Names), q \in Seq(Names), TogetherParts
<1>. HIDE DEF c
<1>2. /\ DOMAIN a = 1 .. Len(a) /\ DOMAIN q = 1 .. Len(q) /\ DOMAIN c = 1 .. Len(a) + Len(q)
  BY <1>1
<1>3. ASSUME NEW i \in 1 .. Len(a) + Len(q)
      PROVE  \/ i \in 1 .. Len(a) /\ c[i] = a[i] /\ c[i] \in ToSet(a)
             \/ /\ i - Len(a) \in 1 .. Len(q) /\ c[i] = q[i - Len(a)] /\ c[i] \in ToSet(q)
                /\ i = Len(a) + (i - Len(a))
  <2>1. CASE i <= Len(a)
    <3>1. i \in 1 .. Len(a)
      BY <1>1, <2>1
    <3>. QED
      BY <1>1, <1>2, <3>1 DEF ToSet
  <2>2. CASE i > Len(a)
    <3>1. i - Len(a) \in 1 .. Len(q) /\ i = Len(a) + (i - Len(a))
      BY <1>1, <2>2
    <3>2. c[i] = q[i - Len(a)]
      BY <1>1, <3>1
    <3>. QED
      BY <1>2, <3>1, <3>2 DEF ToSet
  <2>. QED
    BY <1>1, <2>1, <2>2
<1>4. ASSUME NEW i \in 1 .. Len(a) + Len(q), NEW j \in 1 .. Len(a) + Len(q), c[i] = c[j]
      PROVE  i = j
  <2>1. CASE i \in 1 .. Len(a) /\ c[i] = a[i] /\ c[i] \in ToSet(a)
    <3>1. j \in 1 .. Len(a) /\ c[j] = a[j]
      BY <1>3, <1>4, <2>1
    <3>2. a[i] = a[j]
      BY <1>4, <2>1, <3>1
    <3>. QED
      BY <1>2, <2>1, <3>1, <3>2 DEF IsInjective
  <2>2. CASE /\ i - Len(a) \in 1 .. Len(q) /\ c[i] = q[i - Len(a)] /\ c[i] \in ToSet(q)
             /\ i = Len(a) + (i - Len(a))
    <3>1. /\ j - Len(a) \in 1 .. Len(q) /\ c[j] = q[j - Len(a)] /\ j = Len(a) + (j - Len(a))
      BY <1>3, <1>4, <2>2
    <3>2. q[i - Len(a)] = q[j - Len(a)]
      BY <1>4, <2>2, <3>1
    <3>3. i - Len(a) = j - Len(a)
      BY <1>2, <2>2, <3>1, <3>2 DEF IsInjective
    <3>. QED
      BY <2>2, <3>1, <3>3
  <2>. QED
    BY <1>3, <2>1, <2>2
<1>5. IsInjective(c)
  BY <1>2, <1>4 DEF IsInjective
<1>6. ToSet(c) \subseteq ToSet(a) \cup ToSet(q)
  BY <1>2, <1>3 DEF ToSet
<1>7. ToSet(a) \subseteq ToSet(c)
  <2>1. ASSUME NEW i \in 1 .. Len(a) PROVE i \in 1 .. Len(a) + Len(q) /\ c[i] = a[i]
    BY <1>1
  <2>. QED
    BY <1>2, <2>1 DEF ToSet
<1>8. ToSet(q) \subseteq ToSet(c)
  <2>1. ASSUME NEW i \in 1 .. Len(q)
        PROVE  Len(a) + i \in 1 .. Len(a) + Len(q) /\ c[Len(a) + i] = q[i]
    BY <1>1
  <2>. QED
    BY <1>2, <2>1 DEF ToSet
<1>. QED
  BY <1>5, <1>6, <1>7, <1>8 DEF c

LEMMA BindBound ==
    ASSUME TypeOK, BoundPart, NEW s \in Sinks, listenToDependencies(s)
    PROVE  BoundPart'
<1>1. /\ wants'[s] = wants[s] \ components
      /\ \A r \in Sinks \ {s} : wants'[r] = wants[r] /\ bound'[r] = bound[r]
  BY BindParts
<1>2. PICK q \in Seq(Names) : /\ bound'[s] = bound[s] \o q /\ IsInjective(q)
                              /\ ToSet(q) = wants[s] \cap components
  BY BindParts
<1>3. PICK a \in Seq(Names) : a = bound[s]
  BY DEF TypeOK
<1>4. IsInjective(a) /\ ToSet(a) \cap wants[s] = {} /\ ToSet(a) \cup wants[s] = Wants[s]
  BY <1>3 DEF BoundPart
<1>5. IsInjective(a \o q) /\ ToSet(a \o q) = ToSet(a) \cup ToSet(q)
  <2>1. ToSet(a) \cap ToSet(q) = {}
    BY <1>2, <1>4
  <2>. QED
    BY <1>2, <1>4, <2>1, JoinedSets
<1>6. IsInjective(bound'[s]) /\ ToSet(bound'[s]) = ToSet(a) \cup (wants[s] \cap components)
  BY <1>2, <1>3, <1>5
<1>7. /\ IsInjective(bound'[s]) /\ ToSet(bound'[s]) \cap wants'[s] = {}
      /\ ToSet(bound'[s]) \cup wants'[s] = Wants[s]
  BY <1>1, <1>4, <1>6
<1>8. ASSUME NEW r \in Sinks
      PROVE  /\ IsInjective(bound'[r]) /\ ToSet(bound'[r]) \cap wants'[r] = {}
             /\ ToSet(bound'[r]) \cup wants'[r] = Wants[r]
  BY <1>1, <1>7 DEF BoundPart
<1>. QED
  BY <1>8 DEF BoundPart

LEMMA InitBound == Init => BoundPart
<1>. SUFFICES ASSUME Init, NEW s \in Sinks
              PROVE  /\ IsInjective(bound[s]) /\ ToSet(bound[s]) \cap wants[s] = {}
                     /\ ToSet(bound[s]) \cup wants[s] = Wants[s]
  BY DEF BoundPart
<1>1. bound[s] = <<>> /\ wants[s] = Wants[s]
  BY DEF Init
<1>2. PICK q : q = <<>>
  OBVIOUS
<1>3. DOMAIN q = {}
  BY <1>2
<1>4. IsInjective(q) /\ ToSet(q) = {}
  BY <1>3 DEF IsInjective, ToSet
<1>. QED
  BY <1>1, <1>2, <1>4

LEMMA StepBound == TypeOK /\ BoundPart /\ [Next]_vars => BoundPart'
<1>. SUFFICES ASSUME TypeOK, BoundPart, [Next]_vars PROVE BoundPart'
  OBVIOUS
<1>1. ASSUME UNCHANGED <<wants, bound>> PROVE BoundPart'
  BY <1>1 DEF BoundPart
<1>2. ASSUME NEW s \in Sinks, launch(s) PROVE BoundPart'
  BY <1>2, BindBound DEF launch
<1>3. CASE InvokeSink
  BY <1>3, SinkParts, BindBound
<1>4. ASSUME NEW n \in Names, register(n) PROVE BoundPart'
  BY <1>1, <1>4 DEF register
<1>5. CASE listen \/ removeListener \/ InvokeOther \/ HandlerReturns \/ HandlerRaises \/ LoopEnds
  BY <1>1, <1>5 DEF listen, removeListener, InvokeOther, HandlerReturns, HandlerRaises, LoopEnds
<1>6. CASE UNCHANGED vars
  BY <1>1, <1>6 DEF vars
<1>. QED
  BY <1>2, <1>3, <1>4, <1>5, <1>6 DEF Next

\* No sink listens to a component twice, and none misses one that it no longer waits
\* for (listenToDependencies, core.py:328-337).
THEOREM EachBoundOnce == Spec => []BoundOnce
<1>1. BoundPart => BoundOnce
  BY DEF BoundPart, BoundOnce
<1>. QED
  BY <1>1, InitBound, StepBound, EventsTyped, PTL DEF Spec

-----------------------------------------------------------------------------
(* The sinks that wait.                                                    *)

\* No listener of s goes.
StillThere(s) ==
    \A j \in 1 .. Len(handlers) :
        handlers[j].who = s => \E i \in 1 .. Len(handlers') : handlers'[i] = handlers[j]

LEMMA AddedStays ==
    ASSUME TypeOK, NEW who, Added(who)
    PROVE  /\ \A s \in Sinks : StillThere(s)
           /\ \E i \in 1 .. Len(handlers') : handlers'[i].who = who
<1>1. PICK e \in Entry, k \in 1 .. Len(handlers) + 1 :
        e.who = who /\ Grown(handlers, handlers', e, k)
  BY DEF Added
<1>2. Len(handlers) \in Nat /\ Len(handlers') = Len(handlers) + 1
  BY <1>1 DEF Grown, TypeOK
<1>3. ASSUME NEW j \in 1 .. Len(handlers)
      PROVE  \E i \in 1 .. Len(handlers') : handlers'[i] = handlers[j]
  <2>1. CASE j < k
    <3>1. j \in 1 .. k - 1 /\ j \in 1 .. Len(handlers')
      BY <1>2, <2>1
    <3>. QED
      BY <1>1, <3>1 DEF Grown
  <2>2. CASE ~ j < k
    <3>1. j \in k .. Len(handlers) /\ j + 1 \in 1 .. Len(handlers')
      BY <1>2, <2>2
    <3>. QED
      BY <1>1, <3>1 DEF Grown
  <2>. QED
    BY <2>1, <2>2
<1>4. handlers'[k].who = who /\ k \in 1 .. Len(handlers')
  BY <1>1 DEF Grown
<1>. QED
  BY <1>3, <1>4 DEF StillThere

LEMMA LostStays ==
    ASSUME NEW o, Owned(o), NEW e, Lost(e), NEW s, o[e] # s
    PROVE  StillThere(s)
BY DEF Owned, OwnedBy, Lost, StillThere

\* Told of a frame of the next state.
NowTold(f) ==
    /\ f.name \in f.known /\ f.known \subseteq components'
    /\ \A s \in launched' : wants'[s] \cap f.known # {} => Before(f, s, handlers')

LEMMA CarriedTold ==
    ASSUME NEW fs \in Seq(Raising), Carried(fs), \A i \in 1 .. Len(fs) : NowTold(fs[i])
    PROVE  AllTold'
<1>1. ASSUME NEW i \in 1 .. Len(frames')
      PROVE  /\ frames'[i].name \in frames'[i].known /\ frames'[i].known \subseteq components'
             /\ \A s \in launched' :
                  wants'[s] \cap frames'[i].known # {} => Before(frames'[i], s, handlers')
  <2>1. i \in 1 .. Len(fs) /\ Same(fs[i], frames'[i])
    BY DEF Carried
  <2>2. NowTold(fs[i])
    BY <2>1
  <2>. QED
    BY <2>1, <2>2 DEF Same, NowTold, Before
<1>. QED
  BY <1>1 DEF AllTold, Told

\* The sinks that still wait keep their listeners, and g has not called them.
Uncalled(s, f, g) ==
    \A j \in 1 .. Len(handlers) :
        /\ handlers[j].who = s
        /\ \A i \in 1 .. Len(f.called) : f.called[i] # handlers[j].eid
        => \A i \in 1 .. Len(g.called) : g.called[i] # handlers[j].eid

LEMMA StillTold ==
    ASSUME NEW f, Told(f, handlers),
           NEW g, g.name = f.name, g.known = f.known, g.start = f.start,
           components \subseteq components',
           \A s \in launched' :
               \/ wants'[s] \cap components = {}
               \/ s \in launched /\ wants'[s] = wants[s] /\ StillThere(s) /\ Uncalled(s, f, g)
    PROVE  NowTold(g)
<1>1. g.name \in g.known /\ g.known \subseteq components
  BY DEF Told
<1>2. ASSUME NEW s \in launched', wants'[s] \cap g.known # {} PROVE Before(g, s, handlers')
  <2>1. s \in launched /\ wants'[s] = wants[s] /\ StillThere(s) /\ Uncalled(s, f, g)
    BY <1>1, <1>2
  <2>2. PICK j \in 1 .. Len(handlers) :
          /\ handlers[j].who = s /\ handlers[j].eid \in f.start
          /\ \A i \in 1 .. Len(f.called) : f.called[i] # handlers[j].eid
    BY <1>2, <2>1 DEF Told, Before
  <2>3. PICK i \in 1 .. Len(handlers') : handlers'[i] = handlers[j]
    BY <2>1, <2>2 DEF StillThere
  <2>4. \A k \in 1 .. Len(g.called) : g.called[k] # handlers[j].eid
    BY <2>1, <2>2 DEF Uncalled
  <2>. QED
    BY <2>2, <2>3, <2>4 DEF Before
<1>. QED
  BY <1>1, <1>2 DEF NowTold

\* Listening, when the others who wait keep theirs.
LEMMA StillListening ==
    ASSUME Listening,
           \A s \in Sinks : s \in launched' =>
               \/ wants'[s] = {}
               \/ s \in launched /\ wants'[s] = wants[s] /\ StillThere(s)
               \/ \E i \in 1 .. Len(handlers') : handlers'[i].who = s
    PROVE  Listening'
<1>1. ASSUME NEW s \in Sinks, s \in launched', wants'[s] # {}
      PROVE  \E i \in 1 .. Len(handlers') : handlers'[i].who = s
  <2>1. CASE s \in launched /\ wants'[s] = wants[s] /\ StillThere(s)
    <3>1. PICK j \in 1 .. Len(handlers) : handlers[j].who = s
      BY <1>1, <2>1 DEF Listening, Waiting
    <3>. QED
      BY <2>1, <3>1 DEF StillThere
  <2>. QED
    BY <1>1, <2>1
<1>. QED
  BY <1>1 DEF Listening, Waiting

\* Announced, when the waiting get no more to wait for, nothing is registered, and
\* no frame goes whose component is not unheard now.
LEMMA StillAnnounced ==
    ASSUME Announced, components' = components, unheard \subseteq unheard',
           \A s \in launched' :
               wants'[s] \cap components = {} \/ (s \in launched /\ wants'[s] = wants[s]),
           \A i \in 1 .. Len(frames) : frames[i].name \notin unheard' =>
               \E j \in 1 .. Len(frames') : frames'[j].name = frames[i].name
    PROVE  Announced'
<1>1. ASSUME NEW s \in launched', NEW n \in wants'[s], n \in components' \ unheard'
      PROVE  \E j \in 1 .. Len(frames') : frames'[j].name = n
  <2>1. s \in launched /\ n \in wants[s] \cap (components \ unheard)
    BY <1>1
  <2>2. PICK i \in 1 .. Len(frames) : frames[i].name = n
    BY <2>1 DEF Announced
  <2>. QED
    BY <1>1, <2>2
<1>. QED
  BY <1>1 DEF Announced

LEMMA FrontNow ==
    ASSUME TypeOK, frames # <<>>, Carried(Front(frames)),
           \A i \in 1 .. Len(frames) : NowTold(frames[i])
    PROVE  /\ AllTold'
           /\ \A i \in 1 .. Len(frames) : frames[i].name # Top.name =>
                \E j \in 1 .. Len(frames') : frames'[j].name = frames[i].name
<1>1. /\ Len(frames) \in Nat \ {0} /\ Top = frames[Len(frames)]
      /\ Len(Front(frames)) = Len(frames) - 1 /\ Front(frames) \in Seq(Raising)
      /\ \A i \in 1 .. Len(frames) - 1 : i \in 1 .. Len(frames) /\ Front(frames)[i] = frames[i]
  BY TopKnown DEF TypeOK
<1>2. \A i \in 1 .. Len(Front(frames)) : NowTold(Front(frames)[i])
  BY <1>1
<1>3. AllTold'
  BY <1>1, <1>2, CarriedTold
<1>4. ASSUME NEW i \in 1 .. Len(frames), frames[i].name # Top.name
      PROVE  \E j \in 1 .. Len(frames') : frames'[j].name = frames[i].name
  <2>1. i # Len(frames)
    BY <1>1, <1>4
  <2>2. i \in 1 .. Len(frames) - 1
    BY <1>1, <2>1
  <2>3. i \in 1 .. Len(frames') /\ Same(Front(frames)[i], frames'[i])
    BY <1>1, <2>2 DEF Carried
  <2>. QED
    BY <1>1, <2>2, <2>3 DEF Same
<1>. QED
  BY <1>3, <1>4

LEMMA SetTopNow ==
    ASSUME TypeOK, frames # <<>>, NEW g \in Raising, g.name = Top.name, Carried(SetTop(g)),
           NowTold(g), \A i \in 1 .. Len(frames) : NowTold(frames[i])
    PROVE  /\ AllTold'
           /\ \A i \in 1 .. Len(frames) :
                \E j \in 1 .. Len(frames') : frames'[j].name = frames[i].name
<1>1. Len(frames) \in Nat \ {0} /\ Top = frames[Len(frames)]
  BY TopKnown DEF TypeOK
<1>2. /\ SetTop(g) \in Seq(Raising) /\ Len(SetTop(g)) = Len(frames)
      /\ SetTop(g)[Len(frames)] = g
      /\ \A i \in 1 .. Len(frames) - 1 : SetTop(g)[i] = frames[i]
  BY SetTopParts DEF TypeOK
<1>3. ASSUME NEW i \in 1 .. Len(frames)
      PROVE  NowTold(SetTop(g)[i]) /\ SetTop(g)[i].name = frames[i].name
  <2>1. i = Len(frames) \/ i \in 1 .. Len(frames) - 1
    BY <1>1
  <2>. QED
    BY <1>1, <1>2, <2>1
<1>4. AllTold'
  BY <1>2, <1>3, CarriedTold
<1>5. ASSUME NEW i \in 1 .. Len(frames)
      PROVE  \E j \in 1 .. Len(frames') : frames'[j].name = frames[i].name
  <2>1. i \in 1 .. Len(frames') /\ Same(SetTop(g)[i], frames'[i])
    BY <1>2 DEF Carried
  <2>. QED
    BY <1>3, <2>1 DEF Same
<1>. QED
  BY <1>4, <1>5

\* A sink has other eids than the listener that is called.
LEMMA SteppedUncalled ==
    ASSUME TypeOK, frames # <<>>, NEW o, Owned(o), NEW g, NEW h, Stepped(g, h), NEW s, o[h.eid] # s
    PROVE  Uncalled(s, Top, g)
<1>1. Len(Top.called) \in Nat
  BY TopKnown DEF TypeOK, Raising
<1>2. ASSUME NEW j \in 1 .. Len(handlers), handlers[j].who = s,
             \A i \in 1 .. Len(Top.called) : Top.called[i] # handlers[j].eid,
             NEW i \in 1 .. Len(g.called)
      PROVE  g.called[i] # handlers[j].eid
  <2>1. i \in 1 .. Len(Top.called) \/ i = Len(Top.called) + 1
    BY <1>1 DEF Stepped
  <2>2. o[handlers[j].eid] = s
    BY <1>2 DEF Owned, OwnedBy
  <2>3. h.eid # handlers[j].eid
    BY <2>2
  <2>. QED
    BY <1>2, <2>1, <2>3 DEF Stepped
<1>. QED
  BY <1>2 DEF Uncalled

LEMMA InitWaits == Init => WaitInv
<1>. SUFFICES ASSUME Init PROVE WaitInv
  OBVIOUS
<1>1. launched = {} /\ Len(frames) = 0
  BY DEF Init
<1>. QED
  BY <1>1 DEF WaitInv, Listening, Waiting, AllTold, Announced

\* A sink is made.
LEMMA LaunchWaits ==
    ASSUME TypeOK, WaitInv, NEW s \in Sinks, launch(s)
    PROVE  WaitInv'
<1>1. /\ launched' = launched \cup {s} /\ launched \subseteq Sinks
      /\ components' = components /\ unheard' = unheard /\ frames' = frames
      /\ listenToDependencies(s)
  BY DEF launch, TypeOK
<1>2. /\ wants'[s] = wants[s] \ components
      /\ \A r \in Sinks \ {s} : wants'[r] = wants[r]
  BY <1>1, BindParts
<1>3. /\ \A r \in Sinks : StillThere(r)
      /\ wants'[s] = {} \/ \E i \in 1 .. Len(handlers') : handlers'[i].who = s
  <2>1. CASE Ready(s)
    <3>1. handlers' = handlers /\ wants'[s] = {}
      BY <1>2, <2>1 DEF launch, Ready
    <3>. QED
      BY <3>1 DEF StillThere
  <2>2. CASE ~ Ready(s)
    <3>1. addListener(s, 0, FALSE)
      BY <2>2 DEF launch
    <3>2. Added(s)
      BY <3>1, AddParts
    <3>. QED
      BY <3>2, AddedStays
  <2>. QED
    BY <2>1, <2>2
<1>4. Listening'
  BY <1>1, <1>2, <1>3, StillListening DEF WaitInv
<1>5. ASSUME NEW i \in 1 .. Len(frames) PROVE NowTold(frames[i])
  <2>1. PICK f : f = frames[i]
    OBVIOUS
  <2>2. Told(f, handlers)
    BY <2>1 DEF WaitInv, AllTold
  <2>3. \A r \in launched' : \/ wants'[r] \cap components = {}
                             \/ r \in launched /\ wants'[r] = wants[r] /\ StillThere(r)
                                /\ Uncalled(r, f, f)
    BY <1>1, <1>2, <1>3 DEF Uncalled
  <2>4. NowTold(f)
    BY <1>1, <2>2, <2>3, StillTold
  <2>. QED
    BY <2>1, <2>4
<1>6. AllTold'
  BY <1>1, <1>5 DEF NowTold, AllTold, Told
<1>7. Announced'
  BY <1>1, <1>2, StillAnnounced DEF WaitInv
<1>. QED
  BY <1>4, <1>6, <1>7 DEF WaitInv

\* A component is registered: an event is raised for it when a sink waits.
LEMMA RegisterWaits ==
    ASSUME TypeOK, WaitInv, NEW n \in Names, register(n)
    PROVE  WaitInv'
<1>1. UNCHANGED <<handlers, wants, launched, unheard>> /\ launched \subseteq Sinks
  BY DEF register, TypeOK
<1>2. Listening'
  BY <1>1 DEF WaitInv, Listening, Waiting
<1>3. components' = components \cup {n}
  BY RegisterParts
<1>4. ASSUME NEW i \in 1 .. Len(frames) PROVE NowTold(frames[i])
  BY <1>1, <1>3 DEF WaitInv, AllTold, Told, NowTold
<1>5. CASE handlers = <<>> /\ frames' = frames
  <2>1. ASSUME NEW s \in launched PROVE wants[s] = {}
    <3>1. Len(handlers) = 0
      BY <1>5
    <3>. QED
      BY <1>1, <3>1 DEF WaitInv, Listening, Waiting
  <2>2. AllTold'
    BY <1>1, <1>4, <1>5 DEF NowTold, AllTold, Told
  <2>3. Announced'
    BY <1>1, <2>1 DEF Announced
  <2>. QED
    BY <1>2, <2>2, <2>3 DEF WaitInv
<1>6. ASSUME NEW f \in Raising, Begun(f, n), Len(frames') = Len(frames) + 1,
             frames'[Len(frames) + 1] = f,
             \A i \in 1 .. Len(frames) : frames'[i] = frames[i]
      PROVE  WaitInv'
  <2>0. Len(frames) \in Nat
    BY DEF TypeOK
  <2>1. NowTold(f)
    <3>1. f.name \in f.known /\ f.known = components'
      BY <1>3, <1>6 DEF Begun
    <3>2. ASSUME NEW s \in launched', wants'[s] \cap f.known # {} PROVE Before(f, s, handlers')
      <4>1. PICK i \in 1 .. Len(handlers) : handlers[i].who = s
        BY <1>1, <3>2 DEF WaitInv, Listening, Waiting
      <4>2. handlers[i].eid \in f.start /\ Len(f.called) = 0
        BY <1>6, <4>1 DEF Begun
      <4>. QED
        BY <1>1, <4>1, <4>2 DEF Before
    <3>. QED
      BY <3>1, <3>2 DEF NowTold
  <2>2. ASSUME NEW i \in 1 .. Len(frames') PROVE NowTold(frames'[i])
    <3>1. i = Len(frames) + 1 \/ i \in 1 .. Len(frames)
      BY <1>6, <2>0
    <3>. QED
      BY <1>4, <1>6, <2>1, <3>1
  <2>3. AllTold'
    BY <2>2 DEF AllTold, Told, NowTold
  <2>4. ASSUME NEW s \in launched', NEW m \in wants'[s] \cap (components' \ unheard')
        PROVE  \E i \in 1 .. Len(frames') : frames'[i].name = m
    <3>1. CASE m = n
      <4>1. Len(frames) + 1 \in 1 .. Len(frames') /\ f.name = n
        BY <1>6, <2>0 DEF Begun
      <4>. QED
        BY <1>6, <3>1, <4>1
    <3>2. CASE m # n
      <4>1. PICK i \in 1 .. Len(frames) : frames[i].name = m
        BY <1>1, <1>3, <2>4, <3>2 DEF WaitInv, Announced
      <4>2. i \in 1 .. Len(frames')
        BY <1>6, <2>0
      <4>. QED
        BY <1>6, <4>1, <4>2
    <3>. QED
      BY <3>1, <3>2
  <2>5. Announced'
    BY <2>4 DEF Announced
  <2>. QED
    BY <1>2, <2>3, <2>5 DEF WaitInv
<1>. QED
  BY <1>5, <1>6, RegisterParts

\* The steps in which no sink looks for anything.
LEMMA QuietTold ==
    ASSUME TypeOK, WaitInv, UNCHANGED <<components, wants, launched>>,
           \A s \in Sinks : StillThere(s)
    PROVE  /\ Listening'
           /\ \A i \in 1 .. Len(frames) : NowTold(frames[i])
<1>1. launched \subseteq Sinks
  BY DEF TypeOK
<1>2. Listening'
  BY StillListening DEF WaitInv
<1>3. ASSUME NEW i \in 1 .. Len(frames) PROVE NowTold(frames[i])
  <2>1. PICK f : f = frames[i]
    OBVIOUS
  <2>2. Told(f, handlers)
    BY <2>1 DEF WaitInv, AllTold
  <2>3. \A r \in launched' : \/ wants'[r] \cap components = {}
                             \/ r \in launched /\ wants'[r] = wants[r] /\ StillThere(r)
                                /\ Uncalled(r, f, f)
    BY <1>1 DEF Uncalled
  <2>4. NowTold(f)
    BY <2>2, <2>3, StillTold
  <2>. QED
    BY <2>1, <2>4
<1>. QED
  BY <1>2, <1>3

LEMMA ListenWaits ==
    ASSUME TypeOK, OwnersKnown, WaitInv, listen \/ removeListener
    PROVE  WaitInv'
<1>0. PICK o \in [1 .. eid -> Sinks \cup {Other}] : Owned(o)
  BY DEF OwnersKnown
<1>1. UNCHANGED <<components, wants, launched, unheard>>
  BY DEF listen, removeListener
<1>2. CASE listen
  <2>1. PICK pri \in Priorities, once \in BOOLEAN : addListener(Other, pri, once)
    BY <1>2 DEF listen
  <2>2. pri \in Nat
    BY EventsAssumption
  <2>3. Added(Other) /\ frames' = frames
    BY <1>2, <2>1, <2>2, AddParts DEF listen
  <2>4. \A s \in Sinks : StillThere(s)
    BY <2>3, AddedStays
  <2>5. Listening' /\ \A i \in 1 .. Len(frames) : NowTold(frames[i])
    BY <1>1, <2>4, QuietTold
  <2>6. AllTold'
    BY <2>3, <2>5 DEF AllTold, Told, NowTold
  <2>7. Announced'
    BY <1>1, <2>3 DEF Announced, WaitInv
  <2>. QED
    BY <2>5, <2>6, <2>7 DEF WaitInv
<1>3. CASE removeListener
  <2>1. PICK j \in 1 .. Len(handlers) :
          handlers[j].who = Other /\ Lost(handlers[j].eid) /\ Carried(frames)
    BY <1>3, RemoveParts
  <2>2. o[handlers[j].eid] = Other
    BY <1>0, <2>1 DEF Owned, OwnedBy
  <2>3. \A s \in Sinks : StillThere(s)
    BY <1>0, <2>1, <2>2, LostStays, EventsAssumption
  <2>4. Listening' /\ \A i \in 1 .. Len(frames) : NowTold(frames[i])
    BY <1>1, <2>3, QuietTold
  <2>5. frames \in Seq(Raising)
    BY DEF TypeOK
  <2>6. AllTold'
    BY <2>1, <2>4, <2>5, CarriedTold
  <2>7. \A i \in 1 .. Len(frames) : \E k \in 1 .. Len(frames') : frames'[k].name = frames[i].name
    BY <2>1 DEF Carried, Same
  <2>8. Announced'
    BY <1>1, <2>7 DEF Announced, WaitInv
  <2>. QED
    BY <2>4, <2>6, <2>8 DEF WaitInv
<1>. QED
  BY <1>2, <1>3

\* A sink looks again: it finds all that is there, and goes only if nothing is left.
LEMMA SinkWaits ==
    ASSUME TypeOK, OwnersKnown, WaitInv, InvokeSink
    PROVE  WaitInv'
<1>0. PICK o \in [1 .. eid -> Sinks \cup {Other}] : Owned(o)
  BY DEF OwnersKnown
<1>1. UNCHANGED <<components, launched, unheard>> /\ Turn /\ launched \subseteq Sinks
  BY DEF InvokeSink, TypeOK
<1>2. PICK h \in Entry, g \in Raising :
        /\ h = Over(Top, handlers)[Top.next] /\ h.who \in Sinks
        /\ listenToDependencies(h.who) /\ Stepped(g, h)
        /\ Carried(SetTop(g)) /\ Lost(h.eid)
        /\ Ready(h.who) \/ handlers' = handlers
  BY SinkParts
<1>3. frames # <<>> /\ Top.next \in 1 .. Len(Over(Top, handlers))
  BY <1>1, TurnParts
<1>4. o[h.eid] = h.who
  BY <1>0, <1>2, <1>3, FramesOwned DEF OwnedBy
<1>5. /\ wants'[h.who] = wants[h.who] \ components
      /\ \A r \in Sinks \ {h.who} : wants'[r] = wants[r]
  BY <1>2, BindParts
<1>6. \A r \in Sinks \ {h.who} : StillThere(r)
  BY <1>0, <1>2, <1>4, LostStays
<1>7. wants'[h.who] = {} \/ (wants'[h.who] \subseteq wants[h.who] /\ handlers' = handlers)
  BY <1>2, <1>5 DEF Ready
<1>8. Listening'
  <2>1. ASSUME NEW s \in Sinks, s \in launched'
        PROVE  \/ wants'[s] = {}
               \/ s \in launched /\ wants'[s] = wants[s] /\ StillThere(s)
               \/ \E i \in 1 .. Len(handlers') : handlers'[i].who = s
    <3>1. CASE s # h.who
      BY <1>1, <1>5, <1>6, <2>1, <3>1
    <3>2. CASE s = h.who
      BY <1>1, <1>7, <2>1, <3>2 DEF WaitInv, Listening, Waiting
    <3>. QED
      BY <3>1, <3>2
  <2>. QED
    BY <2>1, StillListening DEF WaitInv
<1>9. ASSUME NEW i \in 1 .. Len(frames) PROVE NowTold(frames[i])
  <2>1. PICK f : f = frames[i]
    OBVIOUS
  <2>2. Told(f, handlers)
    BY <2>1 DEF WaitInv, AllTold
  <2>3. \A r \in launched' : \/ wants'[r] \cap components = {}
                             \/ r \in launched /\ wants'[r] = wants[r] /\ StillThere(r)
                                /\ Uncalled(r, f, f)
    BY <1>1, <1>5, <1>6 DEF Uncalled
  <2>4. NowTold(f)
    BY <1>1, <2>2, <2>3, StillTold
  <2>. QED
    BY <2>1, <2>4
<1>10. NowTold(g)
  <2>1. Len(frames) \in 1 .. Len(frames) /\ Top = frames[Len(frames)]
    BY <1>3, TopKnown DEF TypeOK
  <2>2. Told(Top, handlers)
    BY <2>1 DEF WaitInv, AllTold
  <2>3. g.name = Top.name /\ g.known = Top.known /\ g.start = Top.start
    BY <1>2 DEF Stepped
  <2>4. \A r \in Sinks \ {h.who} : Uncalled(r, Top, g)
    BY <1>0, <1>2, <1>3, <1>4, SteppedUncalled
  <2>5. \A r \in launched' : \/ wants'[r] \cap components = {}
                             \/ r \in launched /\ wants'[r] = wants[r] /\ StillThere(r)
                                /\ Uncalled(r, Top, g)
    BY <1>1, <1>5, <1>6, <2>4
  <2>. QED
    BY <1>1, <2>2, <2>3, <2>5, StillTold
<1>11. g.name = Top.name
  BY <1>2 DEF Stepped
<1>12. /\ AllTold'
       /\ \A i \in 1 .. Len(frames) :
            \E j \in 1 .. Len(frames') : frames'[j].name = frames[i].name
  BY <1>2, <1>3, <1>9, <1>10, <1>11, SetTopNow
<1>13. Announced'
  BY <1>1, <1>5, <1>12, StillAnnounced DEF WaitInv
<1>. QED
  BY <1>8, <1>12, <1>13 DEF WaitInv

LEMMA OtherWaits ==
    ASSUME TypeOK, OwnersKnown, WaitInv, InvokeOther
    PROVE  WaitInv'
<1>0. PICK o \in [1 .. eid -> Sinks \cup {Other}] : Owned(o)
  BY DEF OwnersKnown
<1>1. UNCHANGED <<components, handlers, wants, launched, unheard>> /\ Turn
      /\ launched \subseteq Sinks
  BY DEF InvokeOther, TypeOK
<1>2. PICK h \in Entry, g \in Raising :
        /\ h = Over(Top, handlers)[Top.next] /\ h.who = Other
        /\ Stepped(g, h) /\ Carried(SetTop(g))
  BY OtherParts
<1>3. frames # <<>> /\ Top.next \in 1 .. Len(Over(Top, handlers))
  BY <1>1, TurnParts
<1>4. o[h.eid] = Other
  BY <1>0, <1>2, <1>3, FramesOwned DEF OwnedBy
<1>5. \A s \in Sinks : StillThere(s)
  BY <1>1 DEF StillThere
<1>6. Listening' /\ \A i \in 1 .. Len(frames) : NowTold(frames[i])
  BY <1>1, <1>5, QuietTold
<1>7. NowTold(g)
  <2>1. Len(frames) \in 1 .. Len(frames) /\ Top = frames[Len(frames)]
    BY <1>3, TopKnown DEF TypeOK
  <2>2. Told(Top, handlers)
    BY <2>1 DEF WaitInv, AllTold
  <2>3. g.name = Top.name /\ g.known = Top.known /\ g.start = Top.start
    BY <1>2 DEF Stepped
  <2>4. \A r \in Sinks : Uncalled(r, Top, g)
    BY <1>0, <1>2, <1>3, <1>4, SteppedUncalled, EventsAssumption
  <2>5. \A r \in launched' : r \in launched /\ wants'[r] = wants[r] /\ StillThere(r)
                             /\ Uncalled(r, Top, g)
    BY <1>1, <1>5, <2>4
  <2>. QED
    BY <1>1, <2>2, <2>3, <2>5, StillTold
<1>8. g.name = Top.name
  BY <1>2 DEF Stepped
<1>9. /\ AllTold'
      /\ \A i \in 1 .. Len(frames) :
           \E j \in 1 .. Len(frames') : frames'[j].name = frames[i].name
  BY <1>2, <1>3, <1>6, <1>7, <1>8, SetTopNow
<1>10. Announced'
  BY <1>1, <1>9, StillAnnounced DEF WaitInv
<1>. QED
  BY <1>6, <1>9, <1>10 DEF WaitInv

\* Another listener's handler is left: it may take itself away, and end the event.
LEMMA LeaveWaits ==
    ASSUME TypeOK, OwnersKnown, WaitInv, HandlerReturns \/ HandlerRaises
    PROVE  WaitInv'
<1>0. PICK o \in [1 .. eid -> Sinks \cup {Other}] : Owned(o)
  BY DEF OwnersKnown
<1>1. UNCHANGED <<components, wants, launched>> /\ launched \subseteq Sinks
      /\ frames # <<>> /\ Top.inside # 0
  BY DEF HandlerReturns, HandlerRaises, TypeOK
<1>2. o[Top.inside] = Other
  BY <1>0, <1>1, FramesOwned DEF OwnedFrame
<1>3. \A s \in Sinks : StillThere(s)
  <2>1. CASE HandlerReturns
    <3>1. Lost(Top.inside)
      BY <2>1, ReturnParts
    <3>. QED
      BY <1>0, <1>2, <3>1, LostStays, EventsAssumption
  <2>2. CASE HandlerRaises
    BY <2>2 DEF HandlerRaises, StillThere
  <2>. QED
    BY <2>1, <2>2
<1>4. Listening' /\ \A i \in 1 .. Len(frames) : NowTold(frames[i])
  BY <1>1, <1>3, QuietTold
<1>5. ASSUME Carried(Front(frames)), unheard' = unheard \cup {Top.name} PROVE WaitInv'
  <2>1. /\ AllTold'
        /\ \A i \in 1 .. Len(frames) : frames[i].name # Top.name =>
             \E j \in 1 .. Len(frames') : frames'[j].name = frames[i].name
    BY <1>1, <1>4, <1>5, FrontNow
  <2>2. \A i \in 1 .. Len(frames) : frames[i].name \notin unheard' =>
             \E j \in 1 .. Len(frames') : frames'[j].name = frames[i].name
    BY <1>5, <2>1
  <2>3. Announced'
    BY <1>1, <1>5, <2>2, StillAnnounced DEF WaitInv
  <2>. QED
    BY <1>4, <2>1, <2>3 DEF WaitInv
<1>6. ASSUME NEW g \in Raising, Left(g), Carried(SetTop(g)), unheard' = unheard PROVE WaitInv'
  <2>1. /\ Top = frames[Len(frames)] /\ Len(frames) \in 1 .. Len(frames)
    BY <1>1, TopKnown DEF TypeOK
  <2>2. NowTold(Top)
    BY <1>4, <2>1
  <2>3. NowTold(g)
    BY <1>6, <2>2 DEF NowTold, Before, Left
  <2>4. g.name = Top.name
    BY <1>6 DEF Left
  <2>5. /\ AllTold'
        /\ \A i \in 1 .. Len(frames) :
             \E j \in 1 .. Len(frames') : frames'[j].name = frames[i].name
    BY <1>1, <1>4, <1>6, <2>3, <2>4, SetTopNow
  <2>6. Announced'
    BY <1>1, <1>6, <2>5, StillAnnounced DEF WaitInv
  <2>. QED
    BY <1>4, <2>5, <2>6 DEF WaitInv
<1>7. CASE HandlerReturns
  BY <1>5, <1>6, <1>7, ReturnParts
<1>8. CASE HandlerRaises
  <2>1. frames' = Front(frames) /\ unheard' = unheard \cup {Top.name} /\ handlers' = handlers
    BY <1>8 DEF HandlerRaises
  <2>2. Front(frames) \in Seq(Raising)
    BY <1>1, TopKnown DEF TypeOK
  <2>3. Carried(Front(frames))
    BY <2>1, <2>2, RemovalParts DEF TypeOK
  <2>. QED
    BY <1>5, <2>1, <2>3
<1>. QED
  BY <1>7, <1>8

\* A loop ends: of what it knows of, no sink waits for anything.
LEMMA EndWaits ==
    ASSUME TypeOK, AllPending, WaitInv, LoopEnds
    PROVE  WaitInv'
<1>1. /\ UNCHANGED <<components, handlers, wants, launched>> /\ launched \subseteq Sinks
      /\ frames # <<>> /\ frames' = Front(frames) /\ unheard' = unheard \ Top.known
  BY DEF LoopEnds, TypeOK
<1>2. \A s \in Sinks : StillThere(s)
  BY <1>1 DEF StillThere
<1>3. Listening' /\ \A i \in 1 .. Len(frames) : NowTold(frames[i])
  BY <1>1, <1>2, QuietTold
<1>4. Carried(Front(frames))
  <2>1. Front(frames) \in Seq(Raising)
    BY <1>1, TopKnown DEF TypeOK
  <2>. QED
    BY <1>1, <2>1, RemovalParts DEF TypeOK
<1>5. /\ AllTold'
      /\ \A i \in 1 .. Len(frames) : frames[i].name # Top.name =>
           \E j \in 1 .. Len(frames') : frames'[j].name = frames[i].name
  BY <1>1, <1>3, <1>4, FrontNow
<1>6. Told(Top, handlers)
  <2>1. Len(frames) \in 1 .. Len(frames) /\ Top = frames[Len(frames)]
    BY <1>1, TopKnown DEF TypeOK
  <2>. QED
    BY <2>1 DEF WaitInv, AllTold
<1>7. ASSUME NEW s \in launched PROVE wants[s] \cap Top.known = {}
  <2>1. ASSUME Before(Top, s, handlers) PROVE FALSE
    <3>1. PICK x \in Top.start : \A j \in 1 .. Len(Top.called) : Top.called[j] # x
      BY <2>1 DEF Before
    <3>. QED
      BY <3>1, EndedCalled
  <2>. QED
    BY <1>6, <2>1 DEF Told
<1>8. ASSUME NEW s \in launched', NEW n \in wants'[s] \cap (components' \ unheard')
      PROVE  \E j \in 1 .. Len(frames') : frames'[j].name = n
  <2>1. n \notin Top.known /\ n \in wants[s] \cap (components \ unheard)
    BY <1>1, <1>7, <1>8
  <2>2. PICK i \in 1 .. Len(frames) : frames[i].name = n
    BY <1>1, <1>8, <2>1 DEF WaitInv, Announced
  <2>3. frames[i].name # Top.name
    BY <1>6, <2>1, <2>2 DEF Told
  <2>. QED
    BY <1>5, <2>2, <2>3
<1>9. Announced'
  BY <1>8 DEF Announced
<1>. QED
  BY <1>3, <1>5, <1>9 DEF WaitInv

LEMMA StepWaits == TypeOK /\ OwnersKnown /\ AllPending /\ WaitInv /\ [Next]_vars => WaitInv'
<1>. SUFFICES ASSUME TypeOK, OwnersKnown, AllPending, WaitInv, [Next]_vars PROVE WaitInv'
  OBVIOUS
<1>1. CASE UNCHANGED vars
  BY <1>1 DEF vars, WaitInv, Listening, Waiting, AllTold, Told, Before, Announced
<1>. QED
  BY <1>1, LaunchWaits, RegisterWaits, ListenWaits, SinkWaits, OtherWaits, LeaveWaits, EndWaits
     DEF Next

\* A sink ends up listening to each component it depends on, once, whatever order and
\* depth they are registered in, unless a handler stops an event or fails (raiseEvent,
\* revent.py:275-299, and listenToDependencies, core.py:328-337).
THEOREM EachBoundWhenThere == Spec => []BoundWhenThere
<1>1. ASSUME TypeOK, BoundPart, WaitInv PROVE BoundWhenThere
  <2>1. BoundOnce
    BY <1>1 DEF BoundPart, BoundOnce
  <2>2. ASSUME frames = <<>>, NEW s \in launched, Wants[s] \subseteq components \ unheard
        PROVE  ToSet(bound[s]) = Wants[s]
    <3>1. s \in Sinks
      BY <1>1 DEF TypeOK
    <3>2. ToSet(bound[s]) \cup wants[s] = Wants[s]
      BY <1>1, <3>1 DEF BoundPart
    <3>3. Len(frames) = 0
      BY <2>2
    <3>4. wants[s] \cap (components \ unheard) = {}
      BY <1>1, <2>2, <3>3 DEF WaitInv, Announced
    <3>. QED
      BY <2>2, <3>2, <3>4
  <2>. QED
    BY <2>1, <2>2 DEF BoundWhenThere, ReadyWhenThere
<1>2. Init => AllPending
  BY DEF Init, AllPending
<1>. QED
  BY <1>1, <1>2, InitOwned, StepOwned, StepPending, InitBound, StepBound, InitWaits, StepWaits,
     EventsTyped, PTL DEF Spec
=============================================================================
