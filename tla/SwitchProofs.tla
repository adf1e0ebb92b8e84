---------------------------- MODULE SwitchProofs ----------------------------
(***************************************************************************)
(* Proofs about Switch: that every packet in a buffer of the switch still  *)
(* has an answer coming (BufferHasAnswer), what the roles of the           *)
(* controllers allow (RolesKept), and that a packet for a host goes only   *)
(* where that host has sent from (SentWhereSeen).                          *)
(*                                                                         *)
(* The first two hold whatever a list of actions does to a packet, so that *)
(* sequences are sequences of anything, and a step is judged by the        *)
(* elements it adds to a queue and takes from it.  The third is about what *)
(* the actions do: its invariant says of every list of actions, in a       *)
(* message or in the flow table, which packets it may be applied to, and   *)
(* of every buffer_id on its way that no other names the same slot, so     *)
(* that an answer meets the packet that it answers.                        *)
(***************************************************************************)
EXTENDS Switch, FiniteSetTheorems, WellFoundedInduction, TLAPS

IsSeq(s) == s \in Seq(Range(s))

\* A message to the switch: only a flow_mod or a packet_out names a buffer.
Sendable(m) ==
    m.buffer_id \in Nat /\ (m.type \notin {"flow_mod", "packet_out"} => m.buffer_id = 0)

\* The packet_ins, the messages to the switch and those it is reading.
CtlOK ==
    /\ DOMAIN toCtl = Conns
    /\ \A c \in Conns : IsSeq(toCtl[c]) /\ \A m \in Range(toCtl[c]) : m.id \in Nat
SentOK ==
    /\ DOMAIN toSwitch = Conns
    /\ \A c \in Conns : IsSeq(toSwitch[c]) /\ \A m \in Range(toSwitch[c]) : Sendable(m)
WaitingOK ==
    /\ DOMAIN waiting = Conns
    /\ \A c \in Conns : IsSeq(waiting[c]) /\ \A m \in Range(waiting[c]) : Sendable(m)

\* One master at most, and a connection left in connection_in_action is the
\* trace of a handler that raised.
RoleOK ==
    /\ DOMAIN role \subseteq Conns
    /\ \A c, d \in DOMAIN role : role[c] = "master" /\ role[d] = "master" => c = d
ActiveOK ==
    /\ reading \in Conns \cup {None} /\ next_other \in Nat
    /\ connection_in_action # None => connection_in_action \in Conns /\ faulty

SwitchInv ==
    CtlOK /\ SentOK /\ WaitingOK /\ RoleOK /\ ActiveOK /\ IsSeq(buffer)

\* No packet_in is lost in a step.
CtlKept == \A c \in Conns : Range(toCtl[c]) \subseteq Range(toCtl'[c])

\* What handling message m of connection c does: a packet that is in a buffer
\* afterwards was there before and is not the one m names, or is given up, or
\* has just been announced to c; and a slave is not served.
Served(c, m) ==
    /\ CtlOK' /\ CtlKept /\ RoleOK' /\ ActiveOK' /\ IsSeq(buffer') /\ stuck \subseteq stuck'
    /\ \A d \in Conns : d # c => toCtl'[d] = toCtl[d]
    /\ \A i \in DOMAIN buffer' : buffer'[i] # Free =>
         \/ i \in DOMAIN buffer /\ buffer[i] # Free /\ i # m.buffer_id
         \/ i \in stuck'
         \/ \E x \in Range(toCtl'[c]) : x.id = i
    /\ role[c] = "slave" => table' = table /\ buffer' = buffer /\ out' = <<>>

-----------------------------------------------------------------------------
(* Sequences by their elements.                                            *)

LEMMA SeqOfElements ==
    ASSUME NEW S, NEW s \in Seq(S)
    PROVE  IsSeq(s)
<1>1. DOMAIN s = 1 .. Len(s) /\ Len(s) \in Nat
  OBVIOUS
<1>2. \A i \in 1 .. Len(s) : s[i] \in Range(s)
  BY <1>1 DEF Range
<1>. QED
  BY <1>1, <1>2 DEF IsSeq

LEMMA SeqOver ==
    ASSUME NEW s, IsSeq(s), NEW S, Range(s) \subseteq S
    PROVE  s \in Seq(S)
<1>1. s \in Seq(Range(s))
  BY DEF IsSeq
<1>2. PICK R : R = Range(s)
  OBVIOUS
<1>3. s \in Seq(R) /\ R \subseteq S
  BY <1>1, <1>2
<1>. QED
  BY <1>3

LEMMA EmptyIsSeq == IsSeq(<<>>) /\ Range(<<>>) = {}
<1>1. <<>> \in Seq({})
  OBVIOUS
<1>2. DOMAIN <<>> = {}
  OBVIOUS
<1>3. Range(<<>>) = {}
  BY <1>2, Zenon DEF Range
<1>4. IsSeq(<<>>)
  BY <1>1, SeqOfElements
<1>. QED
  BY <1>3, <1>4

LEMMA SingleIsSeq ==
    ASSUME NEW x
    PROVE  IsSeq(<<x>>) /\ Range(<<x>>) = {x}
<1>1. PICK s : s = <<x>>
  OBVIOUS
<1>2. s \in Seq({x}) /\ DOMAIN s = {1} /\ s[1] = x
  BY <1>1
<1>3. IsSeq(s) /\ Range(s) = {x}
  BY <1>2, SeqOfElements DEF Range
<1>. QED
  BY <1>1, <1>3

LEMMA AppendElements ==
    ASSUME NEW s, IsSeq(s), NEW x
    PROVE  /\ IsSeq(Append(s, x)) /\ Range(Append(s, x)) = Range(s) \cup {x}
           /\ Len(s) \in Nat /\ Len(Append(s, x)) = Len(s) + 1
           /\ DOMAIN s = 1 .. Len(s) /\ DOMAIN Append(s, x) = 1 .. Len(s) + 1
           /\ \A i \in 1 .. Len(s) : Append(s, x)[i] = s[i]
           /\ Append(s, x)[Len(s) + 1] = x
<1>1. PICK S : S = Range(s) \cup {x}
  OBVIOUS
<1>2. s \in Seq(S) /\ x \in S
  BY <1>1, SeqOver
<1>3. PICK t : t = Append(s, x)
  OBVIOUS
<1>4. /\ t \in Seq(S) /\ Len(s) \in Nat /\ Len(t) = Len(s) + 1
      /\ DOMAIN s = 1 .. Len(s) /\ DOMAIN t = 1 .. Len(s) + 1
      /\ \A i \in 1 .. Len(s) : t[i] = s[i]
      /\ t[Len(s) + 1] = x
  BY <1>2, <1>3
<1>5. IsSeq(t)
  BY <1>4, SeqOfElements
<1>6. Range(t) = Range(s) \cup {x}
  BY <1>4 DEF Range
<1>. QED
  BY <1>3, <1>4, <1>5, <1>6

LEMMA TailElements ==
    ASSUME NEW s, IsSeq(s), s # <<>>
    PROVE  /\ IsSeq(Tail(s)) /\ Range(s) = {Head(s)} \cup Range(Tail(s))
           /\ Len(s) \in Nat /\ Len(Tail(s)) = Len(s) - 1
<1>1. PICK S : S = Range(s)
  OBVIOUS
<1>2. s \in Seq(S) 
  BY <1>1, SeqOver
<1>3. PICK t : t = Tail(s)
  OBVIOUS
<1>4. /\ t \in Seq(S) /\ Len(s) \in Nat /\ Len(t) = Len(s) - 1 /\ Len(s) > 0
      /\ DOMAIN s = 1 .. Len(s) /\ DOMAIN t = 1 .. Len(s) - 1
      /\ \A i \in 1 .. Len(s) - 1 : t[i] = s[i + 1]
      /\ s[1] = Head(s)
  BY <1>2, <1>3
<1>5. IsSeq(t)
  BY <1>4, SeqOfElements
<1>6. ASSUME NEW e \in Range(s) PROVE e = Head(s) \/ e \in Range(t)
  <2>1. PICK i \in 1 .. Len(s) : e = s[i]
    BY <1>4, <1>6 DEF Range
  <2>2. CASE i # 1
    <3>1. i - 1 \in 1 .. Len(s) - 1 /\ t[i - 1] = s[(i - 1) + 1] /\ (i - 1) + 1 = i
      BY <1>4, <2>1, <2>2
    <3>. QED
      BY <1>4, <2>1, <3>1 DEF Range
  <2>. QED
    BY <1>4, <2>1, <2>2
<1>7. Range(t) \subseteq Range(s) /\ Head(s) \in Range(s)
  <2>1. \A i \in 1 .. Len(s) - 1 : i + 1 \in 1 .. Len(s)
    BY <1>4
  <2>2. 1 \in 1 .. Len(s)
    BY <1>4
  <2>. QED
    BY <1>4, <2>1, <2>2 DEF Range
<1>. QED
  BY <1>3, <1>4, <1>5, <1>6, <1>7

LEMMA ConcatElements ==
    ASSUME NEW s, IsSeq(s), NEW t, IsSeq(t)
    PROVE  IsSeq(s \o t) /\ Range(s \o t) = Range(s) \cup Range(t)
<1>1. PICK S : S = Range(s) \cup Range(t)
  OBVIOUS
<1>2. s \in Seq(S) /\ t \in Seq(S)
  BY <1>1, SeqOver
<1>3. PICK u : u = s \o t
  OBVIOUS
<1>4. /\ u \in Seq(S) /\ Len(s) \in Nat /\ Len(t) \in Nat /\ Len(u) = Len(s) + Len(t)
      /\ DOMAIN s = 1 .. Len(s) /\ DOMAIN t = 1 .. Len(t) /\ DOMAIN u = 1 .. Len(s) + Len(t)
      /\ \A i \in 1 .. Len(s) : u[i] = s[i]
      /\ \A i \in 1 .. Len(t) : u[Len(s) + i] = t[i]
  BY <1>2, <1>3
<1>5. IsSeq(u) /\ Range(u) \subseteq S
  BY <1>4, SeqOfElements DEF Range
<1>6. Range(s) \subseteq Range(u)
  BY <1>4 DEF Range
<1>7. Range(t) \subseteq Range(u)
  <2>1. \A i \in 1 .. Len(t) : Len(s) + i \in 1 .. Len(s) + Len(t)
    BY <1>4
  <2>. QED
    BY <1>4, <2>1 DEF Range
<1>. QED
  BY <1>1, <1>3, <1>5, <1>6, <1>7

LEMMA SplitElements ==
    ASSUME NEW s, IsSeq(s), NEW n \in 1 .. Len(s)
    PROVE  /\ IsSeq(SubSeq(s, 1, n)) /\ IsSeq(SubSeq(s, n + 1, Len(s)))
           /\ Range(s) = Range(SubSeq(s, 1, n)) \cup Range(SubSeq(s, n + 1, Len(s)))
<1>1. PICK S : S = Range(s)
  OBVIOUS
<1>2. s \in Seq(S) 
  BY <1>1, SeqOver
<1>3. PICK t, u : t = SubSeq(s, 1, n) /\ u = SubSeq(s, n + 1, Len(s))
  OBVIOUS
<1>4. /\ t \in Seq(S) /\ u \in Seq(S) /\ Len(s) \in Nat
      /\ DOMAIN s = 1 .. Len(s) /\ DOMAIN t = 1 .. n /\ DOMAIN u = 1 .. Len(s) - n
      /\ \A i \in 1 .. n : t[i] = s[i]
      /\ \A i \in 1 .. Len(s) - n : u[i] = s[n + i]
  BY <1>2, <1>3
<1>5. IsSeq(t) /\ IsSeq(u)
  BY <1>4, SeqOfElements
<1>6. Range(t) \cup Range(u) \subseteq Range(s)
  BY <1>1, <1>4 DEF Range
<1>7. ASSUME NEW e \in Range(s) PROVE e \in Range(t) \cup Range(u)
  <2>1. PICK i \in 1 .. Len(s) : e = s[i]
    BY <1>4, <1>7 DEF Range
  <2>2. CASE i <= n
    BY <1>4, <2>1, <2>2 DEF Range
  <2>3. CASE i > n
    <3>1. i - n \in 1 .. Len(s) - n /\ u[i - n] = s[n + (i - n)] /\ n + (i - n) = i
      BY <1>4, <2>1, <2>3
    <3>. QED
      BY <1>4, <2>1, <3>1 DEF Range
  <2>. QED
    BY <2>1, <2>2, <2>3
<1>. QED
  BY <1>3, <1>5, <1>6, <1>7

-----------------------------------------------------------------------------
(* The buffers.                                                            *)

\* Of some numbers one is the least.
LEMMA Least ==
    ASSUME NEW I, I \subseteq Nat, I # {}
    PROVE  /\ \E x \in I : \A y \in I : x <= y
           /\ Min(I) \in I
<1>1. PICK x \in I : \A y \in I : ~ (<<y, x>> \in OpToRel(<, Nat))
  BY NatLessThanWellFounded, WFMin, Zenon
<1>2. \A y \in I : ~ (y < x)
  BY <1>1 DEF OpToRel
<1>3. \A y \in I : x <= y
  BY <1>2
<1>. QED
  BY <1>3 DEF Min

\* SlotFor finds a free slot, or none.
LEMMA SlotFound ==
    ASSUME NEW b, IsSeq(b)
    PROVE  \/ SlotFor(b) = 0
           \/ SlotFor(b) \in 1 .. Len(b) /\ b[SlotFor(b)] = Free
<1>1. PICK I : I = {i \in 1 .. Len(b) : b[i] = Free}
  OBVIOUS
<1>2. SlotFor(b) = IF I # {} THEN Min(I) ELSE 0
  BY <1>1 DEF SlotFor, SelectInSeq
<1>3. CASE I = {}
  BY <1>2, <1>3
<1>4. CASE I # {}
  <2>1. I \subseteq Nat
    BY <1>1
  <2>2. Min(I) \in I
    BY <1>4, <2>1, Least
  <2>. QED
    BY <1>1, <1>2, <1>4, <2>2
<1>. QED
  BY <1>3, <1>4

\* _buffer_packet writes the slot that buffer_id names, which held no packet.
LEMMA Buffered ==
    ASSUME NEW b, IsSeq(b), NEW pkt, NEW p
    PROVE  LET n == buffer_id(b)  c == buffer_packet(b, pkt, p) IN
           /\ IsSeq(c) /\ n \in Nat \ {0}
           /\ DOMAIN c = DOMAIN b \cup {n}
           /\ \A i \in DOMAIN b : i # n => c[i] = b[i]
           /\ n \in DOMAIN b => b[n] = Free
           /\ c = b => c[n] = Free
<1>0. PICK s : s = [pkt |-> pkt, in_port |-> p]
  OBVIOUS
<1>1. CASE SlotFor(b) = 0
  <2>1. buffer_packet(b, pkt, p) = Append(b, s) /\ buffer_id(b) = Len(b) + 1
    BY <1>0, <1>1 DEF buffer_packet, buffer_id
  <2>2. PICK c : c = Append(b, s)
    OBVIOUS
  <2>3. /\ IsSeq(c) /\ Len(b) \in Nat /\ DOMAIN b = 1 .. Len(b)
        /\ DOMAIN c = 1 .. Len(b) + 1
        /\ \A i \in 1 .. Len(b) : c[i] = b[i]
    BY <2>2, AppendElements
  <2>4. PICK n : n = Len(b) + 1
    OBVIOUS
  <2>5. DOMAIN c = DOMAIN b \cup {n} /\ n \notin DOMAIN b /\ n \in Nat \ {0}
    BY <2>3, <2>4
  <2>6. c # b
    BY <2>5
  <2>. QED
    BY <2>1, <2>2, <2>3, <2>4, <2>5, <2>6
<1>2. CASE SlotFor(b) # 0
  <2>0. PICK n : n = SlotFor(b)
    OBVIOUS
  <2>1. /\ n \in 1 .. Len(b) /\ b[n] = Free
        /\ buffer_packet(b, pkt, p) = [b EXCEPT ![n] = s] /\ buffer_id(b) = n
    BY <1>0, <1>2, <2>0, SlotFound DEF buffer_packet, buffer_id
  <2>2. PICK S : S = Range(b) \cup {s}
    OBVIOUS
  <2>3. b \in Seq(S) /\ s \in S
    BY <2>2, SeqOver
  <2>4. PICK c : c = [b EXCEPT ![n] = s]
    OBVIOUS
  <2>5. c \in Seq(S) /\ DOMAIN c = DOMAIN b /\ n \in DOMAIN b
    BY <2>1, <2>3, <2>4
  <2>6. \A i \in DOMAIN b : i # n => c[i] = b[i]
    BY <2>4, Zenon
  <2>7. IsSeq(c) /\ n \in Nat \ {0}
    BY <2>1, <2>3, <2>5, SeqOfElements
  <2>. QED
    BY <2>1, <2>4, <2>5, <2>6, <2>7
<1>. QED
  BY <1>1, <1>2

\* Writing a slot that is there.
LEMMA Rewritten ==
    ASSUME NEW b, IsSeq(b), NEW n \in DOMAIN b, NEW x
    PROVE  IsSeq([b EXCEPT ![n] = x])
<1>1. PICK S : S = Range(b) \cup {x}
  OBVIOUS
<1>2. b \in Seq(S) /\ x \in S
  BY <1>1, SeqOver
<1>3. [b EXCEPT ![n] = x] \in Seq(S)
  BY <1>2
<1>. QED
  BY <1>3, SeqOfElements

-----------------------------------------------------------------------------
(* Whom send picks.                                                        *)

\* Counting the numbers below each one numbers them from 0, so that Nth finds
\* one for every number below their count.
LEMMA NthFound ==
    ASSUME NEW S, S \subseteq Nat, IsFiniteSet(S), NEW n \in Nat, n < Cardinality(S)
    PROVE  Nth(S, n) \in S
<1>1. IsFiniteSet(S) /\ S \subseteq Nat
  OBVIOUS
<1>2. PICK k \in Nat : k = Cardinality(S)
  BY <1>1, FS_CardinalityType
<1> DEFINE Below(c) == {d \in S : d < c}
           f == [c \in S |-> Cardinality(Below(c))]
<1>3. \A c \in S : Below(c) \in SUBSET S /\ IsFiniteSet(Below(c)) /\ c \notin Below(c)
  BY <1>1, FS_Subset
<1>4. ASSUME NEW c \in S PROVE Cardinality(Below(c)) \in 0 .. k - 1
  <2>1. Cardinality(Below(c)) \in Nat
    BY <1>3, FS_CardinalityType
  <2>2. Cardinality(Below(c)) <= k /\ (k = Cardinality(Below(c)) => S = Below(c))
    BY <1>1, <1>2, <1>3, FS_Subset
  <2>3. Cardinality(Below(c)) # k
    BY <1>3, <2>2
  <2>. QED
    BY <2>1, <2>2, <2>3
<1>5. ASSUME NEW c \in S, NEW d \in S, c < d
      PROVE  Cardinality(Below(c)) # Cardinality(Below(d))
  <2>1. Below(c) \in SUBSET Below(d)
    <3>1. \A e \in S : e < c => e < d
      BY <1>1, <1>5
    <3>. QED
      BY <3>1
  <2>2. c \in Below(d) /\ c \notin Below(c) /\ IsFiniteSet(Below(d))
    BY <1>3, <1>5
  <2>. QED
    BY <2>1, <2>2, FS_Subset
<1>6. f \in Injection(S, 0 .. k - 1)
  <2>1. f \in [S -> 0 .. k - 1]
    BY <1>4
  <2>2. \A c, d \in S : c # d => c < d \/ d < c
    BY <1>1
  <2>3. \A c, d \in S : f[c] = f[d] => c = d
    BY <1>5, <2>2
  <2>. QED
    BY <2>1, <2>3 DEF Injection, IsInjective
<1>7. IsFiniteSet(0 .. k - 1) /\ Cardinality(0 .. k - 1) = k
  <2>1. k - 1 \in Int /\ ~ (0 > k - 1) /\ (k - 1) - 0 + 1 = k
    BY <1>2
  <2>. QED
    BY <2>1, FS_Interval
<1>8. f \in Surjection(S, 0 .. k - 1)
  BY <1>2, <1>6, <1>7, FS_Injection
<1>9. \E c \in S : f[c] = n
  <2>1. n \in 0 .. k - 1
    BY <1>2
  <2>2. \A t \in 0 .. k - 1 : \E s \in S : f[s] = t
    BY <1>8, Zenon DEF Surjection
  <2>. QED
    BY <2>1, <2>2, Zenon
<1>10. \E c \in S : Cardinality({d \in S : d < c}) = n
  BY <1>9
<1>. QED
  BY <1>10, Zenon DEF Nth

LEMMA ReceiverFound ==
    ASSUME RoleOK, ActiveOK, NEW a \in Conns \cup {None}
    PROVE  /\ Receiver(a) \in Conns \cup {None}
           /\ a # None => Receiver(a) = a
           /\ a = None => \/ Masters = {}
                          \/ Masters = {Receiver(a)} /\ Receiver(a) # None
           /\ InTurn(a) => next_other % Cardinality(WithRole("other")) \in Nat
<1>1. /\ \A r : WithRole(r) \subseteq Conns /\ IsFiniteSet(WithRole(r))
      /\ None \notin Conns /\ Conns \subseteq Nat
  <2>1. \A r : WithRole(r) \subseteq Conns
    BY DEF RoleOK, WithRole, connections
  <2>. QED
    BY <2>1, SwitchAssumption, FS_Subset DEF None
<1>2. \A r : WithRole(r) # {} => Cardinality(WithRole(r)) \in Nat /\ 0 < Cardinality(WithRole(r))
  <2>. SUFFICES ASSUME NEW r, WithRole(r) # {}
                PROVE  Cardinality(WithRole(r)) \in Nat /\ 0 < Cardinality(WithRole(r))
    OBVIOUS
  <2>1. IsFiniteSet(WithRole(r))
    BY <1>1, SwitchAssumption, FS_Subset
  <2>2. Cardinality(WithRole(r)) \in Nat /\ Cardinality(WithRole(r)) # 0
    BY <2>1, FS_CardinalityType, FS_EmptySet
  <2>. QED
    BY <2>2
<1>3. WithRole("master") # {} => Nth(WithRole("master"), 0) \in WithRole("master")
  BY <1>1, <1>2, NthFound
<1>4. WithRole("other") # {} =>
        /\ next_other % Cardinality(WithRole("other")) \in Nat
        /\ Nth(WithRole("other"), next_other % Cardinality(WithRole("other"))) \in WithRole("other")
  <2>. SUFFICES ASSUME WithRole("other") # {}
                PROVE  /\ next_other % Cardinality(WithRole("other")) \in Nat
                       /\ Nth(WithRole("other"), next_other % Cardinality(WithRole("other")))
                            \in WithRole("other")
    OBVIOUS
  <2>1. PICK k \in Nat : k = Cardinality(WithRole("other")) /\ 0 < k
    BY <1>2
  <2>2. PICK n : n = next_other % k
    OBVIOUS
  <2>3. n \in Nat /\ n < k
    BY <2>1, <2>2 DEF ActiveOK
  <2>4. Nth(WithRole("other"), n) \in WithRole("other")
    BY <1>1, <2>1, <2>3, NthFound
  <2>. QED
    BY <2>1, <2>2, <2>3, <2>4
<1>5. Masters = WithRole("master")
  BY DEF Masters, WithRole, connections
<1>6. \A c, d \in WithRole("master") : c = d
  BY DEF RoleOK, WithRole, connections
<1>7. CASE a # None
  BY <1>7 DEF Receiver, InTurn
<1>8. CASE a = None /\ WithRole("master") # {}
  <2>1. Receiver(a) = Nth(WithRole("master"), 0)
    BY <1>8 DEF Receiver
  <2>2. Masters = {Receiver(a)} /\ Receiver(a) \in Conns
    BY <1>1, <1>3, <1>5, <1>6, <1>8, <2>1
  <2>. QED
    BY <1>1, <1>8, <2>2 DEF InTurn
<1>9. CASE a = None /\ WithRole("master") = {}
  BY <1>1, <1>4, <1>5, <1>9 DEF Receiver, InTurn
<1>. QED
  BY <1>7, <1>8, <1>9

\* What sending the results of the actions adds to the packet_ins.
LEMMA Emitted ==
    ASSUME CtlOK, RoleOK, ActiveOK, IsSeq(buffer),
           NEW r, NEW p, NEW a \in Conns \cup {None}, Emit(r, p, a)
    PROVE  /\ CtlOK' /\ CtlKept /\ next_other' \in Nat
           /\ r.ctl = <<>> => toCtl' = toCtl
           /\ r.ctl # <<>> /\ Receiver(a) # None =>
                \E m \in Range(toCtl'[Receiver(a)]) : m.id = buffer_id(buffer)
           /\ \A c \in Conns : c # Receiver(a) => toCtl'[c] = toCtl[c]
<1>1. CASE r.ctl = <<>>
  BY <1>1 DEF Emit, CtlOK, CtlKept, ActiveOK
<1>2. CASE r.ctl # <<>>
  <2>1. PICK R : R = Receiver(a) /\ R \in Conns \cup {None}
    BY ReceiverFound
  <2>2. None \notin Conns
    BY SwitchAssumption DEF None
  <2>3. next_other' \in Nat
    <3>1. InTurn(a) => next_other % Cardinality(WithRole("other")) \in Nat
      BY ReceiverFound
    <3>. QED
      BY <1>2, <3>1 DEF Emit, ActiveOK
  <2>4. buffer_id(buffer) \in Nat
    BY Buffered
  <2>5. PICK m : m = [id |-> buffer_id(buffer), pkt |-> r.ctl[1], in_port |-> p]
    OBVIOUS
  <2>6. m.id = buffer_id(buffer)
    BY <2>5
  <2>7. toCtl' = IF R = None THEN toCtl ELSE [toCtl EXCEPT ![R] = Append(@, m)]
    BY <1>2, <2>1, <2>5 DEF Emit, send_packet_in
  <2>8. CASE R = None
    BY <1>2, <2>1, <2>2, <2>3, <2>7, <2>8 DEF CtlOK, CtlKept
  <2>9. CASE R # None
    <3>1. R \in Conns /\ DOMAIN toCtl' = Conns
      BY <2>1, <2>7, <2>9 DEF CtlOK
    <3>2. toCtl'[R] = Append(toCtl[R], m) /\ \A c \in Conns : c # R => toCtl'[c] = toCtl[c]
      BY <2>7, <2>9, <3>1 DEF CtlOK
    <3>3. IsSeq(toCtl'[R]) /\ Range(toCtl'[R]) = Range(toCtl[R]) \cup {m}
      BY <3>1, <3>2, AppendElements DEF CtlOK
    <3>4. CtlKept
      BY <3>2, <3>3 DEF CtlKept
    <3>5. CtlOK'
      <4>1. ASSUME NEW c \in Conns
            PROVE  IsSeq(toCtl'[c]) /\ \A x \in Range(toCtl'[c]) : x.id \in Nat
        BY <2>4, <2>6, <3>2, <3>3 DEF CtlOK
      <4>. QED
        BY <3>1, <4>1 DEF CtlOK
    <3>. QED
      BY <1>2, <2>1, <2>3, <2>6, <3>2, <3>3, <3>4, <3>5
  <2>. QED
    BY <2>8, <2>9
<1>. QED
  BY <1>1, <1>2

\* Output to the controller buffers the packet.
LEMMA KeptBuffer ==
    ASSUME IsSeq(buffer), NEW r, NEW p, NEW b, b = Kept(r, p)
    PROVE  /\ IsSeq(b) /\ DOMAIN buffer \subseteq DOMAIN b
           /\ r.ctl = <<>> => b = buffer
           /\ \A i \in DOMAIN b : \/ i \in DOMAIN buffer /\ b[i] = buffer[i]
                                  \/ r.ctl # <<>> /\ i = buffer_id(buffer)
           /\ buffer_id(buffer) \in DOMAIN buffer => buffer[buffer_id(buffer)] = Free
           /\ r.ctl # <<>> /\ b = buffer => b[buffer_id(buffer)] = Free
<1>0. PICK c, n : c = buffer_packet(buffer, r.pkt, p) /\ n = buffer_id(buffer)
  OBVIOUS
<1>1. /\ IsSeq(c) /\ n \in Nat \ {0} /\ DOMAIN c = DOMAIN buffer \cup {n}
      /\ \A i \in DOMAIN buffer : i # n => c[i] = buffer[i]
      /\ n \in DOMAIN buffer => buffer[n] = Free
      /\ c = buffer => c[n] = Free
  BY <1>0, Buffered
<1>2. b = IF r.ctl = <<>> THEN buffer ELSE c
  BY <1>0 DEF Kept
<1>3. CASE r.ctl = <<>>
  BY <1>0, <1>1, <1>2, <1>3
<1>4. CASE r.ctl # <<>>
  BY <1>0, <1>1, <1>2, <1>4
<1>. QED
  BY <1>3, <1>4

-----------------------------------------------------------------------------
(* The handlers.                                                           *)

LEMMA BufferIds ==
    ASSUME NEW b, IsSeq(b)
    PROVE  DOMAIN b = 1 .. Len(b) /\ Len(b) \in Nat /\ 0 \notin DOMAIN b
<1>1. PICK S : b \in Seq(S)
  BY DEF IsSeq
<1>. QED
  BY <1>1

LEMMA EndsActive ==
    ASSUME NEW c \in Conns, NEW raised, Ends(c, raised), next_other' \in Nat
    PROVE  ActiveOK'
<1>1. reading' \in Conns \cup {None}
  BY DEF Ends
<1>2. connection_in_action' # None => connection_in_action' \in Conns /\ faulty'
  BY DEF Ends
<1>. QED
  BY <1>1, <1>2 DEF ActiveOK

\* A handler that leaves the buffers, the roles and the packet_ins alone.
LEMMA PlainServed ==
    ASSUME SwitchInv, NEW c \in Conns, NEW m, NEW raised, Ends(c, raised),
           UNCHANGED <<buffer, toCtl, next_other>>, RoleOK', stuck \subseteq stuck',
           \A i \in DOMAIN buffer : buffer[i] # Free => i # m.buffer_id \/ i \in stuck',
           role[c] = "slave" => table' = table /\ out' = <<>>
    PROVE  Served(c, m)
<1>1. ActiveOK'
  BY EndsActive DEF SwitchInv, ActiveOK
<1>2. CtlOK' /\ CtlKept /\ IsSeq(buffer')
  BY DEF SwitchInv, CtlOK, CtlKept
<1>. QED
  BY <1>1, <1>2 DEF Served

\* flow_mod and packet_out for the packet in a buffer.
LEMMA FromBufferServed ==
    ASSUME SwitchInv, NEW c \in Conns, NEW m, Sendable(m), m.buffer_id > 0,
           FromBuffer(c, m, m.buffer_id), UNCHANGED role, role[c] # "slave"
    PROVE  Served(c, m)
<1>0. PICK id \in Nat : id = m.buffer_id
  BY DEF Sendable
<1>1. DOMAIN buffer = 1 .. Len(buffer) /\ RoleOK'
  BY BufferIds DEF SwitchInv, RoleOK
<1>2. CASE id \notin DOMAIN buffer \/ buffer[id] = Free
  <2>1. /\ Ends(c, id = Len(buffer) + 1) /\ UNCHANGED <<buffer, toCtl, next_other>>
        /\ stuck' = stuck
    BY <1>0, <1>1, <1>2 DEF FromBuffer
  <2>. QED
    BY <1>0, <1>1, <1>2, <2>1, PlainServed
<1>3. CASE id \in DOMAIN buffer /\ buffer[id] # Free
  <2>1. PICK s, r : s = buffer[id] /\ r = process_actions(m.actions, s.pkt, s.in_port)
    OBVIOUS
  <2>2. PICK b : b = Kept(r, s.in_port)
    OBVIOUS
  <2>3. PICK x : x = IF r.raised THEN [s EXCEPT !.pkt = r.pkt] ELSE Free
    OBVIOUS
  <2>4. /\ Ends(c, r.raised) /\ Emit(r, s.in_port, c) /\ buffer' = [b EXCEPT ![id] = x]
        /\ stuck' = IF r.raised THEN stuck \cup {id} ELSE stuck
    BY <1>0, <1>1, <1>3, <2>1, <2>2, <2>3 DEF FromBuffer
  <2>5. c # None /\ Receiver(c) = c
    BY SwitchAssumption, ReceiverFound DEF SwitchInv, None
  <2>6. /\ CtlOK' /\ CtlKept /\ next_other' \in Nat
        /\ r.ctl # <<>> => \E y \in Range(toCtl'[c]) : y.id = buffer_id(buffer)
        /\ \A d \in Conns : d # c => toCtl'[d] = toCtl[d]
    BY <2>4, <2>5, Emitted DEF SwitchInv
  <2>7. /\ IsSeq(b) /\ DOMAIN buffer \subseteq DOMAIN b
        /\ \A i \in DOMAIN b : \/ i \in DOMAIN buffer /\ b[i] = buffer[i]
                               \/ r.ctl # <<>> /\ i = buffer_id(buffer)
    BY <2>2, KeptBuffer DEF SwitchInv
  <2>8. IsSeq(buffer')
    BY <1>3, <2>4, <2>7, Rewritten
  <2>9. ActiveOK'
    BY <2>4, <2>6, EndsActive
  <2>10. ASSUME NEW i \in DOMAIN buffer', buffer'[i] # Free
         PROVE  \/ i \in DOMAIN buffer /\ buffer[i] # Free /\ i # m.buffer_id
                \/ i \in stuck'
                \/ \E y \in Range(toCtl'[c]) : y.id = i
    <3>1. i \in DOMAIN b /\ (i # id => buffer'[i] = b[i]) /\ (i = id => buffer'[i] = x)
      BY <2>4, <2>10, Zenon
    <3>2. CASE i = id
      BY <2>3, <2>4, <2>10, <3>1, <3>2
    <3>3. CASE i # id
      BY <1>0, <2>6, <2>7, <2>10, <3>1, <3>3
    <3>. QED
      BY <3>2, <3>3
  <2>11. stuck \subseteq stuck'
    BY <2>4
  <2>. QED
    BY <1>1, <2>6, <2>8, <2>9, <2>10, <2>11 DEF Served
<1>. QED
  BY <1>2, <1>3

LEMMA FlowModServed ==
    ASSUME SwitchInv, NEW c \in Conns, NEW m, Sendable(m), receive_flow_mod(c, m), check_rights(c, m)
    PROVE  Served(c, m)
<1>1. role[c] # "slave" /\ UNCHANGED role
  BY DEF receive_flow_mod, check_rights, slave_blacklist
<1>2. CASE m.buffer_id > 0
  BY <1>1, <1>2, FromBufferServed DEF receive_flow_mod
<1>3. CASE ~ (m.buffer_id > 0)
  <2>1. Ends(c, FALSE) /\ UNCHANGED <<buffer, toCtl, next_other>> /\ stuck' = stuck
    BY <1>3 DEF receive_flow_mod
  <2>2. m.buffer_id = 0
    BY <1>3 DEF Sendable
  <2>3. RoleOK'
    BY <1>1 DEF SwitchInv, RoleOK
  <2>4. 0 \notin DOMAIN buffer
    BY BufferIds DEF SwitchInv
  <2>. QED
    BY <1>1, <2>1, <2>2, <2>3, <2>4, PlainServed
<1>. QED
  BY <1>2, <1>3

LEMMA PacketOutServed ==
    ASSUME SwitchInv, NEW c \in Conns, NEW m, Sendable(m), receive_packet_out(c, m),
           check_rights(c, m)
    PROVE  Served(c, m)
<1>1. role[c] # "slave" /\ UNCHANGED role
  BY DEF receive_packet_out, check_rights, slave_blacklist
<1>2. CASE m.buffer_id > 0
  BY <1>1, <1>2, FromBufferServed DEF receive_packet_out
<1>3. CASE ~ (m.buffer_id > 0)
  <2>1. PICK r : r = process_actions(m.actions, m.pkt, 0)
    OBVIOUS
  <2>2. Ends(c, r.raised) /\ Emit(r, 0, c) /\ buffer' = Kept(r, 0) /\ stuck' = stuck
    BY <1>3, <2>1 DEF receive_packet_out
  <2>3. m.buffer_id = 0
    BY <1>3 DEF Sendable
  <2>4. RoleOK'
    BY <1>1 DEF SwitchInv, RoleOK
  <2>5. 0 \notin DOMAIN buffer
    BY BufferIds DEF SwitchInv
  <2>6. c # None /\ Receiver(c) = c
    BY SwitchAssumption, ReceiverFound DEF SwitchInv, None
  <2>7. /\ CtlOK' /\ CtlKept /\ next_other' \in Nat
        /\ r.ctl # <<>> => \E y \in Range(toCtl'[c]) : y.id = buffer_id(buffer)
        /\ \A d \in Conns : d # c => toCtl'[d] = toCtl[d]
    BY <2>2, <2>6, Emitted DEF SwitchInv
  <2>8. /\ IsSeq(buffer')
        /\ \A i \in DOMAIN buffer' : \/ i \in DOMAIN buffer /\ buffer'[i] = buffer[i]
                                     \/ r.ctl # <<>> /\ i = buffer_id(buffer)
    BY <2>2, KeptBuffer DEF SwitchInv
  <2>9. ActiveOK'
    BY <2>2, <2>7, EndsActive
  <2>. QED
    BY <1>1, <2>2, <2>3, <2>4, <2>5, <2>7, <2>8, <2>9 DEF Served
<1>. QED
  BY <1>2, <1>3

\* One master at most: whoever becomes the master makes the others slaves.
LEMMA RoleServed ==
    ASSUME SwitchInv, NEW c \in Conns, NEW m, Sendable(m), receive_role_request(c, m)
    PROVE  Served(c, m)
<1>1. m.buffer_id = 0
  BY DEF Sendable, receive_role_request
<1>2. 0 \notin DOMAIN buffer
  BY BufferIds DEF SwitchInv
<1>3. RoleOK'
  <2>1. DOMAIN role' = DOMAIN role
    BY DEF receive_role_request, set_role
  <2>2. \A d \in DOMAIN role : role'[d] = IF d = c THEN m.type
                                          ELSE IF m.type = "master" THEN "slave" ELSE role[d]
    BY DEF receive_role_request, set_role
  <2>. QED
    BY <2>1, <2>2 DEF SwitchInv, RoleOK
<1>4. /\ Ends(c, FALSE) /\ UNCHANGED <<buffer, toCtl, next_other>>
      /\ stuck' = stuck /\ table' = table /\ out' = <<>>
  BY DEF receive_role_request
<1>. QED
  BY <1>1, <1>2, <1>3, <1>4, PlainServed

LEMMA OtherServed ==
    ASSUME SwitchInv, NEW c \in Conns, NEW m, Sendable(m), receive_other(c, m)
    PROVE  Served(c, m)
<1>1. m.buffer_id = 0
  BY DEF Sendable, receive_other, Answered, Raising
<1>2. 0 \notin DOMAIN buffer
  BY BufferIds DEF SwitchInv
<1>3. RoleOK'
  BY DEF receive_other, SwitchInv, RoleOK
<1>4. /\ Ends(c, m.type \in Raising) /\ UNCHANGED <<buffer, toCtl, next_other>>
      /\ stuck' = stuck /\ table' = table /\ out' = <<>>
  BY DEF receive_other
<1>. QED
  BY <1>1, <1>2, <1>3, <1>4, PlainServed

LEMMA SlaveServed ==
    ASSUME SwitchInv, NEW c \in Conns, NEW m, Sendable(m), RefuseSlave(c, m)
    PROVE  Served(c, m)
<1>1. 0 \notin DOMAIN buffer
  BY BufferIds DEF SwitchInv
<1>2. RoleOK'
  BY DEF RefuseSlave, SwitchInv, RoleOK
<1>3. PICK id \in Nat : id = m.buffer_id
  BY DEF Sendable
<1>4. /\ Ends(c, FALSE) /\ UNCHANGED <<buffer, toCtl, next_other>>
      /\ table' = table /\ out' = <<>>
      /\ stuck' = IF id > 0 THEN stuck \cup {id} ELSE stuck
  BY <1>3 DEF RefuseSlave
<1>5. stuck \subseteq stuck' /\ (m.buffer_id = 0 \/ m.buffer_id \in stuck')
  BY <1>3, <1>4
<1>. QED
  BY <1>1, <1>2, <1>4, <1>5, PlainServed

LEMMA UnknownServed ==
    ASSUME SwitchInv, NEW c \in Conns, NEW m, Sendable(m), m.type = "port_mod", NoHandler(c, m)
    PROVE  Served(c, m)
<1>1. m.buffer_id = 0 /\ 0 \notin DOMAIN buffer
  BY BufferIds DEF SwitchInv, Sendable
<1>2. CtlOK' /\ CtlKept /\ RoleOK' /\ ActiveOK' /\ IsSeq(buffer')
  BY DEF NoHandler, SwitchInv, CtlOK, CtlKept, RoleOK, ActiveOK
<1>3. UNCHANGED <<table, buffer, toCtl, stuck>> /\ out' = <<>>
  BY DEF NoHandler
<1>. QED
  BY <1>1, <1>2, <1>3 DEF Served

\* Handling a message takes it from the receive buffer.
LEMMA HandleServed ==
    ASSUME SwitchInv, NEW c \in Conns, Handle(c)
    PROVE  /\ Served(c, Head(waiting[c])) /\ SentOK' /\ WaitingOK'
           /\ toSwitch' = toSwitch
           /\ \A d \in Conns \ {c} : waiting'[d] = waiting[d]
           /\ Range(waiting[c]) = {Head(waiting[c])} \cup Range(waiting'[c])
<1>0. PICK m : m = Head(waiting[c])
  OBVIOUS
<1>1. /\ IsSeq(waiting[c]) /\ waiting[c] # <<>> /\ DOMAIN waiting = Conns
      /\ waiting' = [waiting EXCEPT ![c] = Tail(@)]
  BY DEF Handle, SwitchInv, WaitingOK
<1>2. /\ IsSeq(Tail(waiting[c])) /\ Range(waiting[c]) = {m} \cup Range(Tail(waiting[c]))
  BY <1>0, <1>1, TailElements
<1>3. /\ DOMAIN waiting' = Conns /\ waiting'[c] = Tail(waiting[c])
      /\ \A d \in Conns \ {c} : waiting'[d] = waiting[d]
  BY <1>1
<1>4. Sendable(m)
  BY <1>2 DEF SwitchInv, WaitingOK
<1>5. WaitingOK'
  <2>1. \A d \in Conns : IsSeq(waiting'[d]) /\ \A x \in Range(waiting'[d]) : Sendable(x)
    BY <1>2, <1>3 DEF SwitchInv, WaitingOK
  <2>. QED
    BY <1>3, <2>1 DEF WaitingOK, Sendable
<1>6. toSwitch' = toSwitch /\ SentOK'
  BY DEF Handle, SwitchInv, SentOK, Sendable
<1>7. \/ m.type = "port_mod" /\ NoHandler(c, m)
      \/ RefuseSlave(c, m)
      \/ check_rights(c, m) /\ receive_flow_mod(c, m)
      \/ check_rights(c, m) /\ receive_packet_out(c, m)
      \/ receive_role_request(c, m)
      \/ receive_other(c, m)
  BY <1>0 DEF Handle
<1>8. Served(c, m)
  BY <1>4, <1>7, UnknownServed, SlaveServed, FlowModServed, PacketOutServed, RoleServed, OtherServed
<1>. QED
  BY <1>0, <1>2, <1>3, <1>5, <1>6, <1>8

-----------------------------------------------------------------------------
(* The other actions.                                                      *)

LEMMA HostSent ==
    ASSUME SwitchInv, NEW h \in Hosts, HostSends(h)
    PROVE  /\ SwitchInv' /\ CtlKept /\ toSwitch' = toSwitch /\ waiting' = waiting
           /\ stuck \subseteq stuck'
           /\ \A c \in Conns : c # Receiver(connection_in_action) => toCtl'[c] = toCtl[c]
           /\ \A i \in DOMAIN buffer' : buffer'[i] # Free =>
                \/ i \in DOMAIN buffer /\ buffer[i] # Free
                \/ i \in stuck'
                \/ \E c \in Conns : \E x \in Range(toCtl'[c]) : x.id = i
<1>1. PICK r, p, R : /\ Emit(r, p, connection_in_action) /\ buffer' = Kept(r, p)
                     /\ R = Receiver(connection_in_action)
  BY DEF HostSends, process_packet
<1>2. connection_in_action \in Conns \cup {None}
  BY DEF SwitchInv, ActiveOK
<1>3. R \in Conns \cup {None}
  BY <1>1, <1>2, ReceiverFound DEF SwitchInv
<1>4. /\ CtlOK' /\ CtlKept /\ next_other' \in Nat
      /\ r.ctl # <<>> /\ R # None => \E m \in Range(toCtl'[R]) : m.id = buffer_id(buffer)
      /\ \A c \in Conns : c # R => toCtl'[c] = toCtl[c]
  BY <1>1, <1>2, Emitted DEF SwitchInv
<1>5. /\ IsSeq(buffer')
      /\ \A i \in DOMAIN buffer' : \/ i \in DOMAIN buffer /\ buffer'[i] = buffer[i]
                                   \/ r.ctl # <<>> /\ i = buffer_id(buffer)
      /\ r.ctl # <<>> /\ buffer' = buffer => buffer'[buffer_id(buffer)] = Free
  BY <1>1, KeptBuffer DEF SwitchInv
<1>6. /\ toSwitch' = toSwitch /\ waiting' = waiting
      /\ UNCHANGED <<role, reading, connection_in_action, faulty>>
      /\ stuck' = IF buffer' # buffer /\ R = None THEN stuck \cup {buffer_id(buffer)} ELSE stuck
  BY <1>1 DEF HostSends
<1>7. SentOK' /\ WaitingOK' /\ RoleOK'
  BY <1>6 DEF SwitchInv, SentOK, WaitingOK, Sendable, RoleOK
<1>8. ActiveOK'
  BY <1>4, <1>6 DEF SwitchInv, ActiveOK
<1>9. ASSUME NEW i \in DOMAIN buffer', buffer'[i] # Free
      PROVE  \/ i \in DOMAIN buffer /\ buffer[i] # Free
             \/ i \in stuck'
             \/ \E c \in Conns : \E x \in Range(toCtl'[c]) : x.id = i
  <2>1. CASE i \in DOMAIN buffer /\ buffer'[i] = buffer[i]
    BY <1>9, <2>1
  <2>2. CASE r.ctl # <<>> /\ i = buffer_id(buffer)
    BY <1>3, <1>4, <1>5, <1>6, <1>9, <2>2
  <2>. QED
    BY <1>5, <2>1, <2>2
<1>10. stuck \subseteq stuck'
  BY <1>6
<1>. QED
  BY <1>1, <1>4, <1>5, <1>6, <1>7, <1>8, <1>9, <1>10 DEF SwitchInv

\* Answers keep the buffer_id of the packet_in.
LEMMA AnswerFor ==
    ASSUME NEW c, NEW m, NEW known, m.id \in Nat
    PROVE  Sendable(Answer(c, m, known)) /\ Answer(c, m, known).buffer_id = m.id
<1>1. \A id \in Nat : \A acts :
          /\ Sendable(packet_out(id, acts)) /\ packet_out(id, acts).buffer_id = id
          /\ \A pkt : /\ Sendable(flow_mod(id, pkt, acts))
                      /\ flow_mod(id, pkt, acts).buffer_id = id
  BY DEF Sendable, packet_out, flow_mod, Msg
<1>2. Sendable(Flooded(c, m)) /\ Flooded(c, m).buffer_id = m.id
  BY <1>1 DEF Flooded
<1>3. CASE m.pkt.dst = Filtered
  BY <1>1, <1>3 DEF Answer
<1>4. CASE m.pkt.dst # Filtered /\ (m.pkt.dst = Group \/ m.pkt.dst \notin DOMAIN known)
  BY <1>2, <1>4 DEF Answer
<1>5. CASE m.pkt.dst \notin {Filtered, Group} /\ m.pkt.dst \in DOMAIN known
  BY <1>1, <1>5 DEF Answer
<1>. QED
  BY <1>3, <1>4, <1>5

\* The controller answers a packet_in, in the place of which its answer is sent.
LEMMA PacketInHandled ==
    ASSUME SwitchInv, NEW c \in Conns, handle_PacketIn(c)
    PROVE  /\ SwitchInv' /\ UNCHANGED <<buffer, stuck, waiting, role>>
           /\ \A d \in Conns \ {c} : toCtl'[d] = toCtl[d] /\ toSwitch'[d] = toSwitch[d]
           /\ Len(toCtl'[c]) <= Len(toCtl[c])
           /\ \E m, a : /\ Range(toCtl[c]) = {m} \cup Range(toCtl'[c])
                        /\ Range(toSwitch'[c]) = Range(toSwitch[c]) \cup {a}
                        /\ a.buffer_id = m.id
<1>1. PICK m, a, known : /\ m = Head(toCtl[c]) /\ a = Answer(c, m, known)
                         /\ toSwitch' = [toSwitch EXCEPT ![c] = Append(@, a)]
  BY DEF handle_PacketIn
<1>2. /\ toCtl[c] # <<>> /\ toCtl' = [toCtl EXCEPT ![c] = Tail(@)]
      /\ UNCHANGED <<buffer, stuck, waiting, role, connection_in_action, next_other, reading, faulty>>
  BY DEF handle_PacketIn, switchVars
<1>3. /\ IsSeq(toCtl[c]) /\ IsSeq(toSwitch[c]) /\ DOMAIN toCtl = Conns /\ DOMAIN toSwitch = Conns
  BY DEF SwitchInv, CtlOK, SentOK
<1>4. /\ DOMAIN toCtl' = Conns /\ DOMAIN toSwitch' = Conns
      /\ toCtl'[c] = Tail(toCtl[c]) /\ toSwitch'[c] = Append(toSwitch[c], a)
      /\ \A d \in Conns \ {c} : toCtl'[d] = toCtl[d] /\ toSwitch'[d] = toSwitch[d]
  BY <1>1, <1>2, <1>3
<1>5. /\ IsSeq(toCtl'[c]) /\ Range(toCtl[c]) = {m} \cup Range(toCtl'[c])
      /\ Len(toCtl'[c]) <= Len(toCtl[c])
  BY <1>1, <1>2, <1>3, <1>4, TailElements
<1>6. IsSeq(toSwitch'[c]) /\ Range(toSwitch'[c]) = Range(toSwitch[c]) \cup {a}
  BY <1>3, <1>4, AppendElements
<1>7. m.id \in Nat
  BY <1>5 DEF SwitchInv, CtlOK
<1>8. Sendable(a) /\ a.buffer_id = m.id
  BY <1>1, <1>7, AnswerFor
<1>9. CtlOK'
  <2>1. \A d \in Conns : IsSeq(toCtl'[d]) /\ \A x \in Range(toCtl'[d]) : x.id \in Nat
    BY <1>4, <1>5 DEF SwitchInv, CtlOK
  <2>. QED
    BY <1>4, <2>1 DEF CtlOK
<1>10. SentOK'
  <2>1. \A d \in Conns : IsSeq(toSwitch'[d]) /\ \A x \in Range(toSwitch'[d]) : Sendable(x)
    BY <1>4, <1>6, <1>8 DEF SwitchInv, SentOK
  <2>. QED
    BY <1>4, <2>1 DEF SentOK, Sendable
<1>11. WaitingOK' /\ RoleOK' /\ ActiveOK' /\ IsSeq(buffer')
  BY <1>2 DEF SwitchInv, WaitingOK, Sendable, RoleOK, ActiveOK
<1>. QED
  BY <1>2, <1>4, <1>5, <1>6, <1>8, <1>9, <1>10, <1>11 DEF SwitchInv

LEMMA RequestSent ==
    ASSUME SwitchInv, NEW c \in Conns, Request(c)
    PROVE  /\ SwitchInv' /\ UNCHANGED <<buffer, stuck, waiting, toCtl, role>>
           /\ \A d \in Conns : Range(toSwitch[d]) \subseteq Range(toSwitch'[d])
<1>1. PICK a \in Requests : toSwitch' = [toSwitch EXCEPT ![c] = Append(@, a)]
  BY DEF Request
<1>2. UNCHANGED <<buffer, stuck, waiting, toCtl, role, connection_in_action, next_other, reading,
                  faulty>>
  BY DEF Request, switchVars
<1>3. IsSeq(toSwitch[c]) /\ DOMAIN toSwitch = Conns
  BY DEF SwitchInv, SentOK
<1>4. /\ DOMAIN toSwitch' = Conns /\ toSwitch'[c] = Append(toSwitch[c], a)
      /\ \A d \in Conns \ {c} : toSwitch'[d] = toSwitch[d]
  BY <1>1, <1>3
<1>5. IsSeq(toSwitch'[c]) /\ Range(toSwitch'[c]) = Range(toSwitch[c]) \cup {a}
  BY <1>3, <1>4, AppendElements
<1>6. Sendable(a)
  BY RequestAssumption DEF Sendable
<1>7. SentOK'
  <2>1. \A d \in Conns : IsSeq(toSwitch'[d]) /\ \A x \in Range(toSwitch'[d]) : Sendable(x)
    BY <1>4, <1>5, <1>6 DEF SwitchInv, SentOK
  <2>. QED
    BY <1>4, <2>1 DEF SentOK, Sendable
<1>8. CtlOK' /\ WaitingOK' /\ RoleOK' /\ ActiveOK' /\ IsSeq(buffer')
  BY <1>2 DEF SwitchInv, CtlOK, WaitingOK, Sendable, RoleOK, ActiveOK
<1>. QED
  BY <1>2, <1>4, <1>5, <1>7, <1>8 DEF SwitchInv

\* What arrives goes from the wire to the receive buffer.
LEMMA ReadBegun ==
    ASSUME SwitchInv, NEW c \in Conns, ReadBegins(c)
    PROVE  /\ SwitchInv' /\ UNCHANGED <<buffer, stuck, toCtl, role>>
           /\ \A d \in Conns : Range(toSwitch'[d]) \cup Range(waiting'[d])
                                 = Range(toSwitch[d]) \cup Range(waiting[d])
<1>1. PICK n \in 1 .. Len(toSwitch[c]) :
        /\ waiting' = [waiting EXCEPT ![c] = @ \o SubSeq(toSwitch[c], 1, n)]
        /\ toSwitch' = [toSwitch EXCEPT ![c] = SubSeq(@, n + 1, Len(@))]
  BY DEF ReadBegins
<1>2. /\ UNCHANGED <<buffer, stuck, toCtl, role, connection_in_action, next_other, faulty>>
      /\ reading' = c
  BY DEF ReadBegins, switchVars
<1>3. /\ IsSeq(toSwitch[c]) /\ DOMAIN toSwitch = Conns
      /\ IsSeq(waiting[c]) /\ DOMAIN waiting = Conns
  BY DEF SwitchInv, SentOK, WaitingOK
<1>4. PICK s, t : s = SubSeq(toSwitch[c], 1, n) /\ t = SubSeq(toSwitch[c], n + 1, Len(toSwitch[c]))
  OBVIOUS
<1>5. /\ DOMAIN toSwitch' = Conns /\ toSwitch'[c] = t
      /\ DOMAIN waiting' = Conns /\ waiting'[c] = waiting[c] \o s
      /\ \A d \in Conns \ {c} : toSwitch'[d] = toSwitch[d] /\ waiting'[d] = waiting[d]
  BY <1>1, <1>3, <1>4
<1>6. IsSeq(s) /\ IsSeq(t) /\ Range(toSwitch[c]) = Range(s) \cup Range(t)
  BY <1>3, <1>4, SplitElements
<1>7. IsSeq(waiting'[c]) /\ Range(waiting'[c]) = Range(waiting[c]) \cup Range(s)
  BY <1>3, <1>5, <1>6, ConcatElements
<1>8. SentOK'
  <2>1. \A d \in Conns : IsSeq(toSwitch'[d]) /\ \A x \in Range(toSwitch'[d]) : Sendable(x)
    BY <1>5, <1>6 DEF SwitchInv, SentOK
  <2>. QED
    BY <1>5, <2>1 DEF SentOK, Sendable
<1>9. WaitingOK'
  <2>1. \A d \in Conns : IsSeq(waiting'[d]) /\ \A x \in Range(waiting'[d]) : Sendable(x)
    BY <1>5, <1>6, <1>7 DEF SwitchInv, SentOK, WaitingOK
  <2>. QED
    BY <1>5, <2>1 DEF WaitingOK, Sendable
<1>10. CtlOK' /\ RoleOK' /\ ActiveOK' /\ IsSeq(buffer')
  BY <1>2 DEF SwitchInv, CtlOK, RoleOK, ActiveOK
<1>11. \A d \in Conns : Range(toSwitch'[d]) \cup Range(waiting'[d])
                          = Range(toSwitch[d]) \cup Range(waiting[d])
  BY <1>5, <1>6, <1>7
<1>. QED
  BY <1>2, <1>8, <1>9, <1>10, <1>11 DEF SwitchInv

\* The steps that leave all the queues and buffers alone.
Quiet == UNCHANGED <<buffer, stuck, toSwitch, waiting, toCtl>>

LEMMA ConnectionAdded ==
    ASSUME SwitchInv, NEW c \in Conns, add_connection(c)
    PROVE  SwitchInv' /\ Quiet
<1>1. /\ role' = [d \in DOMAIN role \cup {c} |-> IF d = c THEN "other" ELSE role[d]] /\ Quiet
      /\ UNCHANGED <<connection_in_action, next_other, reading, faulty>>
  BY DEF add_connection, Quiet, wireVars
<1>2. DOMAIN role' = DOMAIN role \cup {c}
  BY <1>1
<1>3. \A d \in DOMAIN role' : role'[d] = IF d = c THEN "other" ELSE role[d]
  BY <1>1, <1>2
<1>4. RoleOK'
  BY <1>2, <1>3 DEF SwitchInv, RoleOK
<1>5. CtlOK' /\ SentOK' /\ WaitingOK' /\ ActiveOK' /\ IsSeq(buffer')
  BY <1>1 DEF Quiet, SwitchInv, CtlOK, SentOK, WaitingOK, Sendable, ActiveOK
<1>. QED
  BY <1>1, <1>4, <1>5 DEF SwitchInv

LEMMA OthersQuiet ==
    ASSUME SwitchInv,
           \/ \E h \in Hosts : HostMoves(h)
           \/ \E p \in Ports : PortChanges(p)
           \/ Settle
           \/ UNCHANGED vars
    PROVE  SwitchInv' /\ Quiet
<1>1. /\ UNCHANGED <<role, connection_in_action, next_other, reading, faulty>>
      /\ Quiet
  BY DEF HostMoves, PortChanges, Settle, Quiet, vars, switchVars, wireVars, ghosts
<1>2. CtlOK' /\ SentOK' /\ WaitingOK' /\ RoleOK' /\ ActiveOK' /\ IsSeq(buffer')
  BY <1>1 DEF Quiet, SwitchInv, CtlOK, SentOK, WaitingOK, Sendable, RoleOK, ActiveOK
<1>. QED
  BY <1>1, <1>2 DEF SwitchInv

-----------------------------------------------------------------------------
(* The results.                                                            *)

LEMMA SwitchInit == Init => SwitchInv /\ BufferHasAnswer
<1>. SUFFICES ASSUME Init PROVE SwitchInv /\ BufferHasAnswer
  OBVIOUS
<1>1. /\ buffer = <<>> /\ role = <<>> /\ reading = None /\ next_other = 0
      /\ connection_in_action = None
      /\ toCtl = [c \in Conns |-> <<>>] /\ toSwitch = [c \in Conns |-> <<>>]
      /\ waiting = [c \in Conns |-> <<>>]
  BY DEF Init
<1>2. IsSeq(<<>>) /\ Range(<<>>) = {}
  BY EmptyIsSeq
<1>3. DOMAIN <<>> = {}
  OBVIOUS
<1>4. CtlOK
  BY <1>1, <1>2 DEF CtlOK
<1>5. SentOK
  BY <1>1, <1>2 DEF SentOK
<1>6. WaitingOK
  BY <1>1, <1>2 DEF WaitingOK
<1>7. RoleOK
  BY <1>1, <1>3, Zenon DEF RoleOK
<1>8. ActiveOK
  BY <1>1 DEF ActiveOK
<1>9. BufferHasAnswer
  BY <1>1, <1>3, Zenon DEF BufferHasAnswer
<1>. QED
  BY <1>1, <1>2, <1>4, <1>5, <1>6, <1>7, <1>8, <1>9 DEF SwitchInv

\* The actions, as the proofs below take them apart.
LEMMA SwitchSteps ==
    [Next]_vars =>
      \/ \E h \in Hosts : HostSends(h)
      \/ \E c \in Conns : Handle(c)
      \/ \E c \in Conns : handle_PacketIn(c)
      \/ \E c \in Conns : Request(c)
      \/ \E c \in Conns : ReadBegins(c)
      \/ \E c \in Conns : add_connection(c)
      \/ \/ \E h \in Hosts : HostMoves(h)
         \/ \E p \in Ports : PortChanges(p)
         \/ Settle
         \/ UNCHANGED vars
BY Zenon DEF Next

LEMMA SwitchStep == SwitchInv /\ [Next]_vars => SwitchInv'
<1>. SUFFICES ASSUME SwitchInv, [Next]_vars PROVE SwitchInv'
  OBVIOUS
<1>1. ASSUME NEW c \in Conns, Handle(c) PROVE SwitchInv'
  BY <1>1, HandleServed DEF Served, SwitchInv
<1>. QED
  BY <1>1, SwitchSteps, HostSent, PacketInHandled, RequestSent, ReadBegun, ConnectionAdded,
     OthersQuiet

\* A question stays asked while the queues that hold it lose nothing.
LEMMA AskedStays ==
    ASSUME \A c \in Conns : /\ Range(toCtl[c]) \subseteq Range(toCtl'[c])
                            /\ Range(toSwitch[c]) \cup Range(waiting[c])
                                 \subseteq Range(toSwitch'[c]) \cup Range(waiting'[c]),
           NEW id, Asked(id)
    PROVE  Asked(id)'
BY Zenon DEF Asked

LEMMA AnswerComing ==
    SwitchInv /\ BufferHasAnswer /\ [Next]_vars => BufferHasAnswer'
<1>. SUFFICES ASSUME SwitchInv, BufferHasAnswer, [Next]_vars PROVE BufferHasAnswer'
  OBVIOUS
<1>1. ASSUME NEW h \in Hosts, HostSends(h) PROVE BufferHasAnswer'
  <2>1. /\ CtlKept /\ toSwitch' = toSwitch /\ waiting' = waiting /\ stuck \subseteq stuck'
        /\ \A i \in DOMAIN buffer' : buffer'[i] # Free =>
             \/ i \in DOMAIN buffer /\ buffer[i] # Free
             \/ i \in stuck'
             \/ \E c \in Conns : \E x \in Range(toCtl'[c]) : x.id = i
    BY <1>1, HostSent
  <2>2. \A i : Asked(i) => Asked(i)'
    BY <2>1, AskedStays DEF CtlKept
  <2>3. ASSUME NEW i \in DOMAIN buffer', buffer'[i] # Free PROVE Asked(i)' \/ i \in stuck'
    <3>1. CASE i \in DOMAIN buffer /\ buffer[i] # Free
      BY <2>1, <2>2, <3>1 DEF BufferHasAnswer
    <3>2. CASE \E c \in Conns : \E x \in Range(toCtl'[c]) : x.id = i
      BY <3>2, Zenon DEF Asked
    <3>. QED
      BY <2>1, <2>3, <3>1, <3>2
  <2>. QED
    BY <2>3 DEF BufferHasAnswer, Free, Packet
<1>2. ASSUME NEW c \in Conns, Handle(c) PROVE BufferHasAnswer'
  <2>0. PICK m : m = Head(waiting[c])
    OBVIOUS
  <2>1. /\ Served(c, m) /\ toSwitch' = toSwitch
        /\ \A d \in Conns \ {c} : waiting'[d] = waiting[d]
        /\ Range(waiting[c]) = {m} \cup Range(waiting'[c])
    BY <1>2, <2>0, HandleServed
  <2>2. ASSUME NEW i, Asked(i), i # m.buffer_id PROVE Asked(i)'
    <3>1. PICK d \in Conns : \/ \E x \in Range(toCtl[d]) : x.id = i
                             \/ \E x \in Range(toSwitch[d]) \cup Range(waiting[d]) : x.buffer_id = i
      BY <2>2, Zenon DEF Asked
    <3>2. Range(toCtl[d]) \subseteq Range(toCtl'[d])
      BY <2>1 DEF Served, CtlKept
    <3>3. \A x \in Range(waiting[d]) : x = m \/ x \in Range(waiting'[d])
      BY <2>1
    <3>4. \/ \E x \in Range(toCtl'[d]) : x.id = i
          \/ \E x \in Range(toSwitch'[d]) \cup Range(waiting'[d]) : x.buffer_id = i
      BY <2>1, <2>2, <3>1, <3>2, <3>3
    <3>. QED
      BY <3>4, Zenon DEF Asked
  <2>3. ASSUME NEW i \in DOMAIN buffer', buffer'[i] # Free PROVE Asked(i)' \/ i \in stuck'
    <3>1. CASE i \in DOMAIN buffer /\ buffer[i] # Free /\ i # m.buffer_id
      BY <2>1, <2>2, <3>1 DEF BufferHasAnswer, Served
    <3>2. CASE \E x \in Range(toCtl'[c]) : x.id = i
      BY <3>2, Zenon DEF Asked
    <3>. QED
      BY <2>1, <2>3, <3>1, <3>2 DEF Served
  <2>. QED
    BY <2>3 DEF BufferHasAnswer, Free, Packet
<1>3. ASSUME NEW c \in Conns, handle_PacketIn(c) PROVE BufferHasAnswer'
  <2>1. /\ UNCHANGED <<buffer, stuck, waiting>>
        /\ \A d \in Conns \ {c} : toCtl'[d] = toCtl[d] /\ toSwitch'[d] = toSwitch[d]
    BY <1>3, PacketInHandled
  <2>2. PICK m, a : /\ Range(toCtl[c]) = {m} \cup Range(toCtl'[c])
                    /\ Range(toSwitch'[c]) = Range(toSwitch[c]) \cup {a}
                    /\ a.buffer_id = m.id
    BY <1>3, PacketInHandled
  <2>3. ASSUME NEW i, Asked(i) PROVE Asked(i)'
    <3>1. PICK d \in Conns : \/ \E x \in Range(toCtl[d]) : x.id = i
                             \/ \E x \in Range(toSwitch[d]) \cup Range(waiting[d]) : x.buffer_id = i
      BY <2>3, Zenon DEF Asked
    <3>2. CASE d # c
      <4>1. \/ \E x \in Range(toCtl'[d]) : x.id = i
            \/ \E x \in Range(toSwitch'[d]) \cup Range(waiting'[d]) : x.buffer_id = i
        BY <2>1, <3>1, <3>2
      <4>. QED
        BY <4>1, Zenon DEF Asked
    <3>3. CASE d = c
      <4>1. \/ \E x \in Range(toCtl'[c]) : x.id = i
            \/ \E x \in Range(toSwitch'[c]) \cup Range(waiting'[c]) : x.buffer_id = i
        BY <2>1, <2>2, <3>1, <3>3
      <4>. QED
        BY <4>1, Zenon DEF Asked
    <3>. QED
      BY <3>2, <3>3
  <2>. QED
    BY <2>1, <2>3 DEF BufferHasAnswer, Free, Packet
<1>4. ASSUME NEW c \in Conns, Request(c) \/ ReadBegins(c) PROVE BufferHasAnswer'
  <2>1. /\ UNCHANGED <<buffer, stuck, toCtl>>
        /\ \A d \in Conns : Range(toSwitch[d]) \cup Range(waiting[d])
                              \subseteq Range(toSwitch'[d]) \cup Range(waiting'[d])
    BY <1>4, RequestSent, ReadBegun
  <2>2. \A i : Asked(i) => Asked(i)'
    BY <2>1, AskedStays
  <2>. QED
    BY <2>1, <2>2 DEF BufferHasAnswer, Free, Packet
<1>5. ASSUME Quiet PROVE BufferHasAnswer'
  <2>1. \A i : Asked(i) => Asked(i)'
    BY <1>5, AskedStays DEF Quiet
  <2>. QED
    BY <1>5, <2>1 DEF Quiet, BufferHasAnswer, Free, Packet
<1>. QED
  BY <1>1, <1>2, <1>3, <1>4, <1>5, SwitchSteps, ConnectionAdded, OthersQuiet

\* SwitchImpl never forgets a packet: whatever the controllers ask, in whatever
\* order packets, answers and role changes arrive, a packet in a buffer has its
\* packet_in or its answer on the way, or was left behind in one of the three
\* ways that the model counts.
THEOREM BuffersAnswered == Spec => []BufferHasAnswer
<1>1. Init => SwitchInv /\ BufferHasAnswer
  BY SwitchInit
<1>2. SwitchInv /\ BufferHasAnswer /\ [Next]_vars => SwitchInv' /\ BufferHasAnswer'
  BY SwitchStep, AnswerComing
<1>. QED
  BY <1>1, <1>2, PTL DEF Spec

LEMMA RolesStep ==
    ASSUME SwitchInv, SwitchInv', Next
    PROVE  KeepsRoles
<1>0. [Next]_vars
  OBVIOUS
<1>1. Cardinality(Masters') <= 1
  <2>1. PICK M : M = Masters'
    OBVIOUS
  <2>2. \A c, d \in M : c = d
    BY <2>1 DEF SwitchInv, RoleOK, Masters
  <2>3. M = {} \/ \E c : M = {c}
    BY <2>2
  <2>4. Cardinality(M) = 0 \/ Cardinality(M) = 1
    BY <2>3, FS_EmptySet, FS_Singleton
  <2>. QED
    BY <2>1, <2>4
<1>2. ASSUME NEW c \in Conns, Len(toCtl'[c]) > Len(toCtl[c])
      PROVE  c = reading \/ faulty \/ Masters \in {{}, {c}}
  <2>0. Len(toCtl[c]) \in Nat /\ toCtl'[c] # toCtl[c]
    BY <1>2, BufferIds DEF SwitchInv, CtlOK
  <2>1. ASSUME NEW h \in Hosts, HostSends(h)
        PROVE  c = reading \/ faulty \/ Masters \in {{}, {c}}
    <3>1. c = Receiver(connection_in_action)
      BY <2>0, <2>1, HostSent
    <3>2. connection_in_action # None => faulty
      BY DEF SwitchInv, ActiveOK
    <3>3. connection_in_action = None => Masters \in {{}, {c}}
      BY <3>1, ReceiverFound DEF SwitchInv
    <3>. QED
      BY <3>2, <3>3
  <2>2. ASSUME NEW d \in Conns, Handle(d) PROVE c = reading
    <3>1. c = d
      BY <2>0, <2>2, HandleServed DEF Served
    <3>. QED
      BY <2>2, <3>1 DEF Handle
  <2>3. ~ \E d \in Conns : handle_PacketIn(d)
    <3>. SUFFICES ASSUME NEW d \in Conns, handle_PacketIn(d) PROVE FALSE
      OBVIOUS
    <3>1. c = d
      BY <2>0, PacketInHandled
    <3>2. Len(toCtl'[c]) <= Len(toCtl[c])
      BY <3>1, PacketInHandled
    <3>3. Len(toCtl'[c]) \in Nat
      BY BufferIds DEF SwitchInv, CtlOK
    <3>. QED
      BY <1>2, <2>0, <3>2, <3>3
  <2>4. ~ \E d \in Conns : Request(d) \/ ReadBegins(d)
    BY <2>0, RequestSent, ReadBegun
  <2>5. ~ Quiet
    BY <2>0 DEF Quiet
  <2>. QED
    BY <1>0, <2>1, <2>2, <2>3, <2>4, <2>5, SwitchSteps, ConnectionAdded, OthersQuiet
<1>3. ASSUME NEW c \in DOMAIN role, role[c] = "slave", reading = c
      PROVE  table' = table /\ buffer' = buffer /\ out' = <<>>
  <2>0. c \in Conns /\ c # None
    BY SwitchAssumption DEF SwitchInv, RoleOK, None
  <2>1. ASSUME NEW d \in Conns, Handle(d) PROVE table' = table /\ buffer' = buffer /\ out' = <<>>
    <3>1. d = c
      BY <1>3, <2>1 DEF Handle
    <3>. QED
      BY <1>3, <2>1, <3>1, HandleServed DEF Served
  <2>2. \A h \in Hosts : ~ HostSends(h) /\ ~ HostMoves(h)
    BY <1>3, <2>0 DEF HostSends, HostMoves
  <2>3. \A p \in Ports : ~ PortChanges(p)
    BY <1>3, <2>0 DEF PortChanges
  <2>4. \A d \in Conns : ~ add_connection(d) /\ ~ ReadBegins(d)
    BY <1>3, <2>0 DEF add_connection, ReadBegins
  <2>5. \A d \in Conns : handle_PacketIn(d) \/ Request(d) \/ Settle =>
           table' = table /\ buffer' = buffer /\ out' = <<>>
    BY DEF handle_PacketIn, Request, Settle, switchVars
  <2>6. Settle => table' = table /\ buffer' = buffer /\ out' = <<>>
    BY <2>0, <2>5
  <2>. QED
    BY <2>1, <2>2, <2>3, <2>4, <2>5, <2>6, Zenon DEF Next
<1>. QED
  BY <1>1, <1>2, <1>3 DEF KeepsRoles

\* The roles of NXSwitchImpl hold for any number of controllers: one master at
\* most, packet_ins for the connection in action or the master, and no effect
\* of what a slave sends on the table, the buffers or the ports.
THEOREM RolesAlwaysKept == Spec => RolesKept
<1>1. Init => SwitchInv
  BY SwitchInit
<1>2. SwitchInv /\ [Next]_vars => SwitchInv'
  BY SwitchStep
<1>3. SwitchInv /\ SwitchInv' /\ [Next]_vars => [KeepsRoles]_vars
  BY RolesStep
<1>. QED
  BY <1>1, <1>2, <1>3, PTL DEF Spec, RolesKept

-----------------------------------------------------------------------------
(* What actions do to a packet.                                            *)

Start(k) == [pkt |-> k, outs |-> <<>>, ctl |-> <<>>, raised |-> FALSE]

\* f holds what comes of the packet k after each of the first l actions.
Unrolled(f, acts, k, p, l) ==
    f = [n \in 0 .. l |-> IF n = 0 THEN Start(k) ELSE act(f[n - 1], acts[n], p)]

\* The recursion of process_actions defines something: it can be unrolled as
\* far as any number of actions, since none is the first where it cannot.
LEMMA ActionsUnroll ==
    ASSUME NEW acts, NEW k, NEW p, NEW L \in Nat
    PROVE  \E f : Unrolled(f, acts, k, p, L)
<1>1. PICK I : I = {l \in Nat : ~ \E f : Unrolled(f, acts, k, p, l)}
  OBVIOUS
<1>2. CASE I = {}
  BY <1>1, <1>2
<1>3. CASE I # {}
  <2>1. I \subseteq Nat
    BY <1>1
  <2>2. PICK l \in I : \A j \in I : l <= j
    BY <1>3, <2>1, Least, Zenon
  <2>3. CASE l = 0
    <3>1. PICK g : g = [n \in 0 .. 0 |-> Start(k)]
      OBVIOUS
    <3>2. Unrolled(g, acts, k, p, 0)
      BY <3>1 DEF Unrolled
    <3>. QED
      BY <1>1, <2>2, <2>3, <3>2
  <2>4. CASE l # 0
    <3>1. l - 1 \in Nat /\ l - 1 \notin I
      BY <2>1, <2>2, <2>4
    <3>2. PICK f : Unrolled(f, acts, k, p, l - 1)
      BY <1>1, <3>1
    <3>3. PICK g : g = [n \in 0 .. l |-> IF n = l THEN act(f[l - 1], acts[l], p) ELSE f[n]]
      OBVIOUS
    <3>4. ASSUME NEW n \in 0 .. l
          PROVE  g[n] = IF n = 0 THEN Start(k) ELSE act(g[n - 1], acts[n], p)
      <4>1. CASE n = l
        <5>1. n - 1 \in 0 .. l /\ n - 1 # l /\ n # 0
          BY <2>1, <2>4, <4>1
        <5>. QED
          BY <3>3, <4>1, <5>1
      <4>2. CASE n # l /\ n # 0
        <5>1. n \in 0 .. l - 1 /\ n - 1 \in 0 .. l /\ n - 1 # l
          BY <2>1, <4>2
        <5>2. g[n] = f[n] /\ g[n - 1] = f[n - 1]
          BY <3>3, <4>2, <5>1
        <5>. QED
          BY <3>2, <4>2, <5>1, <5>2 DEF Unrolled
      <4>3. CASE n # l /\ n = 0
        <5>1. n \in 0 .. l - 1
          BY <2>1, <4>3
        <5>. QED
          BY <3>2, <3>3, <4>3, <5>1 DEF Unrolled
      <4>. QED
        BY <4>1, <4>2, <4>3
    <3>5. Unrolled(g, acts, k, p, l)
      BY <3>3, <3>4 DEF Unrolled
    <3>. QED
      BY <1>1, <2>2, <3>5
  <2>. QED
    BY <2>3, <2>4
<1>. QED
  BY <1>2, <1>3

\* process_actions step by step.
LEMMA ActionsProcessed ==
    ASSUME NEW acts, IsSeq(acts), NEW k, NEW p
    PROVE  \E f : /\ process_actions(acts, k, p) = f[Len(acts)]
                  /\ f[0] = Start(k)
                  /\ \A n \in 1 .. Len(acts) : f[n] = act(f[n - 1], acts[n], p)
<1>1. Len(acts) \in Nat
  BY BufferIds
<1> DEFINE f == CHOOSE f : Unrolled(f, acts, k, p, Len(acts))
<1>2. Unrolled(f, acts, k, p, Len(acts))
  BY <1>1, ActionsUnroll, Zenon
<1>3. process_actions(acts, k, p) = f[Len(acts)]
  BY Zenon DEF process_actions, Start, Unrolled
<1>. HIDE DEF f
<1>4. f[0] = Start(k)
  BY <1>1, <1>2 DEF Unrolled
<1>5. \A n \in 1 .. Len(acts) : f[n] = act(f[n - 1], acts[n], p)
  BY <1>1, <1>2 DEF Unrolled
<1>. QED
  BY <1>3, <1>4, <1>5

IsPacket(k) == k = [src |-> k.src, dst |-> k.dst, next |-> k.next]
IsResult(r) == r = [pkt |-> r.pkt, outs |-> r.outs, ctl |-> r.ctl, raised |-> r.raised]

\* What actions that leave the hosts alone have made of the packet k: it keeps
\* its source, is sent on no port of a number, and the controller has seen it
\* with the destination it has.
Kind(r, k) ==
    /\ IsResult(r) /\ IsPacket(r.pkt) /\ r.pkt.src = k.src /\ IsSeq(r.outs)
    /\ \A x \in Range(r.outs) : x.port \notin Ports
    /\ r.ctl = <<>> \/ \E j : r.ctl = <<j>> /\ IsPacket(j) /\ j.src = k.src /\ j.dst = r.pkt.dst

LEMMA Rewrites ==
    ASSUME NEW r, IsResult(r), IsPacket(r.pkt), NEW a, a.type # "set_dl_src"
    PROVE  LET t == rewrite(r, a) IN
           /\ IsResult(t) /\ IsPacket(t.pkt) /\ t.pkt.src = r.pkt.src
           /\ t.outs = r.outs /\ t.ctl = r.ctl
           /\ a.type # "set_dl_dst" => t.pkt.dst = r.pkt.dst
<1>1. PICK t : t = rewrite(r, a)
  OBVIOUS
<1>2. PICK P, O, C, W : r = [pkt |-> P, outs |-> O, ctl |-> C, raised |-> W]
  BY DEF IsResult
<1>3. \A w : [r EXCEPT !.raised = w] = [pkt |-> P, outs |-> O, ctl |-> C, raised |-> w]
  BY <1>2
<1>4. \A x : [r EXCEPT !.pkt.next = x]
               = [pkt |-> [P EXCEPT !.next = x], outs |-> O, ctl |-> C, raised |-> W]
  BY <1>2
<1>5. ASSUME NEW x
      PROVE  [r EXCEPT !.pkt.next = x, !.raised = TRUE]
               = [pkt |-> [P EXCEPT !.next = x], outs |-> O, ctl |-> C, raised |-> TRUE]
  <2>1. PICK u, q : u = [r EXCEPT !.pkt.next = x] /\ q = [P EXCEPT !.next = x]
    OBVIOUS
  <2>2. u = [pkt |-> q, outs |-> O, ctl |-> C, raised |-> W]
    <3>1. r.pkt = P
      BY <1>2
    <3>2. u = [r EXCEPT !.pkt = q]
      BY <2>1, <3>1
    <3>. QED
      BY <1>2, <3>2
  <2>3. \A w : [u EXCEPT !.raised = w] = [pkt |-> q, outs |-> O, ctl |-> C, raised |-> w]
    BY <2>2
  <2>. QED
    BY <2>1, <2>3, Zenon
<1>6. \A x : [r EXCEPT !.pkt.dst = x]
               = [pkt |-> [P EXCEPT !.dst = x], outs |-> O, ctl |-> C, raised |-> W]
  BY <1>2
<1>7. \/ t = r
      \/ \E w : t = [r EXCEPT !.raised = w]
      \/ \E x : t = [r EXCEPT !.pkt.next = x]
      \/ \E x : t = [r EXCEPT !.pkt.next = x, !.raised = TRUE]
      \/ a.type = "set_dl_dst" /\ \E x : t = [r EXCEPT !.pkt.dst = x]
  BY <1>1 DEF rewrite
<1>8. ASSUME NEW x, \/ t = [r EXCEPT !.pkt.next = x]
                   \/ t = [r EXCEPT !.pkt.next = x, !.raised = TRUE]
      PROVE  \E w : t = [pkt |-> [P EXCEPT !.next = x], outs |-> O, ctl |-> C, raised |-> w]
  BY <1>4, <1>5, <1>8
<1>9. PICK q, w : /\ t = [pkt |-> q, outs |-> O, ctl |-> C, raised |-> w]
                  /\ \/ q = P
                     \/ \E x : q = [P EXCEPT !.next = x]
                     \/ a.type = "set_dl_dst" /\ \E x : q = [P EXCEPT !.dst = x]
  <2>1. CASE t = r \/ \E w : t = [r EXCEPT !.raised = w]
    BY <1>2, <1>3, <2>1, Zenon
  <2>2. CASE \E x : \/ t = [r EXCEPT !.pkt.next = x]
                    \/ t = [r EXCEPT !.pkt.next = x, !.raised = TRUE]
    <3>1. PICK x : \/ t = [r EXCEPT !.pkt.next = x]
                   \/ t = [r EXCEPT !.pkt.next = x, !.raised = TRUE]
      BY <2>2
    <3>2. PICK w : t = [pkt |-> [P EXCEPT !.next = x], outs |-> O, ctl |-> C, raised |-> w]
      BY <1>8, <3>1
    <3>. QED
      BY <3>2, Zenon
  <2>3. CASE a.type = "set_dl_dst" /\ \E x : t = [r EXCEPT !.pkt.dst = x]
    <3>1. PICK x : t = [r EXCEPT !.pkt.dst = x]
      BY <2>3
    <3>2. t = [pkt |-> [P EXCEPT !.dst = x], outs |-> O, ctl |-> C, raised |-> W]
      BY <1>6, <3>1
    <3>. QED
      BY <2>3, <3>2, Zenon
  <2>. QED
    BY <1>7, <2>1, <2>2, <2>3
<1>10. P = [src |-> P.src, dst |-> P.dst, next |-> P.next]
  BY <1>2 DEF IsPacket
<1>11. PICK s, d, e : P = [src |-> s, dst |-> d, next |-> e]
  BY <1>10
<1>12. \A x : /\ [P EXCEPT !.next = x] = [src |-> s, dst |-> d, next |-> x]
              /\ [P EXCEPT !.dst = x] = [src |-> s, dst |-> x, next |-> e]
  BY <1>11
<1>13. PICK y, z : /\ q = [src |-> s, dst |-> y, next |-> z]
                   /\ y = d \/ a.type = "set_dl_dst"
  BY <1>9, <1>11, <1>12
<1>14. IsPacket(q) /\ q.src = P.src /\ (a.type # "set_dl_dst" => q.dst = P.dst)
  BY <1>11, <1>13 DEF IsPacket
<1>15. IsResult(t) /\ t.pkt = q /\ t.outs = O /\ t.ctl = C
  BY <1>9 DEF IsResult
<1>16. r.pkt = P /\ r.outs = O /\ r.ctl = C
  BY <1>2
<1>. QED
  BY <1>1, <1>14, <1>15, <1>16

LEMMA Outputs ==
    ASSUME NEW r, IsResult(r), IsPacket(r.pkt), IsSeq(r.outs), NEW a, NEW p
    PROVE  LET t == output_packet(r, a, p) IN
           /\ IsResult(t) /\ t.pkt = r.pkt /\ IsSeq(t.outs)
           /\ \A x \in Range(t.outs) : x \in Range(r.outs) \/ (x.port = a.arg /\ x.pkt = r.pkt)
           /\ t.ctl = r.ctl \/ (a.arg = CONTROLLER /\ t.ctl = <<r.pkt>>)
<1>0. PICK P, O, C, W : r = [pkt |-> P, outs |-> O, ctl |-> C, raised |-> W]
  BY DEF IsResult
<1>1. PICK t : t = output_packet(r, a, p)
  OBVIOUS
<1>2. PICK x : x = [pkt |-> r.pkt, to |-> OutPorts(a.arg, p), port |-> a.arg]
  OBVIOUS
<1>3. PICK o, c : o = Append(r.outs, x) /\ c = IF a.arg = CONTROLLER THEN <<r.pkt>> ELSE r.ctl
  OBVIOUS
<1>4. t = [r EXCEPT !.raised = TRUE] \/ t = [r EXCEPT !.outs = o, !.ctl = c]
  BY <1>1, <1>2, <1>3 DEF output_packet
<1>5. IsSeq(o) /\ Range(o) = Range(r.outs) \cup {x}
  BY <1>3, AppendElements
<1>6. CASE t = [r EXCEPT !.raised = TRUE]
  <2>1. t = [pkt |-> P, outs |-> O, ctl |-> C, raised |-> TRUE]
    BY <1>0, <1>6
  <2>2. IsResult(t) /\ t.pkt = r.pkt /\ t.outs = r.outs /\ t.ctl = r.ctl
    BY <1>0, <2>1 DEF IsResult
  <2>. QED
    BY <1>1, <2>2
<1>7. CASE t = [r EXCEPT !.outs = o, !.ctl = c]
  <2>1. t = [pkt |-> P, outs |-> o, ctl |-> c, raised |-> W]
    BY <1>0, <1>7
  <2>2. IsResult(t) /\ t.pkt = r.pkt /\ t.outs = o /\ t.ctl = c
    BY <1>0, <2>1 DEF IsResult
  <2>3. x.port = a.arg /\ x.pkt = r.pkt
    BY <1>2
  <2>4. c = r.ctl \/ (a.arg = CONTROLLER /\ c = <<r.pkt>>)
    BY <1>3
  <2>5. \A y \in Range(o) : y \in Range(r.outs) \/ (y.port = a.arg /\ y.pkt = r.pkt)
    BY <1>5, <2>3
  <2>. QED
    BY <1>1, <1>5, <2>2, <2>4, <2>5
<1>. QED
  BY <1>4, <1>6, <1>7

LEMMA KindKept ==
    ASSUME NEW r, NEW k, Kind(r, k), NEW a, NEW p, a.type # "set_dl_src",
           a.type = "output" => a.arg \notin Ports, a.type = "set_dl_dst" => r.ctl = <<>>
    PROVE  LET t == act(r, a, p) IN
           /\ Kind(t, k)
           /\ t.ctl = <<>> \/ r.ctl # <<>> \/ (a.type = "output" /\ a.arg = CONTROLLER)
<1>1. PICK t : t = act(r, a, p)
  OBVIOUS
<1>2. CASE t = r
  BY <1>1, <1>2
<1>3. CASE a.type = "output" /\ t = output_packet(r, a, p)
  <2>1. /\ IsResult(t) /\ t.pkt = r.pkt /\ IsSeq(t.outs)
        /\ \A x \in Range(t.outs) : x \in Range(r.outs) \/ (x.port = a.arg /\ x.pkt = r.pkt)
        /\ t.ctl = r.ctl \/ (a.arg = CONTROLLER /\ t.ctl = <<r.pkt>>)
    BY <1>3, Outputs DEF Kind
  <2>2. \A x \in Range(t.outs) : x.port \notin Ports
    BY <1>3, <2>1 DEF Kind
  <2>3. t.ctl = <<>> \/ \E j : t.ctl = <<j>> /\ IsPacket(j) /\ j.src = k.src /\ j.dst = t.pkt.dst
    <3>1. CASE t.ctl = r.ctl
      BY <2>1, <3>1, Zenon DEF Kind
    <3>2. CASE t.ctl = <<r.pkt>>
      <4>1. IsPacket(r.pkt) /\ r.pkt.src = k.src /\ r.pkt.dst = t.pkt.dst
        BY <2>1 DEF Kind
      <4>. QED
        BY <3>2, <4>1, Zenon
    <3>. QED
      BY <2>1, <3>1, <3>2
  <2>4. IsPacket(t.pkt) /\ t.pkt.src = k.src
    BY <2>1 DEF Kind
  <2>5. t.ctl = <<>> \/ r.ctl # <<>> \/ (a.type = "output" /\ a.arg = CONTROLLER)
    BY <1>3, <2>1
  <2>. QED
    BY <1>1, <2>1, <2>2, <2>3, <2>4, <2>5 DEF Kind
<1>4. CASE t = rewrite(r, a)
  <2>1. /\ IsResult(t) /\ IsPacket(t.pkt) /\ t.pkt.src = r.pkt.src
        /\ t.outs = r.outs /\ t.ctl = r.ctl
        /\ a.type # "set_dl_dst" => t.pkt.dst = r.pkt.dst
    BY <1>4, Rewrites DEF Kind
  <2>2. t.ctl = <<>> \/ \E j : t.ctl = <<j>> /\ IsPacket(j) /\ j.src = k.src /\ j.dst = t.pkt.dst
    <3>1. CASE r.ctl = <<>>
      BY <2>1, <3>1
    <3>2. CASE r.ctl # <<>>
      <4>1. PICK j : r.ctl = <<j>> /\ IsPacket(j) /\ j.src = k.src /\ j.dst = r.pkt.dst
        BY <3>2, Zenon DEF Kind
      <4>2. r.pkt.dst = t.pkt.dst
        BY <2>1, <3>2
      <4>. QED
        BY <2>1, <4>1, <4>2, Zenon
    <3>. QED
      BY <3>1, <3>2
  <2>3. /\ t.pkt.src = k.src /\ IsSeq(t.outs) /\ \A x \in Range(t.outs) : x.port \notin Ports
    BY <2>1 DEF Kind
  <2>. QED
    BY <1>1, <2>1, <2>2, <2>3 DEF Kind
<1>. QED
  BY <1>1, <1>2, <1>3, <1>4 DEF act

LEMMA LeftAlone ==
    ASSUME NEW acts, IsSeq(acts), LeavesHosts(acts), NEW k, IsPacket(k), NEW p
    PROVE  Kind(process_actions(acts, k, p), k)
<1>0. DOMAIN acts = 1 .. Len(acts) /\ Len(acts) \in Nat
  BY BufferIds
<1>1. PICK f : /\ process_actions(acts, k, p) = f[Len(acts)]
               /\ f[0] = Start(k)
               /\ \A n \in 1 .. Len(acts) : f[n] = act(f[n - 1], acts[n], p)
  BY ActionsProcessed
<1> DEFINE Shown(n) == \E i \in 1 .. n : acts[i].type = "output" /\ acts[i].arg = CONTROLLER
           Fine(n) == Kind(f[n], k) /\ (f[n].ctl # <<>> => Shown(n))
<1>2. PICK I : I = {n \in 0 .. Len(acts) : ~ Fine(n)}
  OBVIOUS
<1>3. CASE I = {}
  <2>1. Fine(Len(acts))
    BY <1>0, <1>2, <1>3
  <2>. QED
    BY <1>1, <2>1
<1>4. CASE I # {}
  <2>0. I \subseteq Nat
    BY <1>2
  <2>1. PICK n \in I : \A j \in I : n <= j
    BY <1>4, <2>0, Least, Zenon
  <2>2. Fine(0)
    <3>1. PICK r : r = f[0] /\ r = [pkt |-> k, outs |-> <<>>, ctl |-> <<>>, raised |-> FALSE]
      BY <1>1 DEF Start
    <3>2. IsResult(r) /\ r.pkt = k /\ r.outs = <<>> /\ r.ctl = <<>>
      BY <3>1 DEF IsResult
    <3>3. IsSeq(r.outs) /\ \A x \in Range(r.outs) : x.port \notin Ports
      BY <3>2, EmptyIsSeq
    <3>. QED
      BY <3>1, <3>2, <3>3 DEF Kind
  <2>3. n # 0
    BY <1>2, <2>1, <2>2
  <2>4. n \in 1 .. Len(acts) /\ n - 1 \in 0 .. Len(acts) /\ n - 1 \notin I /\ n \in Nat
    BY <1>0, <1>2, <2>0, <2>1, <2>3
  <2>5. Fine(n - 1)
    BY <1>2, <2>4
  <2>6. /\ acts[n].type # "set_dl_src"
        /\ acts[n].type = "output" => acts[n].arg \notin Ports
    BY <1>0, <2>4 DEF LeavesHosts
  <2>7. acts[n].type = "set_dl_dst" => ~ Shown(n - 1)
    BY <1>0, <2>4 DEF LeavesHosts
  <2>8. /\ Kind(f[n], k)
        /\ \/ f[n].ctl = <<>> \/ f[n - 1].ctl # <<>>
           \/ (acts[n].type = "output" /\ acts[n].arg = CONTROLLER)
    <3>1. PICK r, a : r = f[n - 1] /\ a = acts[n]
      OBVIOUS
    <3>2. f[n] = act(r, a, p)
      BY <1>1, <2>4, <3>1
    <3>3. /\ Kind(r, k) /\ a.type # "set_dl_src" /\ (a.type = "output" => a.arg \notin Ports)
          /\ a.type = "set_dl_dst" => r.ctl = <<>>
      BY <2>5, <2>6, <2>7, <3>1
    <3>. QED
      BY <3>1, <3>2, <3>3, KindKept
  <2>9. Shown(n - 1) => Shown(n)
    BY <2>4
  <2>10. Fine(n)
    BY <2>4, <2>5, <2>8, <2>9
  <2>. QED
    BY <1>2, <2>1, <2>10
<1>. QED
  BY <1>3, <1>4

-----------------------------------------------------------------------------
(* Where hosts are.                                                        *)

\* The host h, if it is one, has sent from the port p, if it is one.
Learned(h, p) == h \in Hosts /\ p \in Ports => <<h, p>> \in seen

\* A packet that is really from its source, at the port where it came in (0 for
\* a packet that a controller made), and not the mark of a free buffer.
Genuine(k, p) ==
    /\ IsPacket(k) /\ Learned(k.src, p)
    /\ k.src # Wild /\ (p = 0 => k.src # Free.pkt.src)

\* Actions that may be applied to packets for dst.
AimsWell(acts, dst) ==
    /\ IsSeq(acts)
    /\ \/ LeavesHosts(acts)
       \/ \E q : acts = <<Output(q)>> /\ dst # Wild /\ Learned(dst, q)

\* What such actions make of the packet k.
Went(r, k) ==
    /\ IsPacket(r.pkt) /\ r.pkt.src = k.src
    /\ r.ctl # <<>> => IsPacket(r.ctl[1]) /\ r.ctl[1].src = k.src /\ r.ctl[1].dst = r.pkt.dst
    /\ \A i \in DOMAIN r.outs : Learned(r.outs[i].pkt.dst, r.outs[i].port)

LEMMA Delivered ==
    ASSUME NEW k, IsPacket(k), NEW acts, AimsWell(acts, k.dst), NEW p
    PROVE  Went(process_actions(acts, k, p), k)
<1>1. PICK r : r = process_actions(acts, k, p)
  OBVIOUS
<1>2. CASE LeavesHosts(acts)
  <2>1. Kind(r, k)
    BY <1>1, <1>2, LeftAlone DEF AimsWell
  <2>2. \A x \in Range(r.outs) : Learned(x.pkt.dst, x.port)
    BY <2>1 DEF Kind, Learned
  <2>3. \A i \in DOMAIN r.outs : Learned(r.outs[i].pkt.dst, r.outs[i].port)
    BY <2>2, Zenon DEF Range
  <2>4. r.ctl # <<>> => IsPacket(r.ctl[1]) /\ r.ctl[1].src = k.src /\ r.ctl[1].dst = r.pkt.dst
    <3>. SUFFICES ASSUME r.ctl # <<>>
                  PROVE  IsPacket(r.ctl[1]) /\ r.ctl[1].src = k.src /\ r.ctl[1].dst = r.pkt.dst
      OBVIOUS
    <3>1. PICK j : r.ctl = <<j>> /\ IsPacket(j) /\ j.src = k.src /\ j.dst = r.pkt.dst
      BY <2>1, Zenon DEF Kind
    <3>2. r.ctl[1] = j
      BY <3>1
    <3>. QED
      BY <3>1, <3>2
  <2>. QED
    BY <1>1, <2>1, <2>3, <2>4 DEF Went, Kind
<1>3. CASE \E q : acts = <<Output(q)>> /\ k.dst # Wild /\ Learned(k.dst, q)
  <2>1. PICK q : acts = <<Output(q)>> /\ Learned(k.dst, q)
    BY <1>3
  <2>2. PICK a : a = Output(q)
    OBVIOUS
  <2>3. a = Output(q) /\ a.type = "output" /\ a.arg = q
    BY <2>2 DEF Output, Act
  <2>4. PICK f : r = f[Len(acts)] /\ f[0] = Start(k)
                 /\ \A n \in 1 .. Len(acts) : f[n] = act(f[n - 1], acts[n], p)
    BY <1>1, ActionsProcessed DEF AimsWell
  <2>5. Len(acts) = 1 /\ acts[1] = a
    BY <2>1, <2>3
  <2>6. r = act(Start(k), a, p)
    <3>1. f[1] = act(f[1 - 1], acts[1], p) /\ 1 - 1 = 0 /\ r = f[1]
      BY <2>4, <2>5
    <3>. QED
      BY <2>4, <2>5, <3>1
  <2>7. PICK s : s = Start(k)
    OBVIOUS
  <2>8. /\ s = Start(k) /\ s.pkt = k /\ s.outs = <<>> /\ s.ctl = <<>> /\ s.raised = FALSE
        /\ IsResult(s)
    BY <2>7 DEF Start, IsResult
  <2>9. r = output_packet(s, a, p)
    BY <2>3, <2>6, <2>8 DEF act
  <2>10. /\ r.pkt = k /\ IsSeq(r.outs)
         /\ \A x \in Range(r.outs) : x.port = q /\ x.pkt = k
         /\ r.ctl = <<>> \/ r.ctl = <<k>>
    <3>1. IsSeq(s.outs) /\ Range(s.outs) = {}
      BY <2>8, EmptyIsSeq
    <3>2. IsPacket(s.pkt)
      BY <2>8
    <3>. QED
      BY <2>3, <2>8, <2>9, <3>1, <3>2, Outputs
  <2>11. \A x \in Range(r.outs) : Learned(x.pkt.dst, x.port)
    BY <2>1, <2>10
  <2>12. \A i \in DOMAIN r.outs : Learned(r.outs[i].pkt.dst, r.outs[i].port)
    BY <2>11, Zenon DEF Range
  <2>13. r.ctl # <<>> => r.ctl[1] = k
    BY <2>10
  <2>. QED
    BY <1>1, <2>10, <2>12, <2>13 DEF Went
<1>. QED
  BY <1>2, <1>3 DEF AimsWell

-----------------------------------------------------------------------------
(* The flow table.                                                         *)

LEMMA SelectedEntries ==
    ASSUME NEW t, IsSeq(t), NEW S, S \subseteq DOMAIN t
    PROVE  IsSeq(AtIndices(t, S)) /\ Range(AtIndices(t, S)) \subseteq Range(t)
<1>1. DOMAIN t = 1 .. Len(t) /\ Len(t) \in Nat
  BY BufferIds
<1>2. IsFiniteSet(1 .. Len(t))
  BY <1>1, FS_Interval
<1>3. IsFiniteSet(S) /\ S \subseteq Nat /\ Cardinality(S) \in Nat
  BY <1>1, <1>2, FS_Subset, FS_CardinalityType
<1>4. PICK n \in Nat : n = Cardinality(S)
  BY <1>3
<1>5. ASSUME NEW i \in 1 .. n PROVE t[Nth(S, i - 1)] \in Range(t)
  <2>1. i - 1 \in Nat /\ i - 1 < n
    BY <1>4
  <2>2. Nth(S, i - 1) \in S
    BY <1>3, <1>4, <2>1, NthFound
  <2>. QED
    BY <2>2, Zenon DEF Range
<1>6. PICK R : R = Range(t)
  OBVIOUS
<1>7. AtIndices(t, S) \in Seq(R)
  BY <1>4, <1>5, <1>6 DEF AtIndices
<1>. QED
  BY <1>6, <1>7, SeqOfElements DEF Range

\* An added entry is all that is new in the table.
LEMMA EntryAdded ==
    ASSUME NEW t, IsSeq(t), NEW e
    PROVE  LET u == process_flow_mod(t, [command |-> "add", entry |-> e]) IN
           IsSeq(u) /\ Range(u) \subseteq Range(t) \cup {e}
<1>1. PICK v : v = remove_matching_entries(t, e.match, e.priority, TRUE)
  OBVIOUS
<1>2. IsSeq(v) /\ Range(v) \subseteq Range(t)
  BY <1>1, SelectedEntries DEF remove_matching_entries
<1>3. PICK a, b : /\ a = AtIndices(v, {i \in DOMAIN v : SortKey(v[i]) >= SortKey(e)})
                  /\ b = AtIndices(v, {i \in DOMAIN v : SortKey(v[i]) < SortKey(e)})
  OBVIOUS
<1>4. IsSeq(a) /\ IsSeq(b) /\ Range(a) \subseteq Range(t) /\ Range(b) \subseteq Range(t)
  BY <1>2, <1>3, SelectedEntries
<1>5. IsSeq(<<e>>) /\ Range(<<e>>) = {e}
  BY SingleIsSeq
<1>6. IsSeq(a \o <<e>>) /\ Range(a \o <<e>>) = Range(a) \cup {e}
  BY <1>4, <1>5, ConcatElements
<1>7. IsSeq((a \o <<e>>) \o b) /\ Range((a \o <<e>>) \o b) = Range(a) \cup {e} \cup Range(b)
  BY <1>4, <1>6, ConcatElements
<1>8. process_flow_mod(t, [command |-> "add", entry |-> e]) = (a \o <<e>>) \o b
  BY <1>1, <1>3 DEF process_flow_mod, add_entry
<1>. QED
  BY <1>4, <1>7, <1>8

TableAims == IsSeq(table) /\ \A e \in Range(table) : AimsWell(e.actions, e.match.dl_dst)

\* The entry that is found for a packet has the packet's destination or none,
\* so that its actions may be applied to it.
LEMMA EntryFits ==
    ASSUME TableAims, NEW p, NEW s, NEW d,
           NEW e, e = entry_for_packet(table, Match(p, s, d, AnyNw)), e # NoEntry
    PROVE  AimsWell(e.actions, d)
<1>1. PICK m : m = Match(p, s, d, AnyNw)
  OBVIOUS
<1>2. PICK hits : hits = {i \in DOMAIN table : matches_with_wildcards(table[i].match, m, FALSE)}
  OBVIOUS
<1>3. e = IF hits = {} THEN NoEntry ELSE table[Min(hits)]
  BY <1>1, <1>2, Zenon DEF entry_for_packet, from_packet
<1>4. DOMAIN table = 1 .. Len(table) /\ Len(table) \in Nat
  BY BufferIds DEF TableAims
<1>5. hits \subseteq Nat /\ hits # {}
  <2>1. hits # {}
    BY <1>3, Zenon
  <2>2. hits \subseteq DOMAIN table
    BY <1>2, Zenon
  <2>. QED
    BY <1>4, <2>1, <2>2
<1>6. PICK i \in hits : e = table[i]
  <2>1. Min(hits) \in hits
    BY <1>5, Least
  <2>2. PICK i : i = Min(hits)
    OBVIOUS
  <2>3. e = table[i]
    BY <1>3, <1>5, <2>2
  <2>. QED
    BY <2>1, <2>2, <2>3
<1>7. i \in DOMAIN table /\ matches_with_wildcards(e.match, m, FALSE)
  BY <1>2, <1>6
<1>8. AimsWell(e.actions, e.match.dl_dst)
  BY <1>6, <1>7, Zenon DEF TableAims, Range
<1>9. m.dl_dst = d
  BY <1>1 DEF Match
<1>10. e.match.dl_dst = Wild \/ e.match.dl_dst = d
  BY <1>7, <1>9 DEF matches_with_wildcards, Whole
<1>. QED
  BY <1>8, <1>10 DEF AimsWell

-----------------------------------------------------------------------------
(* What names a buffer: the packet_in, and then the answer to it.          *)

Owed(m) == [id |-> m.buffer_id, dst |-> m.pkt.dst, flow |-> m.type = "flow_mod"]
Told(x) == [id |-> x.id, dst |-> x.pkt.dst, flow |-> TRUE]

\* The names on their way over a connection, in the order in which the switch
\* will see them: in its receive buffer, on the wire, and at the controller.  An
\* answer takes the place of its packet_in, and what is read keeps its place.
NamesIn(w, s, t) ==
    [k \in 1 .. Len(w) + Len(s) + Len(t) |->
       IF k <= Len(w) THEN Owed(w[k])
       ELSE IF k <= Len(w) + Len(s) THEN Owed(s[k - Len(w)])
       ELSE Told(t[k - Len(w) - Len(s)])]
Due == [c \in Conns |-> NamesIn(waiting[c], toSwitch[c], toCtl[c])]

\* No buffer has two names on their way, and a name that is on its way is that of
\* a packet, for the destination the name says if a flow will be installed.
Apart(D) ==
    \A c, d \in Conns : \A i \in DOMAIN D[c], j \in DOMAIN D[d] :
      D[c][i].id = D[d][j].id /\ D[c][i].id # 0 => c = d /\ i = j
Names(x, b) ==
    x.id \in DOMAIN b /\ b[x.id] # Free /\ (x.flow => b[x.id].pkt.dst = x.dst)
Held(D, b) ==
    \A c \in Conns : \A i \in DOMAIN D[c] : D[c][i].id # 0 => Names(D[c][i], b)

\* A step moves names from D to E, and the buffers from b to e: o says where each
\* name was, and one at most is new, a's number q, for a buffer that was free.
Moves(D, b, E, e, o, a, q) ==
    /\ \A c \in Conns : \A k \in DOMAIN E[c] : E[c][k].id # 0 =>
         \/ /\ c = a /\ k = q /\ Names(E[c][k], e)
            /\ E[c][k].id \in DOMAIN b => b[E[c][k].id] = Free
         \/ /\ ~ (c = a /\ k = q)
            /\ o[c][k] \in DOMAIN D[c]
            /\ E[c][k].id = D[c][o[c][k]].id
            /\ E[c][k].flow => D[c][o[c][k]].flow /\ E[c][k].dst = D[c][o[c][k]].dst
            /\ E[c][k].id \in DOMAIN e /\ e[E[c][k].id] = b[E[c][k].id]
    /\ \A c \in Conns : \A k, l \in DOMAIN E[c] : o[c][k] = o[c][l] => k = l

LEMMA NamesMove ==
    ASSUME NEW D, NEW b, Apart(D), Held(D, b), NEW E, NEW e, NEW o, NEW a, NEW q,
           Moves(D, b, E, e, o, a, q)
    PROVE  Apart(E) /\ Held(E, e)
<1>1. ASSUME NEW c \in Conns, NEW k \in DOMAIN E[c], E[c][k].id # 0, ~ (c = a /\ k = q)
      PROVE  /\ o[c][k] \in DOMAIN D[c] /\ D[c][o[c][k]].id = E[c][k].id
             /\ E[c][k].id \in DOMAIN b /\ b[E[c][k].id] # Free
             /\ Names(E[c][k], e)
  <2>1. PICK x, y : x = E[c][k] /\ y = D[c][o[c][k]]
    OBVIOUS
  <2>2. /\ o[c][k] \in DOMAIN D[c] /\ x.id = y.id /\ (x.flow => y.flow /\ x.dst = y.dst)
        /\ x.id \in DOMAIN e /\ e[x.id] = b[x.id]
    BY <1>1, <2>1 DEF Moves
  <2>3. Names(y, b)
    BY <1>1, <2>1, <2>2 DEF Held
  <2>4. Names(x, e)
    BY <2>2, <2>3 DEF Names
  <2>. QED
    BY <2>1, <2>2, <2>3, <2>4 DEF Names
<1>2. Held(E, e)
  BY <1>1 DEF Held, Moves
<1>3. ASSUME NEW c \in Conns, NEW d \in Conns, NEW i \in DOMAIN E[c], NEW j \in DOMAIN E[d],
             E[c][i].id = E[d][j].id, E[c][i].id # 0
      PROVE  c = d /\ i = j
  <2>1. CASE ~ (c = a /\ i = q) /\ ~ (d = a /\ j = q)
    <3>1. /\ o[c][i] \in DOMAIN D[c] /\ D[c][o[c][i]].id = E[c][i].id
          /\ o[d][j] \in DOMAIN D[d] /\ D[d][o[d][j]].id = E[d][j].id
      BY <1>1, <1>3, <2>1
    <3>2. c = d /\ o[c][i] = o[d][j]
      BY <1>3, <3>1 DEF Apart
    <3>. QED
      BY <3>2 DEF Moves
  <2>2. CASE c = a /\ i = q /\ ~ (d = a /\ j = q)
    BY <1>1, <1>3, <2>2 DEF Moves
  <2>3. CASE ~ (c = a /\ i = q) /\ d = a /\ j = q
    BY <1>1, <1>3, <2>3 DEF Moves
  <2>. QED
    BY <2>1, <2>2, <2>3
<1>4. Apart(E)
  BY <1>3 DEF Apart
<1>. QED
  BY <1>2, <1>4

\* The names after a packet_in has been sent, a message has been handled, what
\* arrived has been taken from the wire, a packet_in has been answered, and a
\* request has been sent.
Longer(D, E, n, y) ==
    /\ n \in Nat /\ DOMAIN D = 1 .. n /\ DOMAIN E = 1 .. n + 1
    /\ \A k \in 1 .. n : E[k] = D[k]
    /\ E[n + 1] = y
Shorter(D, E, n, y) ==
    /\ n \in Nat /\ DOMAIN D = 1 .. n /\ DOMAIN E = 1 .. n - 1 /\ n > 0
    /\ \A k \in 1 .. n - 1 : E[k] = D[k + 1]
    /\ D[1] = y
Exchanged(D, E, n, q, y, z) ==
    /\ n \in Nat /\ q \in 1 .. n /\ DOMAIN D = 1 .. n /\ DOMAIN E = 1 .. n
    /\ \A k \in 1 .. n : k # q => E[k] = D[k]
    /\ D[q] = y /\ E[q] = z
Inserted(D, E, n, q, y) ==
    /\ n \in Nat /\ q \in 1 .. n + 1 /\ DOMAIN D = 1 .. n /\ DOMAIN E = 1 .. n + 1
    /\ E[q] = y
    /\ \A k \in 1 .. n + 1 : (k < q => E[k] = D[k]) /\ (k > q => E[k] = D[k - 1])

LEMMA NamesTold ==
    ASSUME NEW w, IsSeq(w), NEW s, IsSeq(s), NEW t, IsSeq(t), NEW x
    PROVE  Longer(NamesIn(w, s, t), NamesIn(w, s, Append(t, x)), Len(w) + Len(s) + Len(t), Told(x))
<1>1. Len(w) \in Nat /\ Len(s) \in Nat
  BY BufferIds
<1>2. PICK u : u = Append(t, x)
  OBVIOUS
<1>3. /\ Len(t) \in Nat /\ Len(u) = Len(t) + 1 /\ u[Len(t) + 1] = x
      /\ \A i \in 1 .. Len(t) : u[i] = t[i]
  BY <1>2, AppendElements
<1>4. PICK E, n : E = NamesIn(w, s, u) /\ n = Len(w) + Len(s) + Len(t)
  OBVIOUS
<1>5. n \in Nat /\ DOMAIN NamesIn(w, s, t) = 1 .. n /\ DOMAIN E = 1 .. n + 1
  BY <1>1, <1>3, <1>4 DEF NamesIn
<1>6. \A k \in 1 .. n : E[k] = NamesIn(w, s, t)[k]
  BY <1>1, <1>3, <1>4 DEF NamesIn
<1>7. E[n + 1] = Told(x)
  <2>1. n + 1 - Len(w) - Len(s) = Len(t) + 1
    BY <1>1, <1>3, <1>4
  <2>. QED
    BY <1>1, <1>3, <1>4, <1>5, <2>1 DEF NamesIn
<1>. QED
  BY <1>2, <1>4, <1>5, <1>6, <1>7 DEF Longer

LEMMA NamesHandled ==
    ASSUME NEW w, IsSeq(w), w # <<>>, NEW s, IsSeq(s), NEW t, IsSeq(t)
    PROVE  Shorter(NamesIn(w, s, t), NamesIn(Tail(w), s, t), Len(w) + Len(s) + Len(t),
                   Owed(Head(w)))
<1>1. Len(t) \in Nat /\ Len(s) \in Nat
  BY BufferIds
<1>2. PICK v, S : v = Tail(w) /\ S = Range(w)
  OBVIOUS
<1>3. w \in Seq(S)
  BY <1>2, SeqOver
<1>4. /\ Len(w) \in Nat /\ Len(v) = Len(w) - 1 /\ Len(w) > 0 /\ w[1] = Head(w)
      /\ \A i \in 1 .. Len(w) - 1 : v[i] = w[i + 1]
  BY <1>2, <1>3
<1>5. PICK E, n : E = NamesIn(v, s, t) /\ n = Len(w) + Len(s) + Len(t)
  OBVIOUS
<1>6. n \in Nat /\ n > 0 /\ DOMAIN NamesIn(w, s, t) = 1 .. n /\ DOMAIN E = 1 .. n - 1
  BY <1>1, <1>4, <1>5 DEF NamesIn
<1>7. \A k \in 1 .. n - 1 : E[k] = NamesIn(w, s, t)[k + 1]
  <2>. SUFFICES ASSUME NEW k \in 1 .. n - 1 PROVE E[k] = NamesIn(w, s, t)[k + 1]
    OBVIOUS
  <2>1. k + 1 \in 1 .. n
    BY <1>6
  <2>2. CASE k <= Len(v)
    BY <1>1, <1>4, <1>5, <1>6, <2>1, <2>2 DEF NamesIn
  <2>3. CASE Len(v) < k /\ k <= Len(v) + Len(s)
    <3>1. k - Len(v) = (k + 1) - Len(w) /\ ~ (k + 1 <= Len(w)) /\ k + 1 <= Len(w) + Len(s)
      BY <1>1, <1>4, <2>3
    <3>. QED
      BY <1>1, <1>4, <1>5, <1>6, <2>1, <2>3, <3>1 DEF NamesIn
  <2>4. CASE Len(v) + Len(s) < k
    <3>1. /\ k - Len(v) - Len(s) = (k + 1) - Len(w) - Len(s)
          /\ ~ (k + 1 <= Len(w)) /\ ~ (k + 1 <= Len(w) + Len(s))
          /\ ~ (k <= Len(v)) /\ ~ (k <= Len(v) + Len(s))
      BY <1>1, <1>4, <2>4
    <3>. QED
      BY <1>1, <1>4, <1>5, <1>6, <2>1, <2>4, <3>1 DEF NamesIn
  <2>. QED
    BY <1>1, <1>4, <2>2, <2>3, <2>4
<1>8. NamesIn(w, s, t)[1] = Owed(Head(w))
  BY <1>1, <1>4, <1>5, <1>6 DEF NamesIn
<1>. QED
  BY <1>2, <1>5, <1>6, <1>7, <1>8 DEF Shorter

Spans(D, n) == D = [k \in 1 .. n |-> D[k]]
Placed(D, w, s, t) ==
    /\ Len(w) \in Nat /\ Len(s) \in Nat /\ Len(t) \in Nat
    /\ Spans(D, Len(w) + Len(s) + Len(t))
    /\ \A i \in 1 .. Len(w) : D[i] = Owed(w[i])
    /\ \A i \in 1 .. Len(s) : D[Len(w) + i] = Owed(s[i])
    /\ \A i \in 1 .. Len(t) : D[Len(w) + Len(s) + i] = Told(t[i])

LEMMA NamesPlaced ==
    ASSUME NEW w, IsSeq(w), NEW s, IsSeq(s), NEW t, IsSeq(t)
    PROVE  Placed(NamesIn(w, s, t), w, s, t)
<1>1. Len(w) \in Nat /\ Len(s) \in Nat /\ Len(t) \in Nat
  BY BufferIds
<1>2. PICK D, n : D = NamesIn(w, s, t) /\ n = Len(w) + Len(s) + Len(t)
  OBVIOUS
<1>3. Spans(D, n)
  BY <1>2 DEF NamesIn, Spans
<1>4. \A i \in 1 .. Len(w) : D[i] = Owed(w[i])
  BY <1>1, <1>2 DEF NamesIn
<1>5. \A i \in 1 .. Len(s) : D[Len(w) + i] = Owed(s[i])
  <2>. SUFFICES ASSUME NEW i \in 1 .. Len(s) PROVE D[Len(w) + i] = Owed(s[i])
    OBVIOUS
  <2>1. PICK k : k = Len(w) + i
    OBVIOUS
  <2>2. k \in 1 .. n /\ ~ (k <= Len(w)) /\ k <= Len(w) + Len(s) /\ k - Len(w) = i
    BY <1>1, <1>2, <2>1
  <2>3. D[k] = Owed(s[k - Len(w)])
    BY <1>2, <2>2 DEF NamesIn
  <2>. QED
    BY <2>1, <2>2, <2>3
<1>6. \A i \in 1 .. Len(t) : D[Len(w) + Len(s) + i] = Told(t[i])
  <2>. SUFFICES ASSUME NEW i \in 1 .. Len(t) PROVE D[Len(w) + Len(s) + i] = Told(t[i])
    OBVIOUS
  <2>1. PICK k : k = Len(w) + Len(s) + i
    OBVIOUS
  <2>2. /\ k \in 1 .. n /\ ~ (k <= Len(w)) /\ ~ (k <= Len(w) + Len(s))
        /\ k - Len(w) - Len(s) = i
    BY <1>1, <1>2, <2>1
  <2>3. D[k] = Told(t[k - Len(w) - Len(s)])
    BY <1>2, <2>2 DEF NamesIn
  <2>. QED
    BY <2>1, <2>2, <2>3
<1>. QED
  BY <1>1, <1>2, <1>3, <1>4, <1>5, <1>6 DEF Placed

LEMMA NamesRead ==
    ASSUME NEW w, IsSeq(w), NEW s, IsSeq(s), NEW t, IsSeq(t), NEW n \in 1 .. Len(s)
    PROVE  NamesIn(w \o SubSeq(s, 1, n), SubSeq(s, n + 1, Len(s)), t) = NamesIn(w, s, t)
<1>1. PICK S : S = Range(w) \cup Range(s)
  OBVIOUS
<1>2. w \in Seq(S) /\ s \in Seq(S)
  BY <1>1, SeqOver
<1>3. PICK a, b, v : a = SubSeq(s, 1, n) /\ b = SubSeq(s, n + 1, Len(s)) /\ v = w \o a
  OBVIOUS
<1>4. PICK W, N, T : W = Len(w) /\ N = Len(s) /\ T = Len(t)
  OBVIOUS
<1>5. W \in Nat /\ N \in Nat /\ T \in Nat /\ n \in 1 .. N /\ n \in Nat
  BY <1>2, <1>4, BufferIds
<1>6. /\ a \in Seq(S) /\ b \in Seq(S) /\ Len(a) = n /\ Len(b) = N - n
      /\ \A i \in 1 .. n : a[i] = s[i]
      /\ \A i \in 1 .. N - n : b[i] = s[n + i]
  <2>1. a \in Seq(S) /\ Len(a) = n /\ \A i \in 1 .. n : a[i] = s[i]
    BY <1>2, <1>3, <1>4, <1>5
  <2>2. b \in Seq(S) /\ Len(b) = N - n /\ \A i \in 1 .. N - n : b[i] = s[n + i]
    BY <1>2, <1>3, <1>4, <1>5
  <2>. QED
    BY <2>1, <2>2
<1>7. v \in Seq(S) /\ Len(v) = W + n /\ \A i \in 1 .. W : v[i] = w[i]
  BY <1>2, <1>3, <1>4, <1>5, <1>6
<1>8. \A i \in 1 .. n : v[W + i] = s[i]
  <2>. SUFFICES ASSUME NEW i \in 1 .. n PROVE v[W + i] = s[i]
    OBVIOUS
  <2>1. PICK k : k = W + i
    OBVIOUS
  <2>2. k \in 1 .. W + n /\ k > W /\ k - W = i
    BY <1>5, <2>1
  <2>3. v[k] = a[k - W]
    BY <1>2, <1>3, <1>4, <1>5, <1>6, <2>2
  <2>. QED
    BY <1>6, <2>1, <2>2, <2>3
<1>9. PICK D, E, l : D = NamesIn(w, s, t) /\ E = NamesIn(v, b, t) /\ l = W + N + T
  OBVIOUS
<1>10. Placed(D, w, s, t) /\ Placed(E, v, b, t)
  BY <1>6, <1>7, <1>9, NamesPlaced, SeqOfElements
<1>11. /\ Spans(D, l)
       /\ \A i \in 1 .. W : D[i] = Owed(w[i])
       /\ \A i \in 1 .. N : D[W + i] = Owed(s[i])
       /\ \A i \in 1 .. T : D[W + N + i] = Told(t[i])
  BY <1>4, <1>9, <1>10, Zenon DEF Placed
<1>12. /\ Spans(E, l)
       /\ \A i \in 1 .. W + n : E[i] = Owed(v[i])
       /\ \A i \in 1 .. N - n : E[W + n + i] = Owed(b[i])
       /\ \A i \in 1 .. T : E[W + N + i] = Told(t[i])
  <2>1. /\ Spans(E, Len(v) + Len(b) + Len(t))
        /\ \A i \in 1 .. Len(v) : E[i] = Owed(v[i])
        /\ \A i \in 1 .. Len(b) : E[Len(v) + i] = Owed(b[i])
        /\ \A i \in 1 .. Len(t) : E[Len(v) + Len(b) + i] = Told(t[i])
    BY <1>10, Zenon DEF Placed
  <2>2. Len(v) = W + n /\ Len(b) = N - n /\ Len(t) = T /\ Len(v) + Len(b) = W + N
    BY <1>4, <1>5, <1>6, <1>7
  <2>. QED
    BY <1>9, <2>1, <2>2, Zenon
<1>13. ASSUME NEW k \in 1 .. l PROVE E[k] = D[k]
  <2>0. k \in Nat /\ l \in Nat /\ k > 0 /\ k <= W + N + T
    BY <1>5, <1>9
  <2>1. CASE k <= W
    <3>1. k \in 1 .. W + n /\ k \in 1 .. W
      BY <1>5, <2>0, <2>1
    <3>. QED
      BY <1>7, <1>11, <1>12, <3>1
  <2>2. CASE W < k /\ k <= W + n
    <3>1. PICK i : i = k - W
      OBVIOUS
    <3>2. i \in 1 .. n /\ i \in 1 .. N /\ k = W + i /\ k \in 1 .. W + n
      BY <1>5, <2>0, <2>2, <3>1
    <3>. QED
      BY <1>8, <1>11, <1>12, <3>2
  <2>3. CASE W + n < k /\ k <= W + N
    <3>1. PICK i, j : i = k - (W + n) /\ j = k - W
      OBVIOUS
    <3>2. i \in 1 .. N - n /\ k = W + n + i /\ j \in 1 .. N /\ k = W + j /\ j = n + i
      BY <1>5, <2>0, <2>3, <3>1
    <3>. QED
      BY <1>6, <1>11, <1>12, <3>2
  <2>4. CASE W + N < k
    <3>1. PICK i : i = k - (W + N)
      OBVIOUS
    <3>2. i \in 1 .. T /\ k = W + N + i
      BY <1>5, <2>0, <2>4, <3>1
    <3>. QED
      BY <1>11, <1>12, <3>2
  <2>. QED
    BY <1>5, <2>0, <2>1, <2>2, <2>3, <2>4
<1>14. E = D
  BY <1>11, <1>12, <1>13 DEF Spans
<1>. QED
  BY <1>3, <1>9, <1>14

LEMMA NamesAnswered ==
    ASSUME NEW w, IsSeq(w), NEW s, IsSeq(s), NEW t, IsSeq(t), t # <<>>, NEW x
    PROVE  Exchanged(NamesIn(w, s, t), NamesIn(w, Append(s, x), Tail(t)),
                     Len(w) + Len(s) + Len(t), Len(w) + Len(s) + 1, Told(Head(t)), Owed(x))
<1>1. PICK a, b, S : a = Append(s, x) /\ b = Tail(t) /\ S = Range(t)
  OBVIOUS
<1>2. PICK W, N, T : W = Len(w) /\ N = Len(s) /\ T = Len(t)
  OBVIOUS
<1>3. /\ IsSeq(a) /\ Len(a) = N + 1 /\ a[N + 1] = x /\ N \in Nat
      /\ \A i \in 1 .. N : a[i] = s[i]
  BY <1>1, <1>2, AppendElements
<1>4. t \in Seq(S)
  BY <1>1, SeqOver
<1>5. /\ b \in Seq(S) /\ T \in Nat /\ T > 0 /\ Len(b) = T - 1 /\ t[1] = Head(t)
      /\ \A i \in 1 .. T - 1 : b[i] = t[i + 1]
  BY <1>1, <1>2, <1>4
<1>6. W \in Nat
  BY <1>2, BufferIds
<1>7. PICK D, E, n, q : /\ D = NamesIn(w, s, t) /\ E = NamesIn(w, a, b)
                        /\ n = W + N + T /\ q = W + N + 1
  OBVIOUS
<1>8. Placed(D, w, s, t) /\ Placed(E, w, a, b)
  BY <1>3, <1>5, <1>7, NamesPlaced, SeqOfElements
<1>9. /\ Spans(D, n)
      /\ \A i \in 1 .. W : D[i] = Owed(w[i])
      /\ \A i \in 1 .. N : D[W + i] = Owed(s[i])
      /\ \A i \in 1 .. T : D[W + N + i] = Told(t[i])
  BY <1>2, <1>7, <1>8, Zenon DEF Placed
<1>10. /\ Spans(E, n)
       /\ \A i \in 1 .. W : E[i] = Owed(w[i])
       /\ \A i \in 1 .. N + 1 : E[W + i] = Owed(a[i])
       /\ \A i \in 1 .. T - 1 : E[q + i] = Told(b[i])
  <2>1. /\ Spans(E, Len(w) + Len(a) + Len(b))
        /\ \A i \in 1 .. Len(w) : E[i] = Owed(w[i])
        /\ \A i \in 1 .. Len(a) : E[Len(w) + i] = Owed(a[i])
        /\ \A i \in 1 .. Len(b) : E[Len(w) + Len(a) + i] = Told(b[i])
    BY <1>8, Zenon DEF Placed
  <2>2. /\ Len(w) = W /\ Len(a) = N + 1 /\ Len(b) = T - 1
        /\ Len(w) + Len(a) = q /\ Len(w) + Len(a) + Len(b) = n
    BY <1>2, <1>3, <1>5, <1>6, <1>7
  <2>. QED
    BY <2>1, <2>2, Zenon
<1>11. n \in Nat /\ q \in 1 .. n
  BY <1>3, <1>5, <1>6, <1>7
<1>12. DOMAIN D = 1 .. n /\ DOMAIN E = 1 .. n
  BY <1>9, <1>10 DEF Spans
<1>13. E[q] = Owed(x)
  <2>1. N + 1 \in 1 .. N + 1 /\ W + (N + 1) = q
    BY <1>3, <1>6, <1>7
  <2>2. E[W + (N + 1)] = Owed(a[N + 1])
    BY <1>10, <2>1, Zenon
  <2>. QED
    BY <1>3, <2>1, <2>2, Zenon
<1>14. D[q] = Told(Head(t))
  <2>1. 1 \in 1 .. T
    BY <1>5
  <2>. QED
    BY <1>5, <1>7, <1>9, <2>1
<1>15. ASSUME NEW k \in 1 .. n, k # q PROVE E[k] = D[k]
  <2>0. k \in Nat /\ k > 0 /\ k <= W + N + T
    BY <1>3, <1>5, <1>6, <1>7
  <2>1. CASE k <= W
    <3>1. k \in 1 .. W
      BY <1>6, <2>0, <2>1
    <3>. QED
      BY <1>9, <1>10, <3>1
  <2>2. CASE W < k /\ k <= W + N
    <3>1. PICK i : i = k - W
      OBVIOUS
    <3>2. i \in 1 .. N /\ i \in 1 .. N + 1 /\ k = W + i
      BY <1>3, <1>6, <2>0, <2>2, <3>1
    <3>. QED
      BY <1>3, <1>9, <1>10, <3>2
  <2>3. CASE q < k
    <3>1. PICK i, j : i = k - q /\ j = k - (W + N)
      OBVIOUS
    <3>2. i \in 1 .. T - 1 /\ k = q + i /\ j \in 1 .. T /\ k = W + N + j /\ j = i + 1
      BY <1>3, <1>5, <1>6, <1>7, <2>0, <2>3, <3>1
    <3>. QED
      BY <1>5, <1>9, <1>10, <3>2
  <2>. QED
    BY <1>3, <1>6, <1>7, <1>15, <2>0, <2>1, <2>2, <2>3
<1>. QED
  BY <1>1, <1>2, <1>7, <1>11, <1>12, <1>13, <1>14, <1>15 DEF Exchanged

LEMMA NamesRequested ==
    ASSUME NEW w, IsSeq(w), NEW s, IsSeq(s), NEW t, IsSeq(t), NEW x
    PROVE  Inserted(NamesIn(w, s, t), NamesIn(w, Append(s, x), t),
                    Len(w) + Len(s) + Len(t), Len(w) + Len(s) + 1, Owed(x))
<1>1. PICK a : a = Append(s, x)
  OBVIOUS
<1>2. PICK W, N, T : W = Len(w) /\ N = Len(s) /\ T = Len(t)
  OBVIOUS
<1>3. /\ IsSeq(a) /\ Len(a) = N + 1 /\ a[N + 1] = x /\ N \in Nat
      /\ \A i \in 1 .. N : a[i] = s[i]
  BY <1>1, <1>2, AppendElements
<1>4. W \in Nat /\ T \in Nat
  BY <1>2, BufferIds
<1>5. PICK D, E, n, q : /\ D = NamesIn(w, s, t) /\ E = NamesIn(w, a, t)
                        /\ n = W + N + T /\ q = W + N + 1
  OBVIOUS
<1>6. Placed(D, w, s, t) /\ Placed(E, w, a, t)
  BY <1>3, <1>5, NamesPlaced
<1>7. /\ Spans(D, n)
      /\ \A i \in 1 .. W : D[i] = Owed(w[i])
      /\ \A i \in 1 .. N : D[W + i] = Owed(s[i])
      /\ \A i \in 1 .. T : D[W + N + i] = Told(t[i])
  BY <1>2, <1>5, <1>6, Zenon DEF Placed
<1>8. /\ Spans(E, n + 1)
      /\ \A i \in 1 .. W : E[i] = Owed(w[i])
      /\ \A i \in 1 .. N + 1 : E[W + i] = Owed(a[i])
      /\ \A i \in 1 .. T : E[q + i] = Told(t[i])
  <2>1. /\ Spans(E, Len(w) + Len(a) + Len(t))
        /\ \A i \in 1 .. Len(w) : E[i] = Owed(w[i])
        /\ \A i \in 1 .. Len(a) : E[Len(w) + i] = Owed(a[i])
        /\ \A i \in 1 .. Len(t) : E[Len(w) + Len(a) + i] = Told(t[i])
    BY <1>6, Zenon DEF Placed
  <2>2. /\ Len(w) = W /\ Len(a) = N + 1 /\ Len(t) = T
        /\ Len(w) + Len(a) = q /\ Len(w) + Len(a) + Len(t) = n + 1
    BY <1>2, <1>3, <1>4, <1>5
  <2>. QED
    BY <2>1, <2>2, Zenon
<1>9. n \in Nat /\ q \in 1 .. n + 1
  BY <1>3, <1>4, <1>5
<1>10. DOMAIN D = 1 .. n /\ DOMAIN E = 1 .. n + 1
  BY <1>7, <1>8 DEF Spans
<1>11. E[q] = Owed(x)
  <2>1. N + 1 \in 1 .. N + 1 /\ W + (N + 1) = q
    BY <1>3, <1>4, <1>5
  <2>2. E[W + (N + 1)] = Owed(a[N + 1])
    BY <1>8, <2>1, Zenon
  <2>. QED
    BY <1>3, <2>1, <2>2, Zenon
<1>12. ASSUME NEW k \in 1 .. n + 1, k < q PROVE E[k] = D[k]
  <2>0. k \in Nat /\ k > 0 /\ k <= W + N
    BY <1>3, <1>4, <1>5, <1>12
  <2>1. CASE k <= W
    <3>1. k \in 1 .. W
      BY <1>4, <2>0, <2>1
    <3>. QED
      BY <1>7, <1>8, <3>1
  <2>2. CASE W < k
    <3>1. PICK i : i = k - W
      OBVIOUS
    <3>2. i \in 1 .. N /\ i \in 1 .. N + 1 /\ k = W + i
      BY <1>3, <1>4, <2>0, <2>2, <3>1
    <3>. QED
      BY <1>3, <1>7, <1>8, <3>2
  <2>. QED
    BY <1>4, <2>0, <2>1, <2>2
<1>13. ASSUME NEW k \in 1 .. n + 1, k > q PROVE E[k] = D[k - 1]
  <2>1. PICK i, j : i = k - q /\ j = k - 1
    OBVIOUS
  <2>2. i \in 1 .. T /\ k = q + i /\ j = W + N + i
    BY <1>3, <1>4, <1>5, <1>13, <2>1
  <2>. QED
    BY <1>7, <1>8, <2>1, <2>2
<1>. QED
  BY <1>1, <1>2, <1>5, <1>9, <1>10, <1>11, <1>12, <1>13 DEF Inserted

-----------------------------------------------------------------------------
(* What a step sends: packets, and a packet_in for one that it keeps.      *)

LEMMA KeptSlot ==
    ASSUME IsSeq(buffer), NEW r, NEW p, r.ctl # <<>>, NEW b, b = Kept(r, p),
           NEW n, n = buffer_id(buffer), NEW s, s = [pkt |-> r.pkt, in_port |-> p]
    PROVE  n \in DOMAIN b /\ n \in Nat \ {0} /\ b[n] = s
<1>1. b = IF SlotFor(buffer) = 0 THEN Append(buffer, s) ELSE [buffer EXCEPT ![n] = s]
  BY DEF Kept, buffer_packet, buffer_id
<1>2. n = IF SlotFor(buffer) = 0 THEN Len(buffer) + 1 ELSE SlotFor(buffer)
  BY DEF buffer_id
<1>3. CASE SlotFor(buffer) = 0
  <2>1. /\ Len(buffer) \in Nat /\ DOMAIN b = 1 .. Len(buffer) + 1 /\ b[Len(buffer) + 1] = s
    BY <1>1, <1>3, AppendElements
  <2>. QED
    BY <1>2, <1>3, <2>1
<1>4. CASE SlotFor(buffer) # 0
  <2>1. n \in DOMAIN buffer /\ n \in Nat \ {0}
    BY <1>2, <1>4, SlotFound, BufferIds
  <2>2. b = [buffer EXCEPT ![n] = s]
    BY <1>1, <1>4
  <2>. QED
    BY <2>1, <2>2, Zenon
<1>. QED
  BY <1>3, <1>4

LEMMA PacketInSent ==
    ASSUME CtlOK, NEW r, NEW p, NEW a, Emit(r, p, a), r.ctl # <<>>,
           NEW R \in Conns, R = Receiver(a),
           NEW x, x = [id |-> buffer_id(buffer), pkt |-> r.ctl[1], in_port |-> p]
    PROVE  toCtl'[R] = Append(toCtl[R], x)
<1>1. R # None
  BY SwitchAssumption DEF None
<1>2. toCtl' = [toCtl EXCEPT ![R] = Append(@, x)]
  BY <1>1 DEF Emit, send_packet_in
<1>. QED
  BY <1>2 DEF CtlOK

IsSlot(s) == s = [pkt |-> s.pkt, in_port |-> s.in_port]
Aimed(m) ==
    /\ AimsWell(m.actions, m.pkt.dst)
    /\ m.type = "packet_out" => /\ LeavesHosts(m.actions)
                                /\ m.buffer_id = 0 => Genuine(m.pkt, 0)

\* Every list of actions on its way, or in the table, may be applied to the packets
\* that it will meet; every packet that is kept, or that a controller will learn
\* from, is from where it says it is.
MessagesAim ==
    \A c \in Conns : \A m \in Range(waiting[c]) \cup Range(toSwitch[c]) : Aimed(m)
CtlGenuine ==
    \A c \in Conns : \A x \in Range(toCtl[c]) : x.id # 0 /\ Genuine(x.pkt, x.in_port)
BufferGenuine ==
    \A i \in DOMAIN buffer : buffer[i] # Free =>
      IsSlot(buffer[i]) /\ Genuine(buffer[i].pkt, buffer[i].in_port)
KnownSeen ==
    /\ DOMAIN macToPort = Conns
    /\ \A c \in Conns : \A h \in DOMAIN macToPort[c] : h # Wild /\ Learned(h, macToPort[c][h])
SeenInv ==
    /\ TableAims /\ MessagesAim /\ CtlGenuine /\ BufferGenuine /\ KnownSeen
    /\ at \in [Hosts -> Ports]
    /\ Apart(Due) /\ Held(Due, buffer)

\* At most one packet_in is sent, to R, for a packet that is kept in a free slot;
\* otherwise only the slot id changes.
Passed(R, id) ==
    /\ IsSeq(buffer') /\ DOMAIN buffer \subseteq DOMAIN buffer'
    /\ \A d \in Conns \ {R} : toCtl'[d] = toCtl[d]
    /\ \/ toCtl' = toCtl
       \/ \E x : /\ R \in Conns => toCtl'[R] = Append(toCtl[R], x)
                 /\ Names(Told(x), buffer') /\ x.id # 0 /\ Genuine(x.pkt, x.in_port)'
                 /\ x.id \in DOMAIN buffer => buffer[x.id] = Free
    /\ \A i \in DOMAIN buffer : buffer[i] # Free /\ i # id => buffer'[i] = buffer[i]
    /\ \A i \in DOMAIN buffer' : buffer'[i] # Free =>
         \/ i \in DOMAIN buffer /\ buffer'[i] = buffer[i]
         \/ IsSlot(buffer[i])' /\ Genuine(buffer[i].pkt, buffer[i].in_port)'
    /\ SentWhereSeen'

LEMMA LearnedStays ==
    ASSUME seen \subseteq seen'
    PROVE  /\ \A h, p : Learned(h, p) => Learned(h, p)'
           /\ \A k, p : Genuine(k, p) => Genuine(k, p)'
           /\ \A acts, dst : AimsWell(acts, dst) => AimsWell(acts, dst)'
           /\ \A m : Aimed(m) => Aimed(m)'
<1>1. \A h, p : Learned(h, p) => Learned(h, p)'
  BY DEF Learned
<1>2. \A k, p : Genuine(k, p) => Genuine(k, p)'
  BY <1>1, Zenon DEF Genuine
<1>3. \A acts, dst : AimsWell(acts, dst) => AimsWell(acts, dst)'
  BY <1>1, Zenon DEF AimsWell
<1>4. \A m : Aimed(m) => Aimed(m)'
  BY <1>2, <1>3, Zenon DEF Aimed
<1>. QED
  BY <1>1, <1>2, <1>3, <1>4

\* A step that sends nothing.
LEMMA NothingSent == out' = <<>> => SentWhereSeen'
<1>. SUFFICES ASSUME out' = <<>> PROVE SentWhereSeen'
  OBVIOUS
<1>1. DOMAIN out' = {}
  OBVIOUS
<1>. QED
  BY <1>1, Zenon DEF SentWhereSeen

LEMMA NothingPassed ==
    ASSUME IsSeq(buffer), UNCHANGED <<buffer, toCtl>>, out' = <<>>, NEW R, NEW id
    PROVE  Passed(R, id)
BY NothingSent DEF Passed

\* Actions that may be applied to a packet send nothing else.  The packet was in
\* slot id, if it was in any.
LEMMA ActionsPassed ==
    ASSUME SwitchInv, seen \subseteq seen', NEW k, IsPacket(k), NEW p, Genuine(k, p)',
           NEW acts, AimsWell(acts, k.dst), NEW r, r = process_actions(acts, k, p),
           NEW a \in Conns \cup {None}, NEW R, R = Receiver(a), Emit(r, p, a),
           NEW b, b = Kept(r, p), NEW id, NEW y, y = Free \/ y = [pkt |-> r.pkt, in_port |-> p],
           \/ buffer' = b
           \/ id \in DOMAIN buffer /\ buffer[id] # Free /\ buffer' = [b EXCEPT ![id] = y]
    PROVE  Passed(R, id)
<1>1. Went(r, k)
  BY Delivered
<1>2. Genuine(r.pkt, p)'
  BY <1>1 DEF Went, Genuine, Learned
<1>3. PICK s : s = [pkt |-> r.pkt, in_port |-> p]
  OBVIOUS
<1>4. /\ IsSlot(s) /\ s.pkt = r.pkt /\ s.in_port = p /\ s # Free
      /\ Genuine(s.pkt, s.in_port)'
  <2>1. IsSlot(s) /\ s.pkt = r.pkt /\ s.in_port = p
    BY <1>3 DEF IsSlot
  <2>2. s # Free
    <3>. SUFFICES ASSUME s = Free PROVE FALSE
      OBVIOUS
    <3>1. p = 0 /\ r.pkt = Free.pkt
      BY <2>1 DEF Free
    <3>. QED
      BY <1>2, <3>1 DEF Genuine
  <2>. QED
    BY <1>2, <2>1, <2>2
<1>5. PICK n : n = buffer_id(buffer)
  OBVIOUS
<1>6. /\ IsSeq(buffer) /\ IsSeq(b) /\ DOMAIN buffer \subseteq DOMAIN b
      /\ r.ctl = <<>> => b = buffer
      /\ \A i \in DOMAIN b : \/ i \in DOMAIN buffer /\ b[i] = buffer[i]
                             \/ r.ctl # <<>> /\ i = n
      /\ n \in DOMAIN buffer => buffer[n] = Free
  BY <1>5, KeptBuffer DEF SwitchInv
<1>7. r.ctl # <<>> => n \in DOMAIN b /\ n \in Nat \ {0} /\ b[n] = s
  BY <1>3, <1>5, <1>6, KeptSlot
<1>8. /\ IsSeq(buffer') /\ DOMAIN buffer' = DOMAIN b
      /\ \A i \in DOMAIN b : \/ buffer'[i] = b[i]
                             \/ i = id /\ id \in DOMAIN buffer /\ buffer[id] # Free /\ buffer'[i] = y
  <2>1. CASE buffer' = b
    BY <1>6, <2>1
  <2>2. CASE id \in DOMAIN buffer /\ buffer[id] # Free /\ buffer' = [b EXCEPT ![id] = y]
    <3>1. IsSeq(buffer')
      BY <1>6, <2>2, Rewritten
    <3>2. DOMAIN buffer' = DOMAIN b /\ id \in DOMAIN b
      BY <1>6, <2>2
    <3>3. \A i \in DOMAIN b : buffer'[i] = IF i = id THEN y ELSE b[i]
      BY <2>2, Zenon
    <3>. QED
      BY <2>2, <3>1, <3>2, <3>3
  <2>. QED
    BY <2>1, <2>2
<1>9. \A i \in DOMAIN buffer : buffer[i] # Free /\ i # id => buffer'[i] = buffer[i]
  BY <1>6, <1>8
<1>10. ASSUME NEW i \in DOMAIN buffer', buffer'[i] # Free
       PROVE  \/ i \in DOMAIN buffer /\ buffer'[i] = buffer[i]
              \/ IsSlot(buffer[i])' /\ Genuine(buffer[i].pkt, buffer[i].in_port)'
  <2>1. \/ i \in DOMAIN buffer /\ buffer'[i] = buffer[i]
        \/ buffer'[i] = s
    BY <1>3, <1>6, <1>7, <1>8, <1>10
  <2>. QED
    BY <1>4, <2>1, Zenon
<1>11. SentWhereSeen'
  <2>1. \A i \in DOMAIN r.outs : Learned(r.outs[i].pkt.dst, r.outs[i].port)'
    BY <1>1, LearnedStays DEF Went
  <2>2. out' = r.outs
    BY DEF Emit
  <2>. QED
    BY <2>1, <2>2 DEF SentWhereSeen, Learned
<1>12. \A d \in Conns \ {R} : toCtl'[d] = toCtl[d]
  BY Emitted DEF SwitchInv
<1>13. \/ toCtl' = toCtl
       \/ \E x : /\ R \in Conns => toCtl'[R] = Append(toCtl[R], x)
                 /\ Names(Told(x), buffer') /\ x.id # 0 /\ Genuine(x.pkt, x.in_port)'
                 /\ x.id \in DOMAIN buffer => buffer[x.id] = Free
  <2>1. CASE r.ctl = <<>>
    BY <2>1 DEF Emit
  <2>2. CASE r.ctl # <<>>
    <3>1. PICK x : x = [id |-> n, pkt |-> r.ctl[1], in_port |-> p]
      OBVIOUS
    <3>2. x.id = n /\ x.pkt = r.ctl[1] /\ x.in_port = p
      BY <3>1
    <3>3. R \in Conns => toCtl'[R] = Append(toCtl[R], x)
      BY <1>5, <2>2, <3>1, PacketInSent DEF SwitchInv
    <3>4. Genuine(x.pkt, x.in_port)'
      BY <1>1, <1>2, <2>2, <3>2 DEF Went, Genuine, Learned
    <3>5. buffer'[n] = s /\ n \in DOMAIN buffer'
      BY <1>6, <1>7, <1>8, <2>2
    <3>6. r.ctl[1].dst = s.pkt.dst
      BY <1>1, <1>4, <2>2 DEF Went
    <3>7. Names(Told(x), buffer')
      BY <1>4, <3>2, <3>5, <3>6 DEF Names, Told
    <3>8. x.id # 0 /\ (x.id \in DOMAIN buffer => buffer[x.id] = Free)
      BY <1>6, <1>7, <2>2, <3>2
    <3>. QED
      BY <3>3, <3>4, <3>7, <3>8, Zenon
  <2>. QED
    BY <2>1, <2>2
<1>. QED
  BY <1>6, <1>8, <1>9, <1>10, <1>11, <1>12, <1>13 DEF Passed

LEMMA FromBufferPassed ==
    ASSUME SwitchInv, BufferGenuine, seen \subseteq seen', NEW c \in Conns, NEW m, NEW id,
           FromBuffer(c, m, id),
           id \in DOMAIN buffer /\ buffer[id] # Free => AimsWell(m.actions, buffer[id].pkt.dst)
    PROVE  Passed(c, id)
<1>0. DOMAIN buffer = 1 .. Len(buffer) /\ IsSeq(buffer)
  BY BufferIds DEF SwitchInv
<1>1. CASE id \notin DOMAIN buffer \/ buffer[id] = Free
  <2>1. UNCHANGED <<buffer, toCtl>> /\ out' = <<>>
    BY <1>0, <1>1 DEF FromBuffer
  <2>. QED
    BY <1>0, <2>1, NothingPassed
<1>2. CASE id \in DOMAIN buffer /\ buffer[id] # Free
  <2>1. PICK s, r : s = buffer[id] /\ r = process_actions(m.actions, s.pkt, s.in_port)
    OBVIOUS
  <2>2. PICK b, y : /\ b = Kept(r, s.in_port)
                    /\ y = IF r.raised THEN [s EXCEPT !.pkt = r.pkt] ELSE Free
    OBVIOUS
  <2>3. Emit(r, s.in_port, c) /\ buffer' = [b EXCEPT ![id] = y]
    BY <1>0, <1>2, <2>1, <2>2 DEF FromBuffer
  <2>4. IsSlot(s) /\ Genuine(s.pkt, s.in_port) /\ AimsWell(m.actions, s.pkt.dst)
    BY <1>2, <2>1, Zenon DEF BufferGenuine
  <2>5. PICK k, p : s = [pkt |-> k, in_port |-> p] /\ k = s.pkt /\ p = s.in_port
    BY <2>4, Zenon DEF IsSlot
  <2>6. y = Free \/ y = [pkt |-> r.pkt, in_port |-> p]
    BY <2>2, <2>5
  <2>7. IsPacket(k) /\ Genuine(k, p)'
    <3>1. Genuine(k, p)
      BY <2>4, <2>5, Zenon
    <3>2. Genuine(k, p)'
      BY <3>1, LearnedStays
    <3>. QED
      BY <3>1, <3>2 DEF Genuine
  <2>8. c = Receiver(c)
    BY SwitchAssumption, ReceiverFound DEF SwitchInv, None
  <2>9. /\ r = process_actions(m.actions, k, p) /\ b = Kept(r, p) /\ Emit(r, p, c)
        /\ AimsWell(m.actions, k.dst)
    BY <2>1, <2>2, <2>3, <2>4, <2>5, Zenon
  <2>. QED
    BY <1>2, <2>3, <2>6, <2>7, <2>8, <2>9, ActionsPassed
<1>. QED
  BY <1>1, <1>2

\* What handling a message sends.
LEMMA HandlePassed ==
    ASSUME SwitchInv, SeenInv, NEW c \in Conns, Handle(c), NEW m, m = Head(waiting[c])
    PROVE  Passed(c, m.buffer_id) /\ TableAims'
<1>0. /\ seen' = seen /\ IsSeq(waiting[c]) /\ waiting[c] # <<>> /\ IsSeq(buffer)
      /\ \A e \in Range(table) : AimsWell(e.actions, e.match.dl_dst)'
  <2>1. seen' = seen
    BY DEF Handle
  <2>2. IsSeq(waiting[c]) /\ waiting[c] # <<>> /\ IsSeq(buffer)
    BY DEF Handle, SwitchInv, WaitingOK
  <2>. QED
    BY <2>1, <2>2, LearnedStays, Zenon DEF SeenInv, TableAims
<1>1. m \in Range(waiting[c]) /\ Sendable(m)
  BY <1>0, TailElements DEF SwitchInv, WaitingOK
<1>2. Aimed(m)
  BY <1>1 DEF SeenInv, MessagesAim
<1>3. PICK id \in Nat : id = m.buffer_id
  BY <1>1 DEF Sendable
<1>4. id \in DOMAIN buffer /\ buffer[id] # Free /\ m.type = "flow_mod" =>
        m.pkt.dst = buffer[id].pkt.dst
  <2>. SUFFICES ASSUME id \in DOMAIN buffer, buffer[id] # Free, m.type = "flow_mod"
                PROVE  m.pkt.dst = buffer[id].pkt.dst
    OBVIOUS
  <2>1. id # 0
    BY BufferIds DEF SwitchInv
  <2>2. PICK D, x : D = Due /\ x = Owed(m)
    OBVIOUS
  <2>3. 1 \in DOMAIN D[c] /\ D[c][1] = x
    <3>1. PICK w, s, t : w = waiting[c] /\ s = toSwitch[c] /\ t = toCtl[c]
      OBVIOUS
    <3>2. IsSeq(w) /\ w # <<>> /\ IsSeq(s) /\ IsSeq(t)
      BY <1>0, <3>1 DEF SwitchInv, SentOK, CtlOK
    <3>3. PICK F, n : F = NamesIn(w, s, t) /\ n = Len(w) + Len(s) + Len(t)
      OBVIOUS
    <3>4. n \in Nat /\ n > 0 /\ DOMAIN F = 1 .. n /\ F[1] = Owed(Head(w))
      BY <3>2, <3>3, NamesHandled DEF Shorter
    <3>5. D[c] = F
      BY <2>2, <3>1, <3>3 DEF Due
    <3>. QED
      BY <2>2, <3>1, <3>4, <3>5
  <2>4. x.id = id /\ x.dst = m.pkt.dst /\ x.flow
    BY <1>3, <2>2 DEF Owed
  <2>5. Names(x, buffer)
    BY <2>1, <2>2, <2>3, <2>4 DEF SeenInv, Held
  <2>. QED
    BY <2>4, <2>5 DEF Names
<1>5. \/ table' = table /\ Passed(c, id)
      \/ receive_flow_mod(c, m)
  <2>1. CASE receive_packet_out(c, m)
    <3>1. table' = table /\ LeavesHosts(m.actions) /\ IsSeq(m.actions)
      BY <1>2, <2>1 DEF receive_packet_out, Aimed, AimsWell
    <3>2. \A dst : AimsWell(m.actions, dst)
      BY <3>1 DEF AimsWell
    <3>3. CASE id > 0
      <4>1. FromBuffer(c, m, id)
        BY <1>3, <2>1, <3>3 DEF receive_packet_out
      <4>2. Passed(c, id)
        BY <1>0, <3>2, <4>1, FromBufferPassed DEF SeenInv
      <4>. QED
        BY <3>1, <4>2
    <3>4. CASE id = 0
      <4>1. PICK r, k : r = process_actions(m.actions, k, 0) /\ k = m.pkt
        OBVIOUS
      <4>2. PICK b : b = Kept(r, 0)
        OBVIOUS
      <4>3. Emit(r, 0, c) /\ buffer' = b
        BY <1>3, <2>1, <3>4, <4>1, <4>2 DEF receive_packet_out
      <4>4. IsPacket(k) /\ Genuine(k, 0)'
        <5>1. Genuine(k, 0)
          BY <1>2, <1>3, <2>1, <3>4, <4>1 DEF Aimed, receive_packet_out
        <5>2. Genuine(k, 0)'
          BY <1>0, <5>1, LearnedStays
        <5>. QED
          BY <5>1, <5>2 DEF Genuine
      <4>5. c = Receiver(c)
        BY SwitchAssumption, ReceiverFound DEF SwitchInv, None
      <4>6. Passed(c, id)
        BY <1>0, <3>2, <4>1, <4>2, <4>3, <4>4, <4>5, ActionsPassed
      <4>. QED
        BY <3>1, <4>6
    <3>. QED
      BY <3>3, <3>4
  <2>2. CASE \/ NoHandler(c, m) \/ RefuseSlave(c, m)
             \/ receive_role_request(c, m) \/ receive_other(c, m)
    <3>1. UNCHANGED <<buffer, toCtl>> /\ out' = <<>> /\ table' = table
      BY <2>2 DEF NoHandler, RefuseSlave, receive_role_request, receive_other
    <3>. QED
      BY <1>0, <3>1, NothingPassed
  <2>. QED
    BY <2>1, <2>2 DEF Handle
<1>6. CASE table' = table /\ Passed(c, id)
  BY <1>0, <1>3, <1>6 DEF SeenInv, TableAims
<1>7. CASE receive_flow_mod(c, m)
  <2>1. Passed(c, id)
    <3>1. CASE id > 0
      <4>1. FromBuffer(c, m, id)
        BY <1>3, <1>7, <3>1 DEF receive_flow_mod
      <4>2. id \in DOMAIN buffer /\ buffer[id] # Free => AimsWell(m.actions, buffer[id].pkt.dst)
        BY <1>2, <1>4, <1>7 DEF receive_flow_mod, Aimed
      <4>. QED
        BY <1>0, <4>1, <4>2, FromBufferPassed DEF SeenInv
    <3>2. CASE id = 0
      <4>0. ~ (m.buffer_id > 0)
        BY <1>3, <3>2
      <4>1. UNCHANGED <<buffer, toCtl>> /\ out' = <<>>
        BY <1>7, <4>0 DEF receive_flow_mod
      <4>. QED
        BY <1>0, <4>1, NothingPassed
    <3>. QED
      BY <3>1, <3>2
  <2>2. PICK e : e = Entry(2^15, from_packet_any_port(Match(0, m.pkt.src, m.pkt.dst, AnyNw)), m.actions)
    OBVIOUS
  <2>3. IsSeq(table') /\ Range(table') \subseteq Range(table) \cup {e}
    BY <1>7, <2>2, EntryAdded DEF receive_flow_mod, SeenInv, TableAims
  <2>4. e.actions = m.actions /\ e.match.dl_dst = m.pkt.dst
    BY <2>2 DEF Entry, from_packet_any_port, Match
  <2>5. AimsWell(e.actions, e.match.dl_dst)'
    <3>1. AimsWell(e.actions, e.match.dl_dst)
      BY <1>2, <2>4 DEF Aimed
    <3>. QED
      BY <1>0, <3>1, LearnedStays
  <2>6. \A f \in Range(table') : AimsWell(f.actions, f.match.dl_dst)'
    BY <1>0, <2>3, <2>5
  <2>. QED
    BY <1>3, <2>1, <2>3, <2>6 DEF TableAims
<1>. QED
  BY <1>5, <1>6, <1>7

-----------------------------------------------------------------------------
(* Names through a step.                                                   *)

Unnamed(D, id) == \A c \in Conns : \A k \in DOMAIN D[c] : D[c][k].id = id => id = 0

\* A packet_in that is sent names its slot; the others keep theirs, if none named
\* the slot that changes.
LEMMA NamesPassed ==
    ASSUME CtlOK, NEW W, NEW S, \A c \in Conns : IsSeq(W[c]) /\ IsSeq(S[c]),
           NEW D, D = [c \in Conns |-> NamesIn(W[c], S[c], toCtl[c])],
           NEW E, E = [c \in Conns |-> NamesIn(W[c], S[c], toCtl'[c])],
           NEW b, b = buffer, NEW e, e = buffer', Apart(D), Held(D, b),
           NEW R, NEW id, Passed(R, id), Unnamed(D, id)
    PROVE  Apart(E) /\ Held(E, e)
<1>1. ASSUME NEW c \in Conns, NEW k \in DOMAIN D[c], D[c][k].id # 0
      PROVE  D[c][k].id \in DOMAIN e /\ e[D[c][k].id] = b[D[c][k].id]
  <2>1. PICK i : i = D[c][k].id
    OBVIOUS
  <2>2. Names(D[c][k], b)
    BY <1>1 DEF Held
  <2>3. i \in DOMAIN b /\ b[i] # Free /\ i # id
    BY <1>1, <2>1, <2>2 DEF Names, Unnamed
  <2>4. DOMAIN b \subseteq DOMAIN e /\ \A j \in DOMAIN b : b[j] # Free /\ j # id => e[j] = b[j]
    BY DEF Passed
  <2>. QED
    BY <2>1, <2>3, <2>4
<1>2. PICK o : o = [c \in Conns |-> [k \in DOMAIN E[c] |-> k]]
  OBVIOUS
<1>3. /\ \A c \in Conns : \A k \in DOMAIN E[c] : o[c][k] = k
      /\ \A c \in Conns : \A k, l \in DOMAIN E[c] : o[c][k] = o[c][l] => k = l
  <2>1. \A c \in Conns : \A k \in DOMAIN E[c] : o[c][k] = k
    BY <1>2
  <2>. QED
    BY <2>1
<1>4. ASSUME \A c \in Conns : toCtl'[c] = toCtl[c]
      PROVE  Apart(E) /\ Held(E, e)
  <2>1. E = D
    BY <1>4
  <2>2. None \notin Conns
    BY SwitchAssumption DEF None
  <2>3. Moves(D, b, E, e, o, None, 0)
    BY <1>1, <1>3, <2>1, <2>2 DEF Moves
  <2>. QED
    BY <2>3, NamesMove
<1>5. ASSUME R \in Conns, NEW x, toCtl'[R] = Append(toCtl[R], x), Names(Told(x), e),
             x.id \in DOMAIN b => b[x.id] = Free
      PROVE  Apart(E) /\ Held(E, e)
  <2>1. \A c \in Conns \ {R} : E[c] = D[c]
    BY DEF Passed
  <2>2. PICK w, s, t : w = W[R] /\ s = S[R] /\ t = toCtl[R]
    OBVIOUS
  <2>3. IsSeq(w) /\ IsSeq(s) /\ IsSeq(t)
    BY <1>5, <2>2 DEF CtlOK
  <2>4. PICK n : n = Len(w) + Len(s) + Len(t)
    OBVIOUS
  <2>5. D[R] = NamesIn(w, s, t) /\ E[R] = NamesIn(w, s, Append(t, x))
    BY <1>5, <2>2
  <2>6. /\ n \in Nat /\ DOMAIN D[R] = 1 .. n /\ DOMAIN E[R] = 1 .. n + 1
        /\ \A k \in 1 .. n : E[R][k] = D[R][k]
        /\ E[R][n + 1] = Told(x)
    <3>1. Longer(D[R], E[R], n, Told(x))
      BY <2>3, <2>4, <2>5, NamesTold
    <3>. QED
      BY <3>1 DEF Longer
  <2>7. PICK q : q = n + 1
    OBVIOUS
  <2>8. ASSUME NEW c \in Conns, NEW k \in DOMAIN E[c], E[c][k].id # 0
        PROVE  \/ /\ c = R /\ k = q /\ Names(E[c][k], e)
                  /\ E[c][k].id \in DOMAIN b => b[E[c][k].id] = Free
               \/ /\ ~ (c = R /\ k = q)
                  /\ o[c][k] \in DOMAIN D[c] /\ E[c][k].id = D[c][o[c][k]].id
                  /\ E[c][k].flow => D[c][o[c][k]].flow /\ E[c][k].dst = D[c][o[c][k]].dst
                  /\ E[c][k].id \in DOMAIN e /\ e[E[c][k].id] = b[E[c][k].id]
    <3>1. CASE c = R /\ k = q
      <4>1. Told(x).id = x.id
        BY DEF Told
      <4>. QED
        BY <1>5, <2>6, <2>7, <3>1, <4>1
    <3>2. CASE ~ (c = R /\ k = q)
      <4>1. k \in DOMAIN D[c] /\ E[c][k] = D[c][k]
        <5>1. CASE c = R
          <6>1. k \in 1 .. n
            BY <2>6, <2>7, <3>2, <5>1
          <6>. QED
            BY <2>6, <5>1, <6>1
        <5>2. CASE c # R
          BY <2>1, <5>2
        <5>. QED
          BY <5>1, <5>2
      <4>2. o[c][k] = k
        BY <1>3
      <4>3. k \in DOMAIN D[c] /\ D[c][k].id # 0
        BY <2>8, <4>1
      <4>4. D[c][k].id \in DOMAIN e /\ e[D[c][k].id] = b[D[c][k].id]
        BY <1>1, <4>3
      <4>. QED
        BY <3>2, <4>1, <4>2, <4>4
    <3>. QED
      BY <3>1, <3>2
  <2>9. Moves(D, b, E, e, o, R, q)
    BY <1>3, <2>8 DEF Moves
  <2>. QED
    BY <2>9, NamesMove
<1>6. \/ \A c \in Conns : toCtl'[c] = toCtl[c]
      \/ R \in Conns /\ \E x : /\ toCtl'[R] = Append(toCtl[R], x) /\ Names(Told(x), e)
                               /\ x.id \in DOMAIN b => b[x.id] = Free
  BY Zenon DEF Passed
<1>7. CASE R \in Conns /\ \E x : /\ toCtl'[R] = Append(toCtl[R], x) /\ Names(Told(x), e)
                                 /\ x.id \in DOMAIN b => b[x.id] = Free
  <2>1. PICK x : /\ toCtl'[R] = Append(toCtl[R], x) /\ Names(Told(x), e)
                 /\ x.id \in DOMAIN b => b[x.id] = Free
    BY <1>7, Zenon
  <2>2. toCtl'[R] = Append(toCtl[R], x) /\ Names(Told(x), e)
    BY <2>1, Zenon
  <2>3. x.id \in DOMAIN b => b[x.id] = Free
    BY <2>1, Zenon
  <2>. QED
    BY <1>5, <1>7, <2>2, <2>3, Zenon
<1>. QED
  BY <1>4, <1>6, <1>7

-----------------------------------------------------------------------------
(* The steps.                                                              *)

\* Nothing that was true of what hosts have sent becomes false.
LEMMA AimsStay ==
    ASSUME SeenInv, seen \subseteq seen'
    PROVE  /\ table' = table => TableAims'
           /\ UNCHANGED <<waiting, toSwitch>> => MessagesAim'
           /\ toCtl' = toCtl => CtlGenuine'
           /\ buffer' = buffer => BufferGenuine'
           /\ macToPort' = macToPort => KnownSeen'
<1>1. ASSUME table' = table PROVE TableAims'
  BY <1>1, LearnedStays DEF SeenInv, TableAims
<1>2. ASSUME UNCHANGED <<waiting, toSwitch>> PROVE MessagesAim'
  BY <1>2, LearnedStays DEF SeenInv, MessagesAim
<1>3. ASSUME toCtl' = toCtl PROVE CtlGenuine'
  BY <1>3, LearnedStays DEF SeenInv, CtlGenuine
<1>4. ASSUME buffer' = buffer PROVE BufferGenuine'
  BY <1>4, LearnedStays DEF SeenInv, BufferGenuine, IsSlot, Free, Packet
<1>5. ASSUME macToPort' = macToPort PROVE KnownSeen'
  BY <1>5, LearnedStays DEF SeenInv, KnownSeen
<1>. QED
  BY <1>1, <1>2, <1>3, <1>4, <1>5

LEMMA PassedGenuine ==
    ASSUME SwitchInv, SeenInv, seen \subseteq seen', NEW R, NEW id, Passed(R, id)
    PROVE  CtlGenuine' /\ BufferGenuine'
<1>1. BufferGenuine'
  <2>. SUFFICES ASSUME NEW i \in DOMAIN buffer', buffer'[i] # Free
                PROVE  IsSlot(buffer[i])' /\ Genuine(buffer[i].pkt, buffer[i].in_port)'
    BY Zenon DEF BufferGenuine, Free, Packet
  <2>1. CASE i \in DOMAIN buffer /\ buffer'[i] = buffer[i]
    <3>1. IsSlot(buffer[i]) /\ Genuine(buffer[i].pkt, buffer[i].in_port)
      BY <2>1 DEF SeenInv, BufferGenuine
    <3>2. Genuine(buffer[i].pkt, buffer[i].in_port)'
      <4>1. PICK k, p : k = buffer[i].pkt /\ p = buffer[i].in_port
        OBVIOUS
      <4>2. Genuine(k, p)'
        BY <3>1, <4>1, LearnedStays
      <4>. QED
        BY <2>1, <4>1, <4>2, Zenon
    <3>. QED
      BY <2>1, <3>1, <3>2 DEF IsSlot
  <2>. QED
    BY <2>1, Zenon DEF Passed
<1>2. CtlGenuine'
  <2>. SUFFICES ASSUME NEW c \in Conns, NEW y \in Range(toCtl'[c])
                PROVE  y.id # 0 /\ Genuine(y.pkt, y.in_port)'
    BY Zenon DEF CtlGenuine
  <2>1. CASE y \in Range(toCtl[c])
    BY <2>1, LearnedStays DEF SeenInv, CtlGenuine
  <2>2. CASE y \notin Range(toCtl[c])
    <3>1. c = R
      BY <2>2 DEF Passed
    <3>2. PICK x : /\ toCtl'[R] = Append(toCtl[R], x)
                   /\ x.id # 0 /\ Genuine(x.pkt, x.in_port)'
      BY <2>2, <3>1, Zenon DEF Passed
    <3>3. IsSeq(toCtl[R])
      BY <3>1 DEF SwitchInv, CtlOK
    <3>4. y = x
      BY <2>2, <3>1, <3>2, <3>3, AppendElements
    <3>. QED
      BY <3>2, <3>4
  <2>. QED
    BY <2>1, <2>2
<1>. QED
  BY <1>1, <1>2

LEMMA HostSeen ==
    ASSUME SwitchInv, SeenInv, NEW h \in Hosts, HostSends(h)
    PROVE  SeenInv' /\ SentWhereSeen'
<1>1. PICK d : process_packet(Packet(h, d), at[h])
  BY DEF HostSends
<1>2. PICK k, p : k = Packet(h, d) /\ p = at[h]
  OBVIOUS
<1>3. /\ k.src = h /\ k.dst = d /\ IsPacket(k)
      /\ p \in Ports /\ p # 0 /\ h # Wild
  <2>1. k.src = h /\ k.dst = d /\ IsPacket(k)
    BY <1>2 DEF Packet, IsPacket
  <2>2. p \in Ports
    BY <1>2 DEF SeenInv
  <2>. QED
    BY <2>1, <2>2, SwitchAssumption
<1>4. /\ seen' = seen \cup {<<h, p>>}
      /\ UNCHANGED <<table, toSwitch, waiting, macToPort, at>>
  BY <1>2 DEF HostSends, appVars
<1>5. seen \subseteq seen' /\ Genuine(k, p)'
  BY <1>3, <1>4 DEF Genuine, Learned
<1>6. PICK e : e = entry_for_packet(table, Match(p, h, d, AnyNw))
  OBVIOUS
<1>7. PICK acts : acts = IF e = NoEntry THEN <<Output(CONTROLLER)>> ELSE e.actions
  OBVIOUS
<1>8. PICK r, b, R : /\ r = process_actions(acts, k, p) /\ b = Kept(r, p)
                     /\ R = Receiver(connection_in_action)
  OBVIOUS
<1>9. Emit(r, p, connection_in_action) /\ buffer' = b
  BY <1>1, <1>2, <1>3, <1>6, <1>7, <1>8 DEF process_packet
<1>10. AimsWell(acts, d)
  <2>1. CASE e = NoEntry
    <3>1. acts = <<Output(CONTROLLER)>>
      BY <1>7, <2>1
    <3>2. CONTROLLER \notin Ports
      BY SwitchAssumption DEF CONTROLLER, OFPP_MAX
    <3>3. Output(CONTROLLER).type = "output" /\ Output(CONTROLLER).arg = CONTROLLER
      BY DEF Output, Act
    <3>4. LeavesHosts(acts)
      BY <3>1, <3>2, <3>3 DEF LeavesHosts
    <3>5. IsSeq(acts)
      BY <3>1, SingleIsSeq
    <3>. QED
      BY <3>4, <3>5 DEF AimsWell
  <2>2. CASE e # NoEntry
    <3>1. TableAims
      BY DEF SeenInv
    <3>. QED
      BY <1>6, <1>7, <2>2, <3>1, EntryFits
  <2>. QED
    BY <2>1, <2>2
<1>11. connection_in_action \in Conns \cup {None}
  BY DEF SwitchInv, ActiveOK
<1>12. Passed(R, 0)
  BY <1>3, <1>5, <1>8, <1>9, <1>10, <1>11, ActionsPassed
<1>13. /\ TableAims' /\ MessagesAim' /\ KnownSeen' /\ CtlGenuine' /\ BufferGenuine'
       /\ SentWhereSeen'
  <2>1. TableAims' /\ MessagesAim' /\ KnownSeen'
    BY <1>4, <1>5, AimsStay
  <2>2. CtlGenuine' /\ BufferGenuine'
    BY <1>5, <1>12, PassedGenuine
  <2>3. SentWhereSeen'
    BY <1>12 DEF Passed
  <2>. QED
    BY <2>1, <2>2, <2>3
<1>14. Apart(Due)' /\ Held(Due, buffer)'
  <2>1. PICK W, S, D, E : /\ W = waiting /\ S = toSwitch
                          /\ D = [c \in Conns |-> NamesIn(W[c], S[c], toCtl[c])]
                          /\ E = [c \in Conns |-> NamesIn(W[c], S[c], toCtl'[c])]
    OBVIOUS
  <2>2. D = Due /\ E = Due'
    BY <1>4, <2>1 DEF Due
  <2>3. CtlOK /\ \A c \in Conns : IsSeq(W[c]) /\ IsSeq(S[c])
    BY <2>1 DEF SwitchInv, WaitingOK, SentOK
  <2>4. PICK f, g : f = buffer /\ g = buffer'
    OBVIOUS
  <2>5. Apart(D) /\ Held(D, f)
    BY <2>2, <2>4 DEF SeenInv
  <2>6. Apart(E) /\ Held(E, g)
    BY <1>12, <2>1, <2>3, <2>4, <2>5, NamesPassed DEF Unnamed
  <2>. QED
    BY <2>2, <2>4, <2>6 DEF Apart, Held
<1>. QED
  BY <1>4, <1>13, <1>14 DEF SeenInv

\* The name that is handled goes, and no other names its slot.
LEMMA NamesServed ==
    ASSUME SwitchInv, SeenInv, NEW c \in Conns, Handle(c), NEW m, m = Head(waiting[c]),
           NEW W, W = waiting', NEW S, S = toSwitch,
           NEW F, F = [d \in Conns |-> NamesIn(W[d], S[d], toCtl[d])],
           NEW b, b = buffer
    PROVE  Apart(F) /\ Held(F, b) /\ Unnamed(F, m.buffer_id)
<1>1. PICK D : D = Due
  OBVIOUS
<1>2. Apart(D) /\ Held(D, b)
  BY <1>1 DEF SeenInv
<1>3. /\ waiting[c] # <<>> /\ IsSeq(waiting[c])
      /\ W[c] = Tail(waiting[c]) /\ \A d \in Conns \ {c} : W[d] = waiting[d]
  BY DEF Handle, SwitchInv, WaitingOK
<1>4. PICK w, s, t, n : /\ w = waiting[c] /\ s = toSwitch[c] /\ t = toCtl[c]
                        /\ n = Len(w) + Len(s) + Len(t)
  OBVIOUS
<1>5. IsSeq(s) /\ IsSeq(t)
  BY <1>4 DEF SwitchInv, SentOK, CtlOK
<1>6. D[c] = NamesIn(w, s, t) /\ F[c] = NamesIn(Tail(w), s, t)
  BY <1>1, <1>3, <1>4 DEF Due
<1>7. Shorter(D[c], F[c], n, Owed(m))
  <2>1. IsSeq(w) /\ w # <<>> /\ Head(w) = m
    BY <1>3, <1>4
  <2>2. Shorter(NamesIn(w, s, t), NamesIn(Tail(w), s, t), Len(w) + Len(s) + Len(t), Owed(Head(w)))
    BY <1>5, <2>1, NamesHandled, Zenon
  <2>. QED
    BY <1>4, <1>6, <2>1, <2>2, Zenon
<1>8. \A d \in Conns \ {c} : F[d] = D[d]
  BY <1>1, <1>3 DEF Due
<1>9. /\ n \in Nat /\ n > 0 /\ DOMAIN D[c] = 1 .. n /\ DOMAIN F[c] = 1 .. n - 1
      /\ \A k \in 1 .. n - 1 : F[c][k] = D[c][k + 1]
      /\ D[c][1].id = m.buffer_id
  BY <1>7 DEF Shorter, Owed
<1>10. PICK o : o = [d \in Conns |-> [k \in DOMAIN F[d] |-> IF d = c THEN k + 1 ELSE k]]
  OBVIOUS
<1>11. \A d \in Conns : \A k \in DOMAIN F[d] : o[d][k] = IF d = c THEN k + 1 ELSE k
  BY <1>10
<1>12. ASSUME NEW d \in Conns, NEW k \in DOMAIN F[d]
       PROVE  o[d][k] \in DOMAIN D[d] /\ F[d][k] = D[d][o[d][k]] /\ (d = c => o[d][k] # 1)
  <2>1. CASE d = c
    <3>1. k \in 1 .. n - 1 /\ k + 1 \in 1 .. n /\ k + 1 # 1
      BY <1>9, <2>1
    <3>. QED
      BY <1>9, <1>11, <2>1, <3>1
  <2>2. CASE d # c
    BY <1>8, <1>11, <2>2
  <2>. QED
    BY <2>1, <2>2
<1>13. None \notin Conns
  BY SwitchAssumption DEF None
<1>14. \A d \in Conns : \A k, l \in DOMAIN F[d] : o[d][k] = o[d][l] => k = l
  <2>. SUFFICES ASSUME NEW d \in Conns, NEW k \in DOMAIN F[d], NEW l \in DOMAIN F[d],
                       o[d][k] = o[d][l]
                PROVE  k = l
    OBVIOUS
  <2>1. CASE d = c
    <3>1. k \in 1 .. n - 1 /\ l \in 1 .. n - 1 /\ k + 1 = l + 1
      BY <1>9, <1>11, <2>1
    <3>. QED
      BY <1>9, <3>1
  <2>2. CASE d # c
    BY <1>11, <2>2
  <2>. QED
    BY <2>1, <2>2
<1>15. \A d \in Conns : \A k \in DOMAIN F[d] : F[d][k].id # 0 =>
          F[d][k].id \in DOMAIN b /\ b[F[d][k].id] = b[F[d][k].id]
  BY <1>2, <1>12 DEF Held, Names
<1>16. Moves(D, b, F, b, o, None, 0)
  BY <1>12, <1>13, <1>14, <1>15 DEF Moves
<1>17. ASSUME NEW d \in Conns, NEW k \in DOMAIN F[d], F[d][k].id = m.buffer_id, m.buffer_id # 0
       PROVE  FALSE
  <2>1. o[d][k] \in DOMAIN D[d] /\ D[d][o[d][k]].id = D[c][1].id /\ D[c][1].id # 0
    BY <1>9, <1>12, <1>17
  <2>2. 1 \in DOMAIN D[c]
    BY <1>9
  <2>3. d = c /\ o[d][k] = 1
    BY <1>2, <2>1, <2>2 DEF Apart
  <2>. QED
    BY <1>12, <2>3
<1>. QED
  BY <1>2, <1>16, <1>17, NamesMove DEF Unnamed

LEMMA HandleSeen ==
    ASSUME SwitchInv, SeenInv, NEW c \in Conns, Handle(c)
    PROVE  SeenInv' /\ SentWhereSeen'
<1>1. PICK m : m = Head(waiting[c])
  OBVIOUS
<1>2. Passed(c, m.buffer_id) /\ TableAims'
  BY <1>1, HandlePassed
<1>3. /\ UNCHANGED <<toSwitch, macToPort, at, seen>>
      /\ waiting' = [waiting EXCEPT ![c] = Tail(@)] /\ waiting[c] # <<>>
  BY DEF Handle, appVars
<1>4. CtlGenuine' /\ BufferGenuine' /\ KnownSeen' /\ SentWhereSeen'
  <2>1. CtlGenuine' /\ BufferGenuine'
    BY <1>2, <1>3, PassedGenuine
  <2>2. KnownSeen'
    BY <1>3, AimsStay
  <2>. QED
    BY <1>2, <2>1, <2>2 DEF Passed
<1>5. MessagesAim'
  <2>. SUFFICES ASSUME NEW d \in Conns, NEW x \in Range(waiting'[d]) \cup Range(toSwitch[d])
                PROVE  Aimed(x)'
    BY <1>3, Zenon DEF MessagesAim
  <2>1. /\ IsSeq(waiting[c]) /\ waiting'[c] = Tail(waiting[c])
        /\ \A e \in Conns \ {c} : waiting'[e] = waiting[e]
    BY <1>3 DEF SwitchInv, WaitingOK
  <2>2. Range(waiting'[c]) \subseteq Range(waiting[c])
    BY <1>3, <2>1, TailElements
  <2>3. Aimed(x)
    BY <2>1, <2>2 DEF SeenInv, MessagesAim
  <2>. QED
    BY <1>3, <2>3, LearnedStays
<1>6. Apart(Due)' /\ Held(Due, buffer)'
  <2>1. PICK W, S, F, E : /\ W = waiting' /\ S = toSwitch
                          /\ F = [d \in Conns |-> NamesIn(W[d], S[d], toCtl[d])]
                          /\ E = [d \in Conns |-> NamesIn(W[d], S[d], toCtl'[d])]
    OBVIOUS
  <2>2. E = Due'
    BY <1>3, <2>1 DEF Due
  <2>3. CtlOK /\ \A d \in Conns : IsSeq(W[d]) /\ IsSeq(S[d])
    <3>1. WaitingOK'
      BY HandleServed
    <3>2. \A d \in Conns : IsSeq(W[d])
      BY <2>1, <3>1, Zenon DEF WaitingOK
    <3>. QED
      BY <2>1, <3>2 DEF SwitchInv, SentOK
  <2>4. PICK f, g : f = buffer /\ g = buffer'
    OBVIOUS
  <2>5. Apart(F) /\ Held(F, f) /\ Unnamed(F, m.buffer_id)
    BY <1>1, <2>1, <2>4, NamesServed
  <2>6. PICK id : id = m.buffer_id
    OBVIOUS
  <2>7. Passed(c, id) /\ Unnamed(F, id)
    BY <1>2, <2>5, <2>6
  <2>8. Apart(E) /\ Held(E, g)
    BY <2>1, <2>3, <2>4, <2>5, <2>7, NamesPassed
  <2>. QED
    BY <2>2, <2>4, <2>8 DEF Apart, Held
<1>. QED
  BY <1>2, <1>3, <1>4, <1>5, <1>6 DEF SeenInv

\* What a controller answers, once it has learned where the packet came from.
LEMMA AnswerAims ==
    ASSUME NEW m, m.id \in Nat \ {0}, NEW c, NEW known,
           \A h \in DOMAIN known : h # Wild /\ Learned(h, known[h])
    PROVE  /\ Aimed(Answer(c, m, known))
           /\ LET y == Owed(Answer(c, m, known)) IN
              y.id = m.id /\ (y.flow => y.dst = m.pkt.dst)
<1>1. PICK a : a = Answer(c, m, known)
  OBVIOUS
<1>2. a.buffer_id = m.id
  BY <1>1, AnswerFor
<1>3. \A q : /\ IsSeq(<<Output(q)>>) /\ DOMAIN <<Output(q)>> = {1}
             /\ <<Output(q)>>[1].type = "output" /\ <<Output(q)>>[1].arg = q
  <2>1. \A q : Output(q).type = "output" /\ Output(q).arg = q
    BY DEF Output, Act
  <2>. QED
    BY <2>1, SingleIsSeq
<1>4. LeavesHosts(<<>>) /\ IsSeq(<<>>)
  BY EmptyIsSeq DEF LeavesHosts
<1>5. LeavesHosts(<<Output(FLOOD)>>) /\ IsSeq(<<Output(FLOOD)>>)
  <2>1. FLOOD \notin Ports /\ FLOOD # CONTROLLER
    BY SwitchAssumption DEF FLOOD, CONTROLLER, OFPP_MAX
  <2>. QED
    BY <1>3, <2>1 DEF LeavesHosts
<1>6. CASE \E acts \in {<<>>, <<Output(FLOOD)>>} : a = packet_out(m.id, acts)
  <2>1. LeavesHosts(a.actions) /\ IsSeq(a.actions) /\ a.type = "packet_out"
    BY <1>4, <1>5, <1>6 DEF packet_out, Msg
  <2>2. Aimed(a)
    BY <1>2, <2>1 DEF Aimed, AimsWell
  <2>. QED
    BY <1>1, <1>2, <2>1, <2>2 DEF Owed
<1>7. CASE m.pkt.dst = Filtered
  BY <1>1, <1>6, <1>7 DEF Answer
<1>8. CASE m.pkt.dst # Filtered /\ (m.pkt.dst = Group \/ m.pkt.dst \notin DOMAIN known)
  BY <1>1, <1>6, <1>8 DEF Answer, Flooded
<1>9. CASE m.pkt.dst \notin {Filtered, Group} /\ m.pkt.dst \in DOMAIN known
  <2>1. PICK d, q : d = m.pkt.dst /\ q = known[d]
    OBVIOUS
  <2>2. d # Wild /\ Learned(d, q)
    BY <1>9, <2>1
  <2>3. PICK acts : acts = IF q = m.in_port THEN <<>> ELSE <<Output(q)>>
    OBVIOUS
  <2>4. a = flow_mod(m.id, m.pkt, acts)
    BY <1>1, <1>9, <2>1, <2>3 DEF Answer
  <2>5. AimsWell(acts, d)
    BY <1>3, <1>4, <2>2, <2>3 DEF AimsWell
  <2>6. a.type = "flow_mod" /\ a.pkt.dst = d /\ a.actions = acts
    BY <2>1, <2>4 DEF flow_mod, Msg
  <2>7. Aimed(a)
    BY <2>5, <2>6 DEF Aimed
  <2>. QED
    BY <1>1, <1>2, <2>1, <2>6, <2>7 DEF Owed
<1>. QED
  BY <1>7, <1>8, <1>9

\* An answer takes the place of the packet_in that it answers.
Replaces(E, D) ==
    /\ DOMAIN E = DOMAIN D
    /\ \A k \in DOMAIN E : /\ E[k].id = D[k].id
                           /\ E[k].flow => D[k].flow /\ E[k].dst = D[k].dst

LEMMA NamesHanded ==
    ASSUME NEW w, IsSeq(w), NEW s, IsSeq(s), NEW t, IsSeq(t), t # <<>>,
           NEW m, m = Head(t), NEW a, a.buffer_id = m.id,
           Owed(a).flow => Owed(a).dst = m.pkt.dst
    PROVE  Replaces(NamesIn(w, Append(s, a), Tail(t)), NamesIn(w, s, t))
<1>1. PICK D, E, n, q, y, z :
        /\ D = NamesIn(w, s, t) /\ E = NamesIn(w, Append(s, a), Tail(t))
        /\ n = Len(w) + Len(s) + Len(t) /\ q = Len(w) + Len(s) + 1
        /\ y = Told(m) /\ z = Owed(a)
  OBVIOUS
<1>2. Exchanged(D, E, n, q, y, z)
  BY <1>1, NamesAnswered, Zenon
<1>3. /\ n \in Nat /\ q \in 1 .. n /\ DOMAIN D = 1 .. n /\ DOMAIN E = 1 .. n
      /\ \A k \in 1 .. n : k # q => E[k] = D[k]
      /\ D[q] = y /\ E[q] = z
  BY <1>2 DEF Exchanged
<1>4. z.id = y.id /\ y.flow /\ (z.flow => z.dst = y.dst)
  BY <1>1 DEF Told, Owed
<1>5. Replaces(E, D)
  BY <1>3, <1>4 DEF Replaces
<1>. QED
  BY <1>1, <1>5

LEMMA NamesReplaced ==
    ASSUME NEW D, NEW b, Apart(D), Held(D, b), NEW E, \A c \in Conns : Replaces(E[c], D[c])
    PROVE  Apart(E) /\ Held(E, b)
<1>1. ASSUME NEW c \in Conns, NEW k \in DOMAIN E[c]
      PROVE  /\ k \in DOMAIN D[c] /\ E[c][k].id = D[c][k].id
             /\ E[c][k].flow => D[c][k].flow /\ E[c][k].dst = D[c][k].dst
  BY Zenon DEF Replaces
<1>2. ASSUME NEW c \in Conns, NEW d \in Conns, NEW i \in DOMAIN E[c], NEW j \in DOMAIN E[d],
             E[c][i].id = E[d][j].id, E[c][i].id # 0
      PROVE  c = d /\ i = j
  <2>1. i \in DOMAIN D[c] /\ E[c][i].id = D[c][i].id
    BY <1>1
  <2>2. j \in DOMAIN D[d] /\ E[d][j].id = D[d][j].id
    BY <1>1
  <2>3. D[c][i].id = D[d][j].id /\ D[c][i].id # 0
    BY <1>2, <2>1, <2>2, Zenon
  <2>. QED
    BY <2>1, <2>2, <2>3, Zenon DEF Apart
<1>3. ASSUME NEW c \in Conns, NEW k \in DOMAIN E[c], E[c][k].id # 0
      PROVE  Names(E[c][k], b)
  <2>1. PICK x, y : x = E[c][k] /\ y = D[c][k]
    OBVIOUS
  <2>2. x.id = y.id /\ (x.flow => y.flow /\ x.dst = y.dst) /\ Names(y, b)
    BY <1>1, <1>3, <2>1 DEF Held
  <2>3. Names(x, b)
    BY <2>2 DEF Names
  <2>. QED
    BY <2>1, <2>3
<1>4. Apart(E)
  BY <1>2 DEF Apart
<1>5. Held(E, b)
  BY <1>3 DEF Held
<1>. QED
  BY <1>4, <1>5

LEMMA PacketInSeen ==
    ASSUME SwitchInv, SeenInv, NEW c \in Conns, handle_PacketIn(c)
    PROVE  SeenInv' /\ SentWhereSeen'
<1>1. PICK m, known, a :
        /\ m = Head(toCtl[c]) /\ known = Learn(macToPort[c], m) /\ a = Answer(c, m, known)
        /\ macToPort' = [macToPort EXCEPT ![c] = known]
        /\ toSwitch' = [toSwitch EXCEPT ![c] = Append(@, a)]
  BY DEF handle_PacketIn
<1>2. /\ toCtl[c] # <<>> /\ toCtl' = [toCtl EXCEPT ![c] = Tail(@)] /\ out' = <<>>
      /\ UNCHANGED <<table, buffer, waiting, at, seen>>
  BY DEF handle_PacketIn, switchVars
<1>3. /\ DOMAIN toCtl = Conns /\ DOMAIN toSwitch = Conns /\ DOMAIN macToPort = Conns
      /\ IsSeq(toCtl[c]) /\ IsSeq(toSwitch[c])
  BY DEF SwitchInv, CtlOK, SentOK, SeenInv, KnownSeen
<1>4. /\ toCtl'[c] = Tail(toCtl[c]) /\ toSwitch'[c] = Append(toSwitch[c], a)
      /\ DOMAIN macToPort' = Conns /\ macToPort'[c] = known
      /\ \A d \in Conns \ {c} : /\ toCtl'[d] = toCtl[d] /\ toSwitch'[d] = toSwitch[d]
                                /\ macToPort'[d] = macToPort[d]
  BY <1>1, <1>2, <1>3
<1>5. m \in Range(toCtl[c]) /\ Range(toCtl'[c]) \subseteq Range(toCtl[c])
  BY <1>1, <1>2, <1>3, <1>4, TailElements
<1>6. m.id \in Nat \ {0} /\ Genuine(m.pkt, m.in_port)
  BY <1>5 DEF SwitchInv, CtlOK, SeenInv, CtlGenuine
<1>7. \A h \in DOMAIN known : h # Wild /\ Learned(h, known[h])
  <2>. SUFFICES ASSUME NEW h \in DOMAIN known PROVE h # Wild /\ Learned(h, known[h])
    OBVIOUS
  <2>1. CASE h = m.pkt.src
    <3>1. known[h] = m.in_port
      BY <1>1, <2>1 DEF Learn
    <3>. QED
      BY <1>6, <2>1, <3>1 DEF Genuine
  <2>2. CASE h # m.pkt.src
    <3>1. h \in DOMAIN macToPort[c] /\ known[h] = macToPort[c][h]
      BY <1>1, <2>2 DEF Learn
    <3>. QED
      BY <3>1 DEF SeenInv, KnownSeen
  <2>. QED
    BY <2>1, <2>2
<1>8. Aimed(a) /\ a.buffer_id = m.id /\ (Owed(a).flow => Owed(a).dst = m.pkt.dst)
  <2>1. PICK y : y = Owed(Answer(c, m, known))
    OBVIOUS
  <2>2. Aimed(Answer(c, m, known)) /\ y.id = m.id /\ (y.flow => y.dst = m.pkt.dst)
    BY <1>6, <1>7, <2>1, AnswerAims
  <2>. QED
    BY <1>1, <2>1, <2>2 DEF Owed
<1>9. MessagesAim'
  <2>. SUFFICES ASSUME NEW d \in Conns, NEW x \in Range(waiting[d]) \cup Range(toSwitch'[d])
                PROVE  Aimed(x)'
    BY <1>2, Zenon DEF MessagesAim
  <2>1. Range(toSwitch'[c]) = Range(toSwitch[c]) \cup {a}
    BY <1>3, <1>4, AppendElements
  <2>2. Aimed(x)
    BY <1>4, <1>8, <2>1 DEF SeenInv, MessagesAim
  <2>. QED
    BY <1>2, <2>2, LearnedStays
<1>10. CtlGenuine'
  <2>. SUFFICES ASSUME NEW d \in Conns, NEW x \in Range(toCtl'[d])
                PROVE  x.id # 0 /\ Genuine(x.pkt, x.in_port)'
    BY Zenon DEF CtlGenuine
  <2>1. x \in Range(toCtl[d])
    BY <1>4, <1>5
  <2>. QED
    BY <1>2, <2>1, LearnedStays DEF SeenInv, CtlGenuine
<1>11. KnownSeen'
  <2>1. ASSUME NEW d \in Conns, NEW h \in DOMAIN macToPort'[d]
        PROVE  h # Wild /\ Learned(h, macToPort[d][h])'
    <3>1. PICK p : p = macToPort'[d][h]
      OBVIOUS
    <3>2. h # Wild /\ Learned(h, p)
      BY <1>4, <1>7, <2>1, <3>1 DEF SeenInv, KnownSeen
    <3>3. Learned(h, p)'
      BY <1>2, <3>2 DEF Learned
    <3>. QED
      BY <3>1, <3>2, <3>3, Zenon
  <2>. QED
    BY <1>4, <2>1 DEF KnownSeen
<1>12. TableAims' /\ BufferGenuine' /\ at' \in [Hosts -> Ports]
  BY <1>2, AimsStay DEF SeenInv
<1>13. Apart(Due)' /\ Held(Due, buffer)'
  <2>1. PICK D, E, b : D = Due /\ E = Due' /\ b = buffer
    OBVIOUS
  <2>2. \A d \in Conns \ {c} : E[d] = D[d]
    BY <1>2, <1>4, <2>1 DEF Due
  <2>3. PICK w, s, t : w = waiting[c] /\ s = toSwitch[c] /\ t = toCtl[c]
    OBVIOUS
  <2>4. D[c] = NamesIn(w, s, t) /\ E[c] = NamesIn(w, Append(s, a), Tail(t))
    BY <1>2, <1>4, <2>1, <2>3 DEF Due
  <2>5. IsSeq(w) /\ IsSeq(s) /\ IsSeq(t) /\ t # <<>> /\ m = Head(t)
    BY <1>1, <1>2, <1>3, <2>3 DEF SwitchInv, WaitingOK
  <2>6. Replaces(E[c], D[c])
    <3>1. Owed(a).flow => Owed(a).dst = m.pkt.dst
      BY <1>8
    <3>2. Replaces(NamesIn(w, Append(s, a), Tail(t)), NamesIn(w, s, t))
      BY <1>8, <2>5, <3>1, NamesHanded
    <3>. QED
      BY <2>4, <3>2, Zenon
  <2>7. \A d \in Conns \ {c} : Replaces(E[d], D[d])
    BY <2>2 DEF Replaces
  <2>8. \A d \in Conns : Replaces(E[d], D[d])
    BY <2>6, <2>7, Zenon
  <2>9. Apart(D) /\ Held(D, b)
    BY <2>1 DEF SeenInv
  <2>10. Apart(E) /\ Held(E, b)
    BY <2>8, <2>9, NamesReplaced
  <2>. QED
    BY <1>2, <2>1, <2>10 DEF Apart, Held
<1>14. SentWhereSeen'
  BY <1>2, NothingSent
<1>. QED
  BY <1>9, <1>10, <1>11, <1>12, <1>13, <1>14 DEF SeenInv

\* A request names no buffer, and the names before it and after it keep their order.
LEMMA NamesSpread ==
    ASSUME NEW D, NEW b, Apart(D), Held(D, b), NEW c \in Conns,
           NEW E, \A d \in Conns \ {c} : E[d] = D[d],
           NEW n, NEW q, NEW y, y.id = 0, Inserted(D[c], E[c], n, q, y)
    PROVE  Apart(E) /\ Held(E, b)
<1>1. /\ n \in Nat /\ q \in 1 .. n + 1 /\ DOMAIN D[c] = 1 .. n /\ DOMAIN E[c] = 1 .. n + 1
      /\ E[c][q] = y
      /\ \A k \in 1 .. n + 1 : (k < q => E[c][k] = D[c][k]) /\ (k > q => E[c][k] = D[c][k - 1])
  BY DEF Inserted
<1>2. PICK o : o = [d \in Conns |-> [k \in DOMAIN E[d] |-> IF d = c /\ k > q THEN k - 1 ELSE k]]
  OBVIOUS
<1>3. \A d \in Conns : \A k \in DOMAIN E[d] : o[d][k] = IF d = c /\ k > q THEN k - 1 ELSE k
  BY <1>2
<1>4. ASSUME NEW d \in Conns, NEW k \in DOMAIN E[d], ~ (d = c /\ k = q)
      PROVE  o[d][k] \in DOMAIN D[d] /\ E[d][k] = D[d][o[d][k]]
  <2>1. CASE d = c /\ k < q
    <3>1. k \in 1 .. n + 1 /\ k \in 1 .. n /\ ~ (k > q)
      BY <1>1, <2>1
    <3>. QED
      BY <1>1, <1>3, <2>1, <3>1
  <2>2. CASE d = c /\ k > q
    <3>1. k \in 1 .. n + 1 /\ k - 1 \in 1 .. n
      BY <1>1, <2>2
    <3>. QED
      BY <1>1, <1>3, <2>2, <3>1
  <2>3. CASE d # c
    BY <1>3, <2>3
  <2>4. d = c => k \in Nat /\ q \in Nat
    BY <1>1
  <2>. QED
    BY <1>4, <2>1, <2>2, <2>3, <2>4
<1>5. \A d \in Conns : \A k \in DOMAIN E[d] : E[d][k].id # 0 =>
         /\ ~ (d = c /\ k = q)
         /\ E[d][k].id \in DOMAIN b /\ b[E[d][k].id] = b[E[d][k].id]
  BY <1>1, <1>4 DEF Held, Names
<1>6. ASSUME NEW d \in Conns, NEW k \in DOMAIN E[d], NEW l \in DOMAIN E[d],
             E[d][k].id # 0, E[d][l].id # 0, o[d][k] = o[d][l]
      PROVE  k = l
  <2>1. ~ (d = c /\ k = q) /\ ~ (d = c /\ l = q)
    BY <1>5, <1>6
  <2>2. CASE d = c
    <3>1. k \in Nat /\ l \in Nat /\ q \in Nat
      BY <1>1, <2>2
    <3>. QED
      BY <1>3, <1>6, <2>1, <2>2, <3>1
  <2>3. CASE d # c
    BY <1>3, <1>6, <2>3
  <2>. QED
    BY <2>2, <2>3
<1>7. ASSUME NEW d \in Conns, NEW e \in Conns, NEW i \in DOMAIN E[d], NEW j \in DOMAIN E[e],
             E[d][i].id = E[e][j].id, E[d][i].id # 0
      PROVE  d = e /\ i = j
  <2>1. PICK k, l : k = o[d][i] /\ l = o[e][j]
    OBVIOUS
  <2>2. /\ k \in DOMAIN D[d] /\ l \in DOMAIN D[e]
        /\ D[d][k].id = E[d][i].id /\ D[e][l].id = E[e][j].id
    BY <1>4, <1>5, <1>7, <2>1
  <2>3. D[d][k].id = D[e][l].id /\ D[d][k].id # 0
    BY <1>7, <2>2, Zenon
  <2>4. d = e /\ k = l
    BY <2>2, <2>3, Zenon DEF Apart
  <2>. QED
    BY <1>6, <1>7, <2>1, <2>4
<1>8. Apart(E)
  BY <1>7 DEF Apart
<1>9. ASSUME NEW d \in Conns, NEW k \in DOMAIN E[d], E[d][k].id # 0
      PROVE  Names(E[d][k], b)
  <2>1. o[d][k] \in DOMAIN D[d] /\ E[d][k] = D[d][o[d][k]]
    BY <1>4, <1>5, <1>9
  <2>. QED
    BY <1>9, <2>1, Zenon DEF Held
<1>10. Held(E, b)
  BY <1>9 DEF Held
<1>. QED
  BY <1>8, <1>10

LEMMA RequestSeen ==
    ASSUME SwitchInv, SeenInv, RequestsApart, NEW c \in Conns, Request(c)
    PROVE  SeenInv' /\ SentWhereSeen'
<1>1. PICK m \in Requests : toSwitch' = [toSwitch EXCEPT ![c] = Append(@, m)]
  BY DEF Request
<1>2. out' = <<>> /\ UNCHANGED <<table, buffer, waiting, toCtl, macToPort, at, seen>>
  BY DEF Request, switchVars, appVars
<1>3. /\ IsSeq(toSwitch[c]) /\ DOMAIN toSwitch = Conns
      /\ IsSeq(waiting[c]) /\ IsSeq(toCtl[c])
  BY DEF SwitchInv, SentOK, WaitingOK, CtlOK
<1>4. /\ toSwitch'[c] = Append(toSwitch[c], m)
      /\ \A d \in Conns \ {c} : toSwitch'[d] = toSwitch[d]
  BY <1>1, <1>3
<1>5. m.buffer_id = 0 /\ Aimed(m)
  <2>1. /\ m.buffer_id = 0 /\ LeavesHosts(m.actions)
        /\ m.type = "packet_out" => m.pkt.src \notin {Wild, Free.pkt.src}
    BY DEF RequestsApart
  <2>2. IsPacket(m.pkt) /\ IsSeq(m.actions)
    <3>1. IsPacket(m.pkt)
      BY RequestAssumption DEF IsPacket
    <3>2. PICK acts, n : acts = m.actions /\ n = Len(m.actions)
      OBVIOUS
    <3>3. n \in Nat /\ acts = [i \in 1 .. n |-> acts[i]]
      BY <3>2, RequestAssumption
    <3>4. acts \in Seq(Range(acts))
      BY <3>3 DEF Range
    <3>. QED
      BY <3>1, <3>2, <3>4 DEF IsSeq
  <2>3. 0 \notin Ports
    BY SwitchAssumption
  <2>4. m.type = "packet_out" => Genuine(m.pkt, 0)
    BY <2>1, <2>2, <2>3 DEF Genuine, Learned
  <2>. QED
    BY <2>1, <2>2, <2>4 DEF Aimed, AimsWell
<1>6. MessagesAim'
  <2>. SUFFICES ASSUME NEW d \in Conns, NEW x \in Range(waiting[d]) \cup Range(toSwitch'[d])
                PROVE  Aimed(x)'
    BY <1>2, Zenon DEF MessagesAim
  <2>1. Range(toSwitch'[c]) = Range(toSwitch[c]) \cup {m}
    BY <1>3, <1>4, AppendElements
  <2>2. Aimed(x)
    BY <1>4, <1>5, <2>1 DEF SeenInv, MessagesAim
  <2>. QED
    BY <1>2, <2>2, LearnedStays
<1>7. TableAims' /\ CtlGenuine' /\ BufferGenuine' /\ KnownSeen' /\ at' \in [Hosts -> Ports]
  BY <1>2, AimsStay DEF SeenInv
<1>8. Apart(Due)' /\ Held(Due, buffer)'
  <2>1. PICK D, E, b : D = Due /\ E = Due' /\ b = buffer
    OBVIOUS
  <2>2. \A d \in Conns \ {c} : E[d] = D[d]
    BY <1>2, <1>4, <2>1 DEF Due
  <2>3. PICK w, s, t, n, q, y :
          /\ w = waiting[c] /\ s = toSwitch[c] /\ t = toCtl[c]
          /\ n = Len(w) + Len(s) + Len(t) /\ q = Len(w) + Len(s) + 1 /\ y = Owed(m)
    OBVIOUS
  <2>4. D[c] = NamesIn(w, s, t) /\ E[c] = NamesIn(w, Append(s, m), t)
    BY <1>2, <1>4, <2>1, <2>3 DEF Due
  <2>5. Inserted(D[c], E[c], n, q, y)
    <3>1. IsSeq(w) /\ IsSeq(s) /\ IsSeq(t)
      BY <1>3, <2>3
    <3>2. Inserted(NamesIn(w, s, t), NamesIn(w, Append(s, m), t), n, q, y)
      BY <2>3, <3>1, NamesRequested, Zenon
    <3>. QED
      BY <2>4, <3>2, Zenon
  <2>6. y.id = 0
    BY <1>5, <2>3 DEF Owed
  <2>7. Apart(D) /\ Held(D, b)
    BY <2>1 DEF SeenInv
  <2>8. Apart(E) /\ Held(E, b)
    BY <2>2, <2>5, <2>6, <2>7, NamesSpread, Zenon
  <2>. QED
    BY <1>2, <2>1, <2>8 DEF Apart, Held
<1>9. SentWhereSeen'
  BY <1>2, NothingSent
<1>. QED
  BY <1>6, <1>7, <1>8, <1>9 DEF SeenInv

LEMMA ReadSeen ==
    ASSUME SwitchInv, SeenInv, NEW c \in Conns, ReadBegins(c)
    PROVE  SeenInv' /\ SentWhereSeen'
<1>1. PICK n \in 1 .. Len(toSwitch[c]) :
        /\ waiting' = [waiting EXCEPT ![c] = @ \o SubSeq(toSwitch[c], 1, n)]
        /\ toSwitch' = [toSwitch EXCEPT ![c] = SubSeq(@, n + 1, Len(@))]
  BY DEF ReadBegins
<1>2. out' = <<>> /\ UNCHANGED <<table, buffer, toCtl, macToPort, at, seen>>
  BY DEF ReadBegins, switchVars, appVars
<1>3. MessagesAim'
  <2>. SUFFICES ASSUME NEW d \in Conns, NEW x \in Range(waiting'[d]) \cup Range(toSwitch'[d])
                PROVE  Aimed(x)'
    BY Zenon DEF MessagesAim
  <2>1. Range(toSwitch'[d]) \cup Range(waiting'[d]) = Range(toSwitch[d]) \cup Range(waiting[d])
    BY ReadBegun
  <2>2. Aimed(x)
    BY <2>1 DEF SeenInv, MessagesAim
  <2>. QED
    BY <1>2, <2>2, LearnedStays
<1>4. TableAims' /\ CtlGenuine' /\ BufferGenuine' /\ KnownSeen' /\ at' \in [Hosts -> Ports]
  BY <1>2, AimsStay DEF SeenInv
<1>5. Due' = Due
  <2>1. PICK w, s, t : w = waiting[c] /\ s = toSwitch[c] /\ t = toCtl[c]
    OBVIOUS
  <2>2. IsSeq(w) /\ IsSeq(s) /\ IsSeq(t) /\ DOMAIN waiting = Conns /\ DOMAIN toSwitch = Conns
    BY <2>1 DEF SwitchInv, WaitingOK, SentOK, CtlOK
  <2>3. /\ waiting'[c] = w \o SubSeq(s, 1, n) /\ toSwitch'[c] = SubSeq(s, n + 1, Len(s))
        /\ \A d \in Conns \ {c} : waiting'[d] = waiting[d] /\ toSwitch'[d] = toSwitch[d]
    BY <1>1, <2>1, <2>2
  <2>4. n \in 1 .. Len(s)
    BY <2>1
  <2>5. NamesIn(w \o SubSeq(s, 1, n), SubSeq(s, n + 1, Len(s)), t) = NamesIn(w, s, t)
    BY <2>2, <2>4, NamesRead
  <2>6. NamesIn(waiting'[c], toSwitch'[c], toCtl'[c]) = NamesIn(waiting[c], toSwitch[c], toCtl[c])
    BY <1>2, <2>1, <2>3, <2>5, Zenon
  <2>7. \A d \in Conns : NamesIn(waiting'[d], toSwitch'[d], toCtl'[d])
                           = NamesIn(waiting[d], toSwitch[d], toCtl[d])
    BY <1>2, <2>3, <2>6
  <2>. QED
    BY <2>7, Zenon DEF Due
<1>6. Apart(Due)' /\ Held(Due, buffer)'
  BY <1>2, <1>5 DEF SeenInv, Apart, Held
<1>7. SentWhereSeen'
  BY <1>2, NothingSent
<1>. QED
  BY <1>3, <1>4, <1>6, <1>7 DEF SeenInv

\* The other steps send nothing and leave every queue and buffer alone.
LEMMA OthersSeen ==
    ASSUME SwitchInv, SeenInv,
           \/ \E h \in Hosts : HostMoves(h)
           \/ \E p \in Ports : PortChanges(p)
           \/ Settle
           \/ \E c \in Conns : add_connection(c)
    PROVE  SeenInv' /\ SentWhereSeen'
<1>1. /\ UNCHANGED <<waiting, toSwitch, toCtl, buffer, table, macToPort, seen>>
      /\ out' = <<>> /\ at' \in [Hosts -> Ports]
  <2>1. ASSUME NEW h \in Hosts, HostMoves(h)
        PROVE  /\ UNCHANGED <<waiting, toSwitch, toCtl, buffer, table, macToPort, seen>>
               /\ out' = <<>> /\ at' \in [Hosts -> Ports]
    BY <2>1 DEF HostMoves, switchVars, wireVars, appVars, SeenInv
  <2>2. ASSUME NEW p \in Ports, PortChanges(p)
        PROVE  /\ UNCHANGED <<waiting, toSwitch, toCtl, buffer, table, macToPort, seen, at>>
               /\ out' = <<>>
    BY <2>2 DEF PortChanges, wireVars, appVars
  <2>3. ASSUME Settle
        PROVE  /\ UNCHANGED <<waiting, toSwitch, toCtl, buffer, table, macToPort, seen, at>>
               /\ out' = <<>>
    BY <2>3 DEF Settle, switchVars, wireVars
  <2>4. ASSUME NEW c \in Conns, add_connection(c)
        PROVE  /\ UNCHANGED <<waiting, toSwitch, toCtl, buffer, table, macToPort, seen, at>>
               /\ out' = <<>>
    BY <2>4 DEF add_connection, wireVars, appVars
  <2>. QED
    BY <2>1, <2>2, <2>3, <2>4 DEF SeenInv
<1>2. TableAims' /\ MessagesAim' /\ CtlGenuine' /\ BufferGenuine' /\ KnownSeen'
  BY <1>1, AimsStay
<1>3. Apart(Due)' /\ Held(Due, buffer)'
  <2>1. Due' = Due
    BY <1>1 DEF Due
  <2>. QED
    BY <1>1, <2>1 DEF SeenInv, Apart, Held
<1>. QED
  BY <1>1, <1>2, <1>3, NothingSent DEF SeenInv

LEMMA StaysSeen ==
    ASSUME SeenInv, SentWhereSeen, UNCHANGED vars
    PROVE  SeenInv' /\ SentWhereSeen'
<1>1. UNCHANGED <<waiting, toSwitch, toCtl, buffer, table, macToPort, seen, at, out>>
  BY DEF vars, switchVars, wireVars, appVars, ghosts
<1>2. TableAims' /\ MessagesAim' /\ CtlGenuine' /\ BufferGenuine' /\ KnownSeen'
  BY <1>1, AimsStay
<1>3. Apart(Due)' /\ Held(Due, buffer)'
  <2>1. Due' = Due
    BY <1>1 DEF Due
  <2>. QED
    BY <1>1, <2>1 DEF SeenInv, Apart, Held
<1>. QED
  BY <1>1, <1>2, <1>3 DEF SeenInv, SentWhereSeen

LEMMA SeenInit == Init => SeenInv /\ SentWhereSeen
<1>. SUFFICES ASSUME Init PROVE SeenInv /\ SentWhereSeen
  OBVIOUS
<1>1. /\ table = <<>> /\ buffer = <<>> /\ out = <<>> /\ at = Home
      /\ \A c \in Conns : /\ waiting[c] = <<>> /\ toSwitch[c] = <<>> /\ toCtl[c] = <<>>
                          /\ macToPort[c] = <<>>
      /\ DOMAIN macToPort = Conns
  BY DEF Init
<1>2. DOMAIN <<>> = {} /\ Len(<<>>) = 0
  OBVIOUS
<1>3. TableAims /\ BufferGenuine
  BY <1>1, <1>2, EmptyIsSeq DEF TableAims, BufferGenuine
<1>4. MessagesAim /\ CtlGenuine
  BY <1>1, EmptyIsSeq DEF MessagesAim, CtlGenuine
<1>5. KnownSeen /\ at \in [Hosts -> Ports]
  BY <1>1, <1>2, SwitchAssumption DEF KnownSeen
<1>6. Apart(Due) /\ Held(Due, buffer)
  <2>1. \A c \in Conns : DOMAIN Due[c] = {}
    <3>1. ASSUME NEW c \in Conns PROVE DOMAIN Due[c] = {}
      <4>1. Due[c] = NamesIn(<<>>, <<>>, <<>>)
        BY <1>1 DEF Due
      <4>2. DOMAIN NamesIn(<<>>, <<>>, <<>>) = 1 .. 0
        BY <1>2 DEF NamesIn
      <4>. QED
        BY <4>1, <4>2
    <3>. QED
      BY <3>1
  <2>. QED
    BY <2>1 DEF Apart, Held
<1>7. SentWhereSeen
  BY <1>1, <1>2, Zenon DEF SentWhereSeen
<1>. QED
  BY <1>3, <1>4, <1>5, <1>6, <1>7 DEF SeenInv

LEMMA SeenStep ==
    ASSUME RequestsApart, SwitchInv, SeenInv, SentWhereSeen, [Next]_vars
    PROVE  SeenInv' /\ SentWhereSeen'
<1>1. CASE \E h \in Hosts : HostSends(h)
  BY <1>1, HostSeen
<1>2. CASE \E c \in Conns : Handle(c)
  BY <1>2, HandleSeen
<1>3. CASE \E c \in Conns : handle_PacketIn(c)
  BY <1>3, PacketInSeen
<1>4. CASE \E c \in Conns : Request(c)
  BY <1>4, RequestSeen
<1>5. CASE \E c \in Conns : ReadBegins(c)
  BY <1>5, ReadSeen
<1>6. CASE \/ \E h \in Hosts : HostMoves(h)
           \/ \E p \in Ports : PortChanges(p)
           \/ Settle
           \/ \E c \in Conns : add_connection(c)
  BY <1>6, OthersSeen
<1>7. CASE UNCHANGED vars
  BY <1>7, StaysSeen
<1>. QED
  BY <1>1, <1>2, <1>3, <1>4, <1>5, <1>6, <1>7 DEF Next

\* If the other components of the controllers leave the sending to the learning
\* switches (RequestsApart), then a packet for a host that is sent to a port by its
\* number, by an entry of the table or by an answer of a controller, goes where that
\* host has sent from before: _handle_PacketIn learns only from packets that came in
\* there, and neither an answer nor an entry meets a packet of another destination.
THEOREM SentOnlyWhereSeen ==
    ASSUME RequestsApart
    PROVE  Spec => []SentWhereSeen
<1>1. Init => SwitchInv /\ SeenInv /\ SentWhereSeen
  BY SwitchInit, SeenInit
<1>2. SwitchInv /\ SeenInv /\ SentWhereSeen /\ [Next]_vars
        => SwitchInv' /\ SeenInv' /\ SentWhereSeen'
  BY SwitchStep, SeenStep
<1>. QED
  BY <1>1, <1>2, PTL DEF Spec
=============================================================================
