------------------------------- MODULE Layout -------------------------------
(***************************************************************************)
(* Layouts of binary messages, as struct.pack and struct.unpack_from write *)
(* and read them.  A field is <<name, octets>>; what a pack method writes  *)
(* is the sequence of its fields, what an unpack method reads is a set of  *)
(* places.  The content of a field is not modelled: an octet is identified *)
(* by the field and the message it was packed from, so a read is right     *)
(* exactly when it takes the octets that its field was packed into.        *)
(***************************************************************************)
EXTENDS Integers, Sequences, FiniteSets, SequencesExt, TLC

\* The struct format characters B, H, L (or I) and Q, a string of w octets,
\* and padding.
B(n) == <<n, 1>>
H(n) == <<n, 2>>
L(n) == <<n, 4>>
Q(n) == <<n, 8>>
S(n, w) == <<n, w>>
Pad(w) == <<"pad", w>>

\* The octets that a sequence of fields takes.
Octets(fs) == FoldLeft(LAMBDA a, f : a + f[2], 0, fs)

\* The places a format reads when it is applied at an offset.
Place(n, o, w) == [name |-> n, at |-> o, octets |-> w]
At(o, fs) == {Place(fs[i][1], o + Octets(SubSeq(fs, 1, i - 1)), fs[i][2]) :
                i \in {j \in DOMAIN fs : fs[j][1] # "pad"}}

\* A class: what pack writes, what unpack reads, the number of octets under
\* which unpack gives up, the fixed part of __len__, what the length field
\* says (a constant left by __init__, or Computed by pack from __len__), and
\* what follows the fixed part.
Computed == -1
Class(pack, reads, need, size, length, tail) ==
    [pack |-> pack, reads |-> reads, need |-> need, size |-> size,
     length |-> length, tail |-> tail]

\* An element of a list inside a message: rest is where unpack says the next
\* one starts (Own: at its own length field, which pack does not compute).
Own == -2
Item(pack, reads, need, size, rest) ==
    [pack |-> pack, reads |-> reads, need |-> need, size |-> size, rest |-> rest]
=============================================================================
