----------------------------- MODULE MCIpHeader -----------------------------
(* IpHeader with header words chosen around the carries of the checksum.   *)
EXTENDS IpHeader

\* Lengths below, at and above the header size, and some whose octets read
\* as a small number the other way round.
SomeLens == {1, 20, 28, 256, 5120}
SomeTtls == {0, 1, 2}
SomeAddrs == {2561, 40000 + 49320}
SomePayloads == {1, W - 1}

\* Remaining words such that the sum of a header with length l and TTL t is a
\* multiple of 0xffff, where the checksum is 0, and the sums next to it.
BoundaryRests ==
    {k * (W - 1) - (l + 256 * t + p + 2561) + e :
       l \in {28, ERROR_LEN}, t \in {1, 64}, p \in {ICMP, UDP},
       k \in {1, 2}, e \in {-1, 0, 1}}
SomeRests == BoundaryRests \cup {17664}

=============================================================================
