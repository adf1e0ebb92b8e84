----------------------------- MODULE MCNomTable -----------------------------
EXTENDS NomTable

\* Three objects for one flow, one of them without a buffer_id, and an exact match
\* inside it, with two-bit addresses.
MCFlow == Match(Wild, Wild, 1, AnyNw)
MCNoBuffer == {Entry(1, MCFlow, <<3>>)}
MCEntries ==
    MCNoBuffer \cup {Entry(1, MCFlow, <<1>>), Entry(1, MCFlow, <<2>>),
                     Entry(1, Match(1, 1, 1, Nw(1, 2)), <<1>>)}
=============================================================================
