--------------------------- MODULE MCBridgeAccess ---------------------------
\* Offsets at the edges of the bridges, of a page and of 32 bits; lengths of a dump up to
\* and beyond the 280 rows it may have.
EXTENDS BridgeAccess

EdgeOffsets == {0, 1, 1020, 1022, 524287, 524288, 3670016, 251658239, 251658240, 1073741820}
EdgeEnds == {0, 1, 4, 1024, 1120, 1124}

\* Registers of all zeros, of all ones, and with one bit of the lowest eight set.
FileOf(g, set) == [r \in DOMAIN Registers |-> IF r \in g THEN set ELSE {}]
SingleFiles ==
  {FileOf(g, 0..31) : g \in {{}, DOMAIN Registers}} \cup
  {FileOf({r}, {b}) : r \in DOMAIN Registers, b \in 0..7}

\* For the command lines of the bridge tools only: one register file, all zeros.
NoFiles == {FileOf({}, {})}

=============================================================================
