--------------------------- MODULE MCFpgaManager ---------------------------
(***************************************************************************)
(* Instances of FpgaManager and of its contract for TLC.                   *)
(***************************************************************************)
EXTENDS FpgaContract, TLC

\* An image of two words; a file of that size, one with trailing bytes, one
\* above the limit, and a stream whose callback may return too much, an error,
\* the end or a chunk.
SoleJobs ==
  {[op |-> "configure", len |-> 8], [op |-> "configure", len |-> 10],
   [op |-> "configure", len |-> 16], [op |-> "istream", len |-> 0],
   [op |-> "deassert", len |-> 0]}
SoleReturns == {-1, 0, 4, 12}
SoleMsel == {3, 9}

ResetJobs == SoleJobs \cup {[op |-> "assert", len |-> 0]}

\* A file whose length is no multiple of four.
TailJobs == {[op |-> "configure", len |-> 6]}

FileJobs == {[op |-> "configure", len |-> 8]}

=============================================================================
