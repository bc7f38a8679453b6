---------------------------- MODULE MCFpgaBeside ----------------------------
\* One tool that loads a file of an image's size or a longer one, and the fabric clear.
EXTENDS FpgaBeside

BesideJobs == {[op |-> "configure", len |-> 8], [op |-> "configure", len |-> 12]}
BesideReturns == {0, 4}

=============================================================================
