---------------------------- MODULE MCInetAddr ----------------------------
(***************************************************************************)
(* InetAddr for TLC: every text of one to five fields out of a few that     *)
(* matter, and the one claim of its comments that the code does not keep.   *)
(***************************************************************************)
EXTENDS InetAddr

\* "", "7", "256", "0x1f", "011", "08" (8 is no octal digit), "0x100000001"
\* (2^32 + 1), and "2-".
MCFields ==
  { [base |-> 10, digits |-> << >>, junk |-> FALSE],
    [base |-> 10, digits |-> <<7>>, junk |-> FALSE],
    [base |-> 10, digits |-> <<2, 5, 6>>, junk |-> FALSE],
    [base |-> 16, digits |-> <<1, 15>>, junk |-> FALSE],
    [base |-> 8, digits |-> <<1, 1>>, junk |-> FALSE],
    [base |-> 8, digits |-> <<8>>, junk |-> FALSE],
    [base |-> 16, digits |-> <<1, 0, 0, 0, 0, 0, 0, 0, 1>>, junk |-> FALSE],
    [base |-> 10, digits |-> <<2>>, junk |-> TRUE] }

\* "Not enough parts" (netinet.cpp:54): a text of fewer than four is rejected.
TooFewRejected == result # Pending /\ Len(text) < 4 => result = INADDR_NONE
=============================================================================
