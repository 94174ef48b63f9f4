------------------------- MODULE MCLoanOrigination -------------------------
(* Instances of LoanOrigination for TLC.                                   *)
EXTENDS LoanOrigination, TLC

\* Applications differ only by the environment and amount Init draws, request
\* slots and customers not at all.
Symmetry == Permutations(Apps) \cup Permutations(Requests) \cup Permutations(Customers)
===========================================================================
