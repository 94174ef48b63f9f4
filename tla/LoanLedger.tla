---------------------------- MODULE LoanLedger ----------------------------
(***************************************************************************)
(* What the auto-loan product promises about money, whatever happens to    *)
(* the requests that carry an application along: an application is         *)
(* approved or declined once, only an approved offer is signed, a signed   *)
(* contract is paid out at most once, and a loan is opened only for a      *)
(* signed contract whose pay-out (real in production, skipped in sandbox)  *)
(* took place.                                                             *)
(*                                                                         *)
(* This is the abstract specification that LoanOrigination implements; it  *)
(* speaks of the tables of ob-loan-service and of the bank's ledger, and   *)
(* not of loan_applications.status.                                        *)
(***************************************************************************)
EXTENDS Naturals

CONSTANTS Apps       \* the loan applications

VARIABLES
    verdict,         \* verdict[a]: "none", "approved" or "declined"
    signed,          \* the applications whose contract is signed
    live,            \* live[a]: the application moves real money (production)
    payouts,         \* payouts[a]: transfers from the lending pool for a
    opened           \* the applications whose auto loan is open

lvars == <<verdict, signed, live, payouts, opened>>

Init ==
    /\ verdict = [a \in Apps |-> "none"]
    /\ signed = {}
    /\ live \in [Apps -> BOOLEAN]
    /\ payouts = [a \in Apps |-> 0]
    /\ opened = {}

\* The decision engine gives its verdict on an application, once.
Decide(a) ==
    /\ verdict[a] = "none"
    /\ \E v \in {"approved", "declined"} : verdict' = [verdict EXCEPT ![a] = v]
    /\ UNCHANGED <<signed, live, payouts, opened>>

\* The customer signs an approved offer, once.
Sign(a) ==
    /\ verdict[a] = "approved"
    /\ a \notin signed
    /\ signed' = signed \cup {a}
    /\ UNCHANGED <<verdict, live, payouts, opened>>

\* The principal moves from the lending pool to the dealer, once.
PayOut(a) ==
    /\ a \in signed
    /\ live[a]
    /\ payouts[a] = 0
    /\ payouts' = [payouts EXCEPT ![a] = 1]
    /\ UNCHANGED <<verdict, signed, live, opened>>

\* The loan is opened, once, and in production only after the money moved.
Open(a) ==
    /\ a \in signed
    /\ a \notin opened
    /\ live[a] => payouts[a] = 1
    /\ opened' = opened \cup {a}
    /\ UNCHANGED <<verdict, signed, live, payouts>>

Next == \E a \in Apps : Decide(a) \/ Sign(a) \/ PayOut(a) \/ Open(a)

Spec == Init /\ [][Next]_lvars
===========================================================================
