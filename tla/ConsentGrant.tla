--------------------------- MODULE ConsentGrant ---------------------------
(***************************************************************************)
(* What a consent is to the customer who gives it: a third party asks for  *)
(* it, one customer grants it or it is refused, and a granted consent ends *)
(* once and for good - used up if it is for a single use, withdrawn, or    *)
(* expired, and that not before its time.                                  *)
(*                                                                         *)
(* ConsentLifecycle, with its database rows, sweepers and stale reads,     *)
(* implements this specification.                                          *)
(***************************************************************************)
CONSTANTS
    Consents,    \* the consents that may be asked for
    Customers,   \* the bank's customers
    NoCustomer   \* the owner of a consent nobody granted

VARIABLES
    asked,       \* the consents a third party has asked for
    owner,       \* owner[c]: the customer who granted c
    ending,      \* ending[c]: how c ended ("open": it has not)
    singleUse,   \* the consents good for one use only
    overdue      \* the consents whose expiration time has passed

gvars == <<asked, owner, ending, singleUse, overdue>>

Granted(c) == owner[c] # NoCustomer
Open(c) == c \in asked /\ ending[c] = "open"

Init ==
    /\ asked = {}
    /\ owner = [c \in Consents |-> NoCustomer]
    /\ ending = [c \in Consents |-> "open"]
    /\ singleUse \in SUBSET Consents
    /\ overdue \in SUBSET Consents

Ask(c) ==
    /\ c \notin asked
    /\ asked' = asked \cup {c}
    /\ UNCHANGED <<owner, ending, singleUse, overdue>>

Grant(c, u) ==
    /\ Open(c) /\ ~Granted(c)
    /\ owner' = [owner EXCEPT ![c] = u]
    /\ UNCHANGED <<asked, ending, singleUse, overdue>>

End(S, how) ==
    /\ \A c \in S : Open(c)
    /\ ending' = [c \in Consents |-> IF c \in S THEN how ELSE ending[c]]
    /\ UNCHANGED <<asked, owner, singleUse, overdue>>

Refuse(c) == ~Granted(c) /\ End({c}, "Rejected")
UseUp(c) == Granted(c) /\ c \in singleUse /\ End({c}, "Consumed")
Withdraw(c) == Granted(c) /\ End({c}, "Revoked")
Expire(S) == S \subseteq overdue /\ (\A c \in S : Granted(c)) /\ End(S, "Expired")

TimePasses(c) ==
    /\ overdue' = overdue \cup {c}
    /\ UNCHANGED <<asked, owner, ending, singleUse>>

Next ==
    \/ \E c \in Consents, u \in Customers : Grant(c, u)
    \/ \E c \in Consents : Ask(c) \/ Refuse(c) \/ UseUp(c) \/ Withdraw(c) \/ TimePasses(c)
    \/ \E S \in SUBSET Consents : Expire(S)

Spec == Init /\ [][Next]_gvars
===========================================================================
