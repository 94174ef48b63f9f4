----------------------------- MODULE MCClients -----------------------------
(***************************************************************************)
(* The client-side components and the backends they alone use, checked in  *)
(* one run.  They share no state, so a behaviour runs one of them while    *)
(* the others stay in their initial state: the state spaces add up instead *)
(* of multiplying.                                                         *)
(***************************************************************************)
EXTENDS Statements, Aggregators, PortalAccess, TppRegistry, Showroom

VARIABLE part   \* the component that runs

Parts == {"statements", "aggregators", "access", "registry", "showroom"}

(* A component that does not run starts in one of its initial states.      *)
Chosen ==
    /\ part = "statements" \/ app = CHOOSE a \in StatementApps : TRUE
    /\ part = "aggregators" \/ (/\ client = "hisab-mobile"
                                /\ \A m \in Members : record[m] = "none")
    /\ part = "access" \/ viewer = CHOOSE p \in People : TRUE
    /\ part = "registry" \/ caller = CHOOSE p \in Callers : TRUE

Init ==
    /\ part \in Parts
    /\ StatementsInit /\ AggregatorsInit /\ AccessInit /\ RegistryInit /\ ShowroomInit
    /\ Chosen

StatementsRun ==
    /\ part = "statements"
    /\ StatementsNext
    /\ UNCHANGED <<part, aggregatorVars, accessVars, registryVars, showroomVars>>

AggregatorsRun ==
    /\ part = "aggregators"
    /\ AggregatorsNext
    /\ UNCHANGED <<part, statementVars, accessVars, registryVars, showroomVars>>

AccessRun ==
    /\ part = "access"
    /\ AccessNext
    /\ UNCHANGED <<part, statementVars, aggregatorVars, registryVars, showroomVars>>

RegistryRun ==
    /\ part = "registry"
    /\ RegistryNext
    /\ UNCHANGED <<part, statementVars, aggregatorVars, accessVars, showroomVars>>

ShowroomRun ==
    /\ part = "showroom"
    /\ ShowroomNext
    /\ UNCHANGED <<part, statementVars, aggregatorVars, accessVars, registryVars>>

Next == StatementsRun \/ AggregatorsRun \/ AccessRun \/ RegistryRun \/ ShowroomRun

vars == <<part, statementVars, aggregatorVars, accessVars, registryVars, showroomVars>>
Spec == Init /\ [][Next]_vars

(* The state of the component that runs identifies a state: the others     *)
(* have one value each.                                                    *)
Running ==
    CASE part = "statements" -> <<part, statementVars>>
      [] part = "aggregators" -> <<part, aggregatorVars>>
      [] part = "access" -> <<part, accessVars>>
      [] part = "registry" -> <<part, registryVars>>
      [] part = "showroom" -> <<part, showroomVars>>

-----------------------------------------------------------------------------
(* The instance.                                                           *)

(* A salary, purchases that match one category, several or none, transfers *)
(* back and forth, on both sides of the ends of days and months.           *)
MCMatching == [pay |-> {"salary"}, mart |-> {"groceries", "shopping"}, misc |-> {}]
Booking(a, t, dir, amount, text, merchant) ==
    [account |-> a, at |-> t, dir |-> dir, amount |-> amount, text |-> text, merchant |-> merchant]
MCBookings == {
    Booking("a1", 0, "Credit", 4, "pay", "none"),  Booking("a1", 7, "Debit", 1, "mart", "none"),
    Booking("a1", 7, "Credit", 2, "pay", "none"),  Booking("a1", 8, "Debit", 2, "mart", "shop"),
    Booking("a1", 9, "Debit", 1, "misc", "shop"),  Booking("a1", 11, "Credit", 3, "misc", "none"),
    Booking("a1", 12, "Debit", 1, "pay", "none"),  Booking("a1", 13, "Credit", 1, "mart", "shop"),
    Booking("a2", 5, "Credit", 2, "pay", "none"),  Booking("a2", 11, "Debit", 2, "mart", "none"),
    Booking("a2", 13, "Credit", 1, "misc", "none")}

(* A device of one's own and two consents; a shared device and one.        *)
MCHouseholds == {
    [members |-> {"ahmed"}, grants |-> {"g1", "g2"}, apps |-> WebClients \cup {"masroofi-mobile"}],
    [members |-> {"ahmed", "salim"}, grants |-> {"g1"}, apps |-> WebClients \cup {"hisab-mobile"}]}

-----------------------------------------------------------------------------
(* Properties.                                                             *)

(* Every part's state is well-formed; no account is overdrawn and no page  *)
(* shows what was never booked.                                            *)
ClientsTypeOK ==
    /\ StatementsTypeOK /\ AggregatorsTypeOK /\ AccessTypeOK /\ RegistryTypeOK /\ ShowroomTypeOK
=============================================================================
