-------------------------- MODULE ConsentLifecycle --------------------------
(***************************************************************************)
(* The consents of ob-consent-service.  A TPP creates a consent, the       *)
(* customer authorises or rejects it in the banking app, the TPP or the    *)
(* customer revokes it, a payment consumes it, and it expires: by a sweep  *)
(* that every replica runs, or when a validation finds it past its time.   *)
(*                                                                         *)
(* Create, authorise, reject, revoke and consume are one transaction each: *)
(* they lock the row (SELECT ... FOR UPDATE), check the transition and     *)
(* write the row and its history.  A sweep takes `now' before its          *)
(* transaction, and a validation reads the consent in one connection and   *)
(* expires it in another: between the two every other action may happen.   *)
(*                                                                         *)
(* Abstracted: permissions, accounts, payment and risk data, the instants  *)
(* of the timestamps (only whether the expiration has passed is kept).     *)
(***************************************************************************)
EXTENDS Naturals, Sequences

CONSTANTS
    Consents,     \* consent ids
    Customers,    \* bank customers
    Validations,  \* slots for in-flight validate requests
    Sweepers,     \* replicas, each with its expiration worker
    NoConsent,    \* the consent of an idle slot
    NoCustomer,   \* customer_id of a consent nobody authorised
    Asleep        \* the sweep of a worker that sleeps

ASSUME NoConsentAssumption == NoConsent \notin Consents
ASSUME NoCustomerAssumption == NoCustomer \notin Customers
ASSUME AsleepAssumption == \A S \in SUBSET Consents : Asleep # S

VARIABLES
    status,       \* consents.status ("none": no such row yet)
    customer,     \* consents.customer_id
    oneTime,      \* oneTime[c]: consent_type is in ONE_TIME_CONSENT_TYPES
    deadline,     \* expiration_time: "never" (NULL), "ahead" or "passed"
    history,      \* consent_history: the <<previous_status, new_status>> rows
    stale,        \* stale[v]: the consent validation v found past its time
    sweep         \* sweep[w]: the ids past their time at w's `now', or Asleep

vars == <<status, customer, oneTime, deadline, history, stale, sweep>>

Statuses == {"none", "AwaitingAuthorisation", "Authorised", "Rejected", "Consumed",
             "Revoked", "Expired"}
Terminal == {"Rejected", "Consumed", "Revoked", "Expired"}
Deadlines == {"never", "ahead", "passed"}

\* state_machine._TRANSITIONS, and the insertion of a row.
Transitions ==
    {<<"none", "AwaitingAuthorisation">>,
     <<"AwaitingAuthorisation", "Authorised">>, <<"AwaitingAuthorisation", "Rejected">>,
     <<"Authorised", "Consumed">>, <<"Authorised", "Revoked">>, <<"Authorised", "Expired">>}

\* validate_transition, the UPDATE of the row and its row in consent_history.
Move(c, to) ==
    /\ <<status[c], to>> \in Transitions
    /\ status' = [status EXCEPT ![c] = to]
    /\ history' = [history EXCEPT ![c] = Append(@, <<status[c], to>>)]

\* A create request may carry an expiration_time that has passed already.
Init ==
    /\ status = [c \in Consents |-> "none"]
    /\ customer = [c \in Consents |-> NoCustomer]
    /\ oneTime \in [Consents -> BOOLEAN]
    /\ deadline \in [Consents -> Deadlines]
    /\ history = [c \in Consents |-> <<>>]
    /\ stale = [v \in Validations |-> NoConsent]
    /\ sweep = [w \in Sweepers |-> Asleep]

----------------------------------------------------------------------------
(* Requests of TPPs and customers                                          *)

CreateConsent(c) ==
    /\ Move(c, "AwaitingAuthorisation")
    /\ UNCHANGED <<customer, oneTime, deadline, stale, sweep>>

\* Mutant of AuthorizeConsent: the customer is not bound.
AuthorizeUnbound(c, u) ==
    /\ Move(c, "Authorised")
    /\ UNCHANGED <<customer, oneTime, deadline, stale, sweep>>

\* authorize_consent does not look at expiration_time.
AuthorizeConsent(c, u) ==
    /\ Move(c, "Authorised")
    /\ customer' = [customer EXCEPT ![c] = u]
    /\ UNCHANGED <<oneTime, deadline, stale, sweep>>

RejectConsent(c) ==
    /\ Move(c, "Rejected")
    /\ UNCHANGED <<customer, oneTime, deadline, stale, sweep>>

\* Mutant of RevokeConsent: the history row is written outside the
\* transaction, and lost.
RevokeUnrecorded(c) ==
    /\ <<status[c], "Revoked">> \in Transitions
    /\ status' = [status EXCEPT ![c] = "Revoked"]
    /\ UNCHANGED <<customer, oneTime, deadline, history, stale, sweep>>

RevokeConsent(c) ==
    /\ Move(c, "Revoked")
    /\ UNCHANGED <<customer, oneTime, deadline, stale, sweep>>

ConsumeConsent(c) ==
    /\ oneTime[c]
    /\ Move(c, "Consumed")
    /\ UNCHANGED <<customer, oneTime, deadline, stale, sweep>>

----------------------------------------------------------------------------
(* Expiration                                                              *)

DeadlinePasses(c) ==
    /\ deadline[c] = "ahead"
    /\ deadline' = [deadline EXCEPT ![c] = "passed"]
    /\ UNCHANGED <<status, customer, oneTime, history, stale, sweep>>

\* validate_consent read an Authorised consent past its time.  With any other
\* row it answers and writes nothing.
ValidateStale(v, c) ==
    /\ stale[v] = NoConsent
    /\ status[c] = "Authorised"
    /\ deadline[c] = "passed"
    /\ stale' = [stale EXCEPT ![v] = c]
    /\ UNCHANGED <<status, customer, oneTime, deadline, history, sweep>>

\* Mutant of ExpireSingle: no condition on the status in the UPDATE.
ExpireAnyStatus(v) ==
    LET c == stale[v] IN
    /\ c # NoConsent
    /\ status' = [status EXCEPT ![c] = "Expired"]
    /\ history' = [history EXCEPT ![c] = Append(@, <<"Authorised", "Expired">>)]
    /\ stale' = [stale EXCEPT ![v] = NoConsent]
    /\ UNCHANGED <<customer, oneTime, deadline, sweep>>

\* _expire_single, later: UPDATE ... WHERE status = 'Authorised', and a history
\* row with hard-coded statuses whether or not the UPDATE found the row so.
ExpireSingle(v) ==
    LET c == stale[v] IN
    /\ c # NoConsent
    /\ IF status[c] = "Authorised" THEN status' = [status EXCEPT ![c] = "Expired"]
                                   ELSE UNCHANGED status
    /\ history' = [history EXCEPT ![c] = Append(@, <<"Authorised", "Expired">>)]
    /\ stale' = [stale EXCEPT ![v] = NoConsent]
    /\ UNCHANGED <<customer, oneTime, deadline, sweep>>

\* The request dies, or _expire_single raises and the exception is swallowed.
ExpireSingleFails(v) ==
    /\ stale[v] # NoConsent
    /\ stale' = [stale EXCEPT ![v] = NoConsent]
    /\ UNCHANGED <<status, customer, oneTime, deadline, history, sweep>>

\* Mutant of SweepStarts: the comparison with now is reversed.
SweepStartsReversed(w) ==
    /\ sweep[w] = Asleep
    /\ sweep' = [sweep EXCEPT ![w] = {c \in Consents : deadline[c] = "ahead"}]
    /\ UNCHANGED <<status, customer, oneTime, deadline, history, stale>>

\* expire_stale_consents takes `now' before it acquires a connection.
SweepStarts(w) ==
    /\ sweep[w] = Asleep
    /\ sweep' = [sweep EXCEPT ![w] = {c \in Consents : deadline[c] = "passed"}]
    /\ UNCHANGED <<status, customer, oneTime, deadline, history, stale>>

\* The transaction: one UPDATE ... RETURNING, a history row for each id of it.
SweepCommits(w) ==
    LET due == {c \in Consents : status[c] = "Authorised" /\ c \in sweep[w]} IN
    /\ sweep[w] # Asleep
    /\ status' = [c \in Consents |-> IF c \in due THEN "Expired" ELSE status[c]]
    /\ history' = [c \in Consents |->
           IF c \in due THEN Append(history[c], <<"Authorised", "Expired">>) ELSE history[c]]
    /\ sweep' = [sweep EXCEPT ![w] = Asleep]
    /\ UNCHANGED <<customer, oneTime, deadline, stale>>

\* An exception (a lost connection) or a restart ends the sweep; expiration_loop
\* logs it, or is started anew, and sweeps again.
SweepFails(w) ==
    /\ sweep[w] # Asleep
    /\ sweep' = [sweep EXCEPT ![w] = Asleep]
    /\ UNCHANGED <<status, customer, oneTime, deadline, history, stale>>

----------------------------------------------------------------------------
Next ==
    \/ \E c \in Consents : \/ CreateConsent(c) \/ RejectConsent(c) \/ RevokeConsent(c)
                           \/ ConsumeConsent(c) \/ DeadlinePasses(c)
    \/ \E c \in Consents, u \in Customers : AuthorizeConsent(c, u)
    \/ \E v \in Validations, c \in Consents : ValidateStale(v, c)
    \/ \E v \in Validations : ExpireSingle(v) \/ ExpireSingleFails(v)
    \/ \E w \in Sweepers : SweepStarts(w) \/ SweepCommits(w) \/ SweepFails(w)

\* expiration_loop never ends and survives every exception; a sweep may fail,
\* but not every sweep does.  Nobody is obliged to send a request.
Fairness ==
    \A w \in Sweepers : WF_vars(SweepStarts(w)) /\ SF_vars(SweepCommits(w))

Spec == Init /\ [][Next]_vars
FairSpec == Spec /\ Fairness

----------------------------------------------------------------------------
(* Properties                                                              *)

\* Every variable has its type, and a consent that was ever authorised is
\* bound to a customer.
TypeOK ==
    /\ status \in [Consents -> Statuses]
    /\ customer \in [Consents -> Customers \cup {NoCustomer}]
    /\ oneTime \in [Consents -> BOOLEAN]
    /\ deadline \in [Consents -> Deadlines]
    /\ history \in [Consents -> Seq(Statuses \X Statuses)]
    /\ stale \in [Validations -> Consents \cup {NoConsent}]
    /\ sweep \in [Sweepers -> (SUBSET Consents) \cup {Asleep}]
    /\ \A c \in Consents :
        customer[c] \in Customers <=> status[c] \in {"Authorised"} \cup (Terminal \ {"Rejected"})

\* rows tell of a consent of status s how it got there: the first row that
\* ends it names s, and all that follow are the extra EXPIRED rows of
\* validations that came too late; before the end the newest row names s.
Explains(rows, s) ==
    LET ends == {i \in DOMAIN rows : rows[i][2] \in Terminal} IN
    IF ends = {}
    THEN IF rows = <<>> THEN s = "none" ELSE rows[Len(rows)][2] = s
    ELSE \E first \in ends :
            /\ rows[first][2] = s
            /\ \A i \in DOMAIN rows : i > first => rows[i] = <<"Authorised", "Expired">>

\* The history of every consent explains its status, whatever validations and
\* sweeps raced with its end (record_event is called in the transaction that
\* writes the row).
HistoryExplainsStatus == \A c \in Consents : Explains(history[c], status[c])

\* The rows implement the abstract life of a consent: granted by one customer,
\* ended once and for good, expired only when its time has passed, though
\* sweeps and validations act on what they read earlier.
Grant == INSTANCE ConsentGrant WITH
    asked <- {c \in Consents : status[c] # "none"},
    owner <- customer,
    ending <- [c \in Consents |-> IF status[c] \in Terminal THEN status[c] ELSE "open"],
    singleUse <- {c \in Consents : oneTime[c]},
    overdue <- {c \in Consents : deadline[c] = "passed"}

ImplementsGrant == Grant!Spec

\* README.md:9 of the service: it "automatically expires stale consents".  An
\* authorised consent past its time ends, even if nobody validates it and
\* sweeps fail now and then.
StaleConsentsEnd ==
    \A c \in Consents :
        status[c] = "Authorised" /\ deadline[c] = "passed" ~> status[c] \in Terminal

\* audit_service.py: consent_history is written "for every state-changing
\* event": each row starts where the row before it ended, and the newest row
\* names the current status.
HistoryIsAPath ==
    \A c \in Consents :
        LET rows == history[c] IN
        /\ \A i \in DOMAIN rows : rows[i][1] = IF i = 1 THEN "none" ELSE rows[i - 1][2]
        /\ rows # <<>> => rows[Len(rows)][2] = status[c]
=============================================================================
