-------------------------- MODULE LoanOrigination --------------------------
(***************************************************************************)
(* The life of an auto-loan application in ob-loan-service: a dealer       *)
(* creates it, the customer consents in BD Online, the decision engine     *)
(* prices it, the customer signs, and the signing request disburses the    *)
(* principal through the banking API of ob-consent-service.                *)
(*                                                                         *)
(* Each database transaction is one action.  A request handler is the      *)
(* sequence of the transactions and calls it awaits: between two of them   *)
(* every other handler (two replicas run) may move, and the handler may    *)
(* die (pod restart, an exception nothing catches), leaving what it has    *)
(* committed so far.  A request slot r holds one in-flight                 *)
(* customer-consent or sign request; the handlers that are one transaction *)
(* (create, cancel) need no slot.                                          *)
(*                                                                         *)
(* Abstracted: vehicle, dealer and QR data; the score band and the price   *)
(* of an offer, of which only the monthly instalment is kept, in units of  *)
(* the customer's income; the wording of errors.                           *)
(***************************************************************************)
EXTENDS Naturals, Sequences

CONSTANTS
    Apps,          \* application ids
    Customers,     \* bank customers
    Requests,      \* slots for in-flight customer-consent and sign requests
    NoApp,         \* the application of an idle slot
    NoCustomer,    \* the customer of an application nobody consented to
    MaxInstalment, \* largest monthly instalment a dealer asks for
    DebtCap,       \* max_dbr x income: what a customer may owe per month
    MayDie         \* whether a handler may die before it ends

ASSUME NoAppAssumption == NoApp \notin Apps
ASSUME NoCustomerAssumption == NoCustomer \notin Customers
ASSUME InstalmentAssumption == MaxInstalment \in Nat \ {0} /\ DebtCap \in Nat
ASSUME MayDieAssumption == MayDie \in BOOLEAN

VARIABLES
    status,      \* loan_applications.status ("none": no such row yet)
    customer,    \* loan_applications.customer_id
    env,         \* loan_applications.environment
    wanted,      \* the monthly instalment of the amount the dealer requested
    decision,    \* the loan_decisions row: "none", "approved" or "declined"
    instalment,  \* loan_decisions.monthly_installment (0 unless approved)
    lapsed,      \* loan_decisions.valid_until lies in the past
    contract,    \* contract[a]: a loan_contracts row exists
    disb,        \* loan_disbursements.status ("none": no such row)
    loan,        \* loan[a]: auto_loans and loan_standing_orders rows exist
    debt,        \* debt[c]: the sum of c's active monthly_installments
    moved,       \* transfers the bank executed for the application
    audit,       \* loan_audit_log: the <<previous_state, new_state>> rows
    webhooks,    \* dealer_webhooks rows queued for the application, in order
    req          \* the in-flight requests

vars == <<status, customer, env, wanted, decision, instalment, lapsed, contract,
          disb, loan, debt, moved, audit, webhooks, req>>

Statuses == {"none", "pending_consent", "pending_decision", "decided", "declined",
             "contracted", "disbursed", "cancelled"}
Environments == {"sandbox", "production"}
Events == {"decided", "declined", "contracted", "disbursed"}

\* Where an in-flight request stands.  "seen" is the existing debt that
\* decide() read, "paid" the outcome of the transfer disburse() awaited.
Stages == {"idle", "decide", "score", "announce", "sign", "queue", "transfer", "finalise"}
At(r, stage) == req[r].at = stage
SetRequest(r, stage, a, owed, ok) ==
    req' = [req EXCEPT ![r] = [at |-> stage, app |-> a, seen |-> owed, paid |-> ok]]
GoTo(r, stage, a) == SetRequest(r, stage, a, 0, FALSE)
Finish(r) == SetRequest(r, "idle", NoApp, 0, FALSE)

\* Mutant of Enter: previous and new state swapped in the audit row.
EnterSwapped(a, from, to) ==
    /\ status' = [status EXCEPT ![a] = to]
    /\ audit' = [audit EXCEPT ![a] = Append(@, <<to, from>>)]

\* UPDATE loan_applications SET status, with the audit row written beside it.
Enter(a, from, to) ==
    /\ status' = [status EXCEPT ![a] = to]
    /\ audit' = [audit EXCEPT ![a] = Append(@, <<from, to>>)]

\* INSERT INTO dealer_webhooks.  A registered dealer has a webhook_url.
Queue(a, event) == webhooks' = [webhooks EXCEPT ![a] = Append(@, event)]

Init ==
    /\ status = [a \in Apps |-> "none"]
    /\ customer = [a \in Apps |-> NoCustomer]
    /\ env \in [Apps -> Environments]
    /\ wanted \in [Apps -> 1..MaxInstalment]
    /\ decision = [a \in Apps |-> "none"]
    /\ instalment = [a \in Apps |-> 0]
    /\ lapsed = [a \in Apps |-> FALSE]
    /\ contract = [a \in Apps |-> FALSE]
    /\ disb = [a \in Apps |-> "none"]
    /\ loan = [a \in Apps |-> FALSE]
    /\ debt = [c \in Customers |-> 0]
    /\ moved = [a \in Apps |-> 0]
    /\ audit = [a \in Apps |-> <<>>]
    /\ webhooks = [a \in Apps |-> <<>>]
    /\ req = [r \in Requests |-> [at |-> "idle", app |-> NoApp, seen |-> 0, paid |-> FALSE]]

----------------------------------------------------------------------------
(* The dealer's requests, one transaction each.                            *)

\* application_service.create_application.  Environment and amount of the
\* request are the values Init drew for the id the service will give it.
CreateApplication(a) ==
    /\ status[a] = "none"
    /\ Enter(a, "none", "pending_consent")
    /\ UNCHANGED <<customer, env, wanted, decision, instalment, lapsed, contract,
                   disb, loan, debt, moved, webhooks, req>>

\* Mutant of Cancellable: "disbursed" forgotten in the list of final states.
CancellableEvenDisbursed(s) == s \notin {"none", "cancelled"}

\* The states application_service.cancel_application does not refuse.
Cancellable(s) == s \notin {"none", "disbursed", "cancelled"}

\* application_service.cancel_application: SELECT ... FOR UPDATE, the check
\* and the UPDATE are one transaction.  No webhook row is written.
CancelApplication(a) ==
    /\ Cancellable(status[a])
    /\ Enter(a, status[a], "cancelled")
    /\ UNCHANGED <<customer, env, wanted, decision, instalment, lapsed, contract,
                   disb, loan, debt, moved, webhooks, req>>

----------------------------------------------------------------------------
(* POST /internal/v1/loan-applications/{id}/customer-consent               *)

\* Mutants of Consentable: a repeated consent is accepted; the state is not
\* checked at all; a cancelled application may be consented to.
ConsentableTwice(s) == s \in {"pending_consent", "pending_decision"}
ConsentableAlways(s) == s # "none"
ConsentableCancelled(s) == s \in {"pending_consent", "cancelled"}

\* The WHERE clause of customer_consent's UPDATE.
Consentable(s) == s = "pending_consent"

\* The UPDATE ... WHERE status = 'pending_consent' binds the customer.  It
\* writes no audit row.  A request that finds another status ends with 404.
CustomerConsent(r, a, c) ==
    /\ At(r, "idle")
    /\ Consentable(status[a])
    /\ status' = [status EXCEPT ![a] = "pending_decision"]
    /\ customer' = [customer EXCEPT ![a] = c]
    /\ GoTo(r, "decide", a)
    /\ UNCHANGED <<env, wanted, decision, instalment, lapsed, contract, disb, loan,
                   debt, moved, audit, webhooks>>

\* decide() up to its transaction: the row lock of its SELECT ... FOR UPDATE
\* ends with that statement, outside any transaction; then affordability reads
\* the existing debt.  A decision that exists already is returned as it is.
DecideRead(r) ==
    LET a == req[r].app IN
    /\ At(r, "decide")
    /\ IF decision[a] = "none"
       THEN SetRequest(r, "score", a, debt[customer[a]], FALSE)
       ELSE GoTo(r, "announce", a)
    /\ UNCHANGED <<status, customer, env, wanted, decision, instalment, lapsed,
                   contract, disb, loan, debt, moved, audit, webhooks>>

\* The instalments the engine may offer against the debt it has read: never
\* over what was asked (the 5% shrink steps and the income multiple lower it),
\* never over the cap.  It may always decline instead (income, score, bureau
\* default, twenty shrink steps without a fit).
Offers(want, owed) == {m \in 1..want : owed + m <= DebtCap}

\* decide()'s transaction: INSERT loan_decisions (unique per application) and
\* an unconditional UPDATE of the status, with previous_state hard-coded.
DecideCommit(r) ==
    LET a == req[r].app IN
    /\ At(r, "score")
    /\ decision[a] = "none"
    /\ \/ /\ decision' = [decision EXCEPT ![a] = "declined"]
          /\ Enter(a, "pending_decision", "declined")
          /\ UNCHANGED instalment
       \/ \E m \in Offers(wanted[a], req[r].seen) :
          /\ decision' = [decision EXCEPT ![a] = "approved"]
          /\ instalment' = [instalment EXCEPT ![a] = m]
          /\ Enter(a, "pending_decision", "decided")
    /\ GoTo(r, "announce", a)
    /\ UNCHANGED <<customer, env, wanted, lapsed, contract, disb, loan, debt, moved,
                   webhooks>>

\* Mutant of EnqueueDecisionWebhook: only offers are announced.
EnqueueApprovalWebhook(r) ==
    LET a == req[r].app IN
    /\ At(r, "announce")
    /\ IF decision[a] = "approved" THEN Queue(a, "decided") ELSE UNCHANGED webhooks
    /\ Finish(r)
    /\ UNCHANGED <<status, customer, env, wanted, decision, instalment, lapsed,
                   contract, disb, loan, debt, moved, audit>>

\* _enqueue_decision_webhook, a transaction of its own after decide().
EnqueueDecisionWebhook(r) ==
    LET a == req[r].app IN
    /\ At(r, "announce")
    /\ Queue(a, IF decision[a] = "approved" THEN "decided" ELSE "declined")
    /\ Finish(r)
    /\ UNCHANGED <<status, customer, env, wanted, decision, instalment, lapsed,
                   contract, disb, loan, debt, moved, audit>>

\* The clock passes loan_decisions.valid_until.
OfferLapses(a) ==
    /\ decision[a] = "approved"
    /\ ~lapsed[a]
    /\ lapsed' = [lapsed EXCEPT ![a] = TRUE]
    /\ UNCHANGED <<status, customer, env, wanted, decision, instalment, contract,
                   disb, loan, debt, moved, audit, webhooks, req>>

----------------------------------------------------------------------------
(* POST /internal/v1/loan-applications/{id}/sign                           *)

\* What contract_service.sign_contract checks before it answers: the offer is
\* approved, not withdrawn and still valid, and nobody has signed it yet (a
\* second call returns the existing contract and does nothing more).
Signable(a) ==
    /\ decision[a] = "approved"
    /\ status[a] \in {"decided", "contracted"}
    /\ ~lapsed[a]
    /\ ~contract[a]

SignRead(r, a) ==
    /\ At(r, "idle")
    /\ Signable(a)
    /\ GoTo(r, "sign", a)
    /\ UNCHANGED <<status, customer, env, wanted, decision, instalment, lapsed,
                   contract, disb, loan, debt, moved, audit, webhooks>>

\* Mutant of SignCommit: the disbursement is not triggered.
SignCommitOnly(r) ==
    LET a == req[r].app IN
    /\ At(r, "sign")
    /\ ~contract[a]
    /\ contract' = [contract EXCEPT ![a] = TRUE]
    /\ Enter(a, "decided", "contracted")
    /\ Queue(a, "contracted")
    /\ Finish(r)
    /\ UNCHANGED <<customer, env, wanted, decision, instalment, lapsed, disb, loan,
                   debt, moved>>

\* sign_contract's transaction, later: INSERT loan_contracts (unique per
\* application), the unconditional UPDATE of the status, the audit row with
\* previous_state hard-coded and the dealer's webhook.
SignCommit(r) ==
    LET a == req[r].app IN
    /\ At(r, "sign")
    /\ ~contract[a]
    /\ contract' = [contract EXCEPT ![a] = TRUE]
    /\ Enter(a, "decided", "contracted")
    /\ Queue(a, "contracted")
    /\ GoTo(r, "queue", a)
    /\ UNCHANGED <<customer, env, wanted, decision, instalment, lapsed, disb, loan,
                   debt, moved>>

\* The INSERT of the slower of two signers hits the unique constraint: its
\* transaction is rolled back and the request ends with an error.
SignLosesRace(r) ==
    /\ At(r, "sign")
    /\ contract[req[r].app]
    /\ Finish(r)
    /\ UNCHANGED <<status, customer, env, wanted, decision, instalment, lapsed,
                   contract, disb, loan, debt, moved, audit, webhooks>>

\* disburse() up to the row that announces the transfer (unique per contract).
\* What it reads before (contract, decision, the dealer's account) no longer
\* changes, and only the request that inserted the contract gets here.  Its
\* audit row, disbursement.queued, carries no state.
QueueDisbursement(r) ==
    LET a == req[r].app IN
    /\ At(r, "queue")
    /\ disb[a] = "none"
    /\ disb' = [disb EXCEPT ![a] = "pending"]
    /\ GoTo(r, "transfer", a)
    /\ UNCHANGED <<status, customer, env, wanted, decision, instalment, lapsed,
                   contract, loan, debt, moved, audit, webhooks>>

\* Mutants of ExecuteTransfer: a call that got no answer is sent again; a call
\* that got no answer is taken for a refusal.
ExecuteTransferRetrying(r) ==
    LET a == req[r].app IN
    /\ At(r, "transfer")
    /\ env[a] = "production"
    /\ moved[a] < 3
    /\ moved' = [moved EXCEPT ![a] = @ + 1]
    /\ \/ SetRequest(r, "finalise", a, 0, TRUE)
       \/ UNCHANGED req
    /\ UNCHANGED <<status, customer, env, wanted, decision, instalment, lapsed,
                   contract, disb, loan, debt, audit, webhooks>>

ExecuteTransferTimingOut(r) ==
    LET a == req[r].app IN
    /\ At(r, "transfer")
    /\ env[a] = "production"
    /\ moved' = [moved EXCEPT ![a] = @ + 1]
    /\ \E answered \in BOOLEAN : SetRequest(r, "finalise", a, 0, answered)
    /\ UNCHANGED <<status, customer, env, wanted, decision, instalment, lapsed,
                   contract, disb, loan, debt, audit, webhooks>>

\* banking_client.execute_transfer answered 200 or 201: the bank has moved the
\* money.  The answer may still be lost: the handler then dies here.
ExecuteTransfer(r) ==
    LET a == req[r].app IN
    /\ At(r, "transfer")
    /\ env[a] = "production"
    /\ moved' = [moved EXCEPT ![a] = @ + 1]
    /\ SetRequest(r, "finalise", a, 0, TRUE)
    /\ UNCHANGED <<status, customer, env, wanted, decision, instalment, lapsed,
                   contract, disb, loan, debt, audit, webhooks>>

\* The bank refused (insufficient funds, unknown account): BankingClientError.
RefuseTransfer(r) ==
    /\ At(r, "transfer")
    /\ env[req[r].app] = "production"
    /\ GoTo(r, "finalise", req[r].app)
    /\ UNCHANGED <<status, customer, env, wanted, decision, instalment, lapsed,
                   contract, disb, loan, debt, moved, audit, webhooks>>

\* Mutant of SimulateTransfer: the environment is not looked at.
SimulateTransferAlways(r) ==
    /\ At(r, "transfer")
    /\ SetRequest(r, "finalise", req[r].app, 0, TRUE)
    /\ UNCHANGED <<status, customer, env, wanted, decision, instalment, lapsed,
                   contract, disb, loan, debt, moved, audit, webhooks>>

\* In sandbox the transfer is only simulated.
SimulateTransfer(r) ==
    /\ At(r, "transfer")
    /\ env[req[r].app] = "sandbox"
    /\ SetRequest(r, "finalise", req[r].app, 0, TRUE)
    /\ UNCHANGED <<status, customer, env, wanted, decision, instalment, lapsed,
                   contract, disb, loan, debt, moved, audit, webhooks>>

\* Mutant of Owe: the instalment is taken off.
OweLess(c, m) == debt' = [debt EXCEPT ![c] = @ - m]

\* The auto_loans row and its standing order add to what _estimate_debt sums.
Owe(c, m) == debt' = [debt EXCEPT ![c] = @ + m]

\* disburse()'s last transaction after a transfer that went through: the
\* disbursement, the loan with its standing order, the unconditional UPDATE of
\* the status, the audit row with previous_state hard-coded, the webhook.
CompleteDisbursement(r) ==
    LET a == req[r].app IN
    /\ At(r, "finalise")
    /\ req[r].paid
    /\ disb' = [disb EXCEPT ![a] = "completed"]
    /\ loan' = [loan EXCEPT ![a] = TRUE]
    /\ Owe(customer[a], instalment[a])
    /\ Enter(a, "contracted", "disbursed")
    /\ Queue(a, "disbursed")
    /\ Finish(r)
    /\ UNCHANGED <<customer, env, wanted, decision, instalment, lapsed, contract, moved>>

\* The same transaction after a refusal touches the disbursement only: the
\* application stays contracted, and nothing tries the transfer again.
FailDisbursement(r) ==
    /\ At(r, "finalise")
    /\ ~req[r].paid
    /\ disb' = [disb EXCEPT ![req[r].app] = "failed"]
    /\ Finish(r)
    /\ UNCHANGED <<status, customer, env, wanted, decision, instalment, lapsed,
                   contract, loan, debt, moved, audit, webhooks>>

\* The handler ends early: its pod is stopped, or an exception nothing catches
\* (an httpx timeout, a lost database connection, no account for the customer
\* or the dealer).  A transaction under way is rolled back, the earlier ones
\* stay, and no job looks for what was left undone.
RequestDies(r) ==
    /\ MayDie
    /\ ~At(r, "idle")
    /\ Finish(r)
    /\ UNCHANGED <<status, customer, env, wanted, decision, instalment, lapsed,
                   contract, disb, loan, debt, moved, audit, webhooks>>

----------------------------------------------------------------------------
\* What an in-flight request does next of its own.
Proceed(r) ==
    \/ DecideRead(r) \/ DecideCommit(r) \/ EnqueueDecisionWebhook(r)
    \/ SignCommit(r) \/ SignLosesRace(r) \/ QueueDisbursement(r)
    \/ ExecuteTransfer(r) \/ RefuseTransfer(r) \/ SimulateTransfer(r)
    \/ CompleteDisbursement(r) \/ FailDisbursement(r)

Next ==
    \/ \E a \in Apps : CreateApplication(a) \/ CancelApplication(a) \/ OfferLapses(a)
    \/ \E r \in Requests, a \in Apps : SignRead(r, a)
    \/ \E r \in Requests, a \in Apps, c \in Customers : CustomerConsent(r, a, c)
    \/ \E r \in Requests : Proceed(r) \/ RequestDies(r)

\* A handler that is not killed runs to its end: the event loop resumes it and
\* every call it awaits has a timeout.  Nobody is obliged to send a request.
Fairness == \A r \in Requests : WF_vars(Proceed(r))

Spec == Init /\ [][Next]_vars
FairSpec == Spec /\ Fairness

----------------------------------------------------------------------------
(* Properties                                                              *)

Verdicts == {"none", "approved", "declined"}
DisbursementStates == {"none", "pending", "completed", "failed"}
RequestType == [at : Stages, app : Apps \cup {NoApp}, seen : Nat, paid : BOOLEAN]

\* Every variable has its type, and a busy slot works on an application.
TypeOK ==
    /\ status \in [Apps -> Statuses]
    /\ customer \in [Apps -> Customers \cup {NoCustomer}]
    /\ env \in [Apps -> Environments]
    /\ wanted \in [Apps -> 1..MaxInstalment]
    /\ decision \in [Apps -> Verdicts]
    /\ instalment \in [Apps -> Nat]
    /\ lapsed \in [Apps -> BOOLEAN]
    /\ contract \in [Apps -> BOOLEAN]
    /\ disb \in [Apps -> DisbursementStates]
    /\ loan \in [Apps -> BOOLEAN]
    /\ debt \in [Customers -> Nat]
    /\ moved \in [Apps -> Nat]
    /\ audit \in [Apps -> Seq(Statuses \X Statuses)]
    /\ webhooks \in [Apps -> Seq(Events)]
    /\ req \in [Requests -> RequestType]
    /\ \A r \in Requests : ~At(r, "idle") => req[r].app \in Apps

\* The principal leaves the lending pool at most once per application, and
\* never in sandbox, however many sign requests race, are repeated or die: the
\* unique rows of loan_contracts and loan_disbursements are what prevents it.
PaidAtMostOnce ==
    \A a \in Apps : moved[a] <= (IF env[a] = "production" THEN 1 ELSE 0)

\* Money that moved is on the books: its disbursement is completed, or still
\* pending because the handler has not finished or died; it is never absent
\* and never recorded as failed.
MovedMoneyIsRecorded ==
    \A a \in Apps : moved[a] > 0 => contract[a] /\ disb[a] \in {"pending", "completed"}

\* The status 'disbursed', the open loan and the completed disbursement (in
\* production: with the money moved) are three tables that always agree, though
\* three unconditional UPDATEs and a cancel write the status.
DisbursedMeansFundedLoan ==
    \A a \in Apps :
        /\ status[a] = "disbursed" <=> loan[a]
        /\ loan[a] <=> disb[a] = "completed"
        /\ loan[a] => contract[a] /\ (env[a] = "production" => moved[a] = 1)

\* The dealer is told of each event at most once and only of events that took
\* place, in whatever order the handlers queue them.
WebhooksTellTheTruth ==
    \A a \in Apps :
        /\ \A i, j \in DOMAIN webhooks[a] : webhooks[a][i] = webhooks[a][j] => i = j
        /\ \A i \in DOMAIN webhooks[a] :
            CASE webhooks[a][i] = "decided" -> decision[a] = "approved"
              [] webhooks[a][i] = "declined" -> decision[a] = "declined"
              [] webhooks[a][i] = "contracted" -> contract[a]
              [] webhooks[a][i] = "disbursed" -> loan[a]

\* The newest row of loan_audit_log names the current status, except while a
\* decision is pending: customer-consent writes no row.
AuditEndsAtStatus ==
    \A a \in Apps :
        \/ status[a] \in {"none", "pending_decision"}
        \/ audit[a] # <<>> /\ audit[a][Len(audit[a])][2] = status[a]

Rank == [s \in Statuses |->
    CASE s = "none" -> 0 [] s = "pending_consent" -> 1 [] s = "pending_decision" -> 2
      [] s \in {"decided", "declined"} -> 3 [] s = "contracted" -> 4
      [] s \in {"disbursed", "cancelled"} -> 5]

\* Apart from the return of a cancelled application, a status only moves
\* forward, and 'disbursed' and 'declined' lead nowhere but, for 'declined',
\* to a cancellation.
StatusMovesForward ==
    [][\A a \in Apps :
        \/ status'[a] = status[a]
        \/ status[a] = "cancelled"
        \/ /\ Rank[status[a]] < Rank[status'[a]]
           /\ status[a] = "declined" => status'[a] = "cancelled"]_status

\* A cancelled application comes back to life only through a request that was
\* already in flight; once those have ended, the cancellation is final.
OnlyInFlightRequestsRevive ==
    [][\A a \in Apps :
        status[a] = "cancelled" /\ status'[a] # "cancelled"
            => \E r \in Requests : req[r].app = a]_vars

\* The tables implement the abstract promise LoanLedger, whatever the status
\* column says.
Ledger == INSTANCE LoanLedger WITH
    verdict <- decision,
    signed <- {a \in Apps : contract[a]},
    live <- [a \in Apps |-> env[a] = "production"],
    payouts <- moved,
    opened <- {a \in Apps : loan[a]}

ImplementsLedger == Ledger!Spec

\* While no handler dies, an application whose customer consented is decided,
\* even when the dealer cancels it meanwhile, and the dealer is told.
ConsentLeadsToDecision ==
    \A a \in Apps :
        status[a] = "pending_decision" ~>
            \E i \in DOMAIN webhooks[a] : webhooks[a][i] \in {"decided", "declined"}

\* While no handler dies, a signed contract is settled: disbursed or failed.
ContractIsSettled ==
    \A a \in Apps : contract[a] ~> disb[a] \in {"completed", "failed"}

\* migrations/001_initial.sql names no transition that leaves 'cancelled'.
CancelledIsFinal ==
    [][\A a \in Apps : status[a] = "cancelled" => status'[a] = "cancelled"]_status

\* config.py: max_dbr is a "50% Debt-Burden-Ratio cap": what a customer owes
\* per month on the loans this service opened stays under it.
DebtStaysUnderCap == \A c \in Customers : debt[c] <= DebtCap
===========================================================================
