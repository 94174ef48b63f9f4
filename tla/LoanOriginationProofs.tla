----------------------- MODULE LoanOriginationProofs -----------------------
(***************************************************************************)
(* Proofs about LoanOrigination for any number of applications, customers  *)
(* and request slots, any amounts, and whether or not handlers die: its    *)
(* types; its money, what moves and what is recorded; that the tables      *)
(* implement LoanLedger; and an application's history: what the dealer is  *)
(* told, what the audit trail says, and where the status may go.           *)
(***************************************************************************)
EXTENDS LoanOrigination, TLAPS

----------------------------------------------------------------------------
(* Type correctness                                                        *)

\* The debt a decision reads and a disbursement adds to belongs to a bound
\* customer: this part is what makes TypeOK inductive.
CustomerIsBound ==
    /\ \A a \in Apps : decision[a] # "none" => customer[a] \in Customers
    /\ \A a \in Apps : contract[a] => decision[a] = "approved"
    /\ \A r \in Requests :
        /\ req[r].at \in {"decide", "score"} => customer[req[r].app] \in Customers
        /\ At(r, "sign") => decision[req[r].app] = "approved"
        /\ req[r].at \in {"queue", "transfer", "finalise"} => contract[req[r].app]

TypeInv == TypeOK /\ CustomerIsBound

\* What an update of slot r leaves behind: every slot is well typed, only r
\* changed, and r stands at stage for application a.
SlotMoved(r, stage, a, ok) ==
    /\ req' \in [Requests -> RequestType]
    /\ \A q \in Requests : ~At(q, "idle")' => req'[q].app \in Apps
    /\ \A q \in Requests : q # r => req'[q] = req[q]
    /\ req'[r].at = stage /\ req'[r].app = a /\ req'[r].paid = ok

LEMMA SlotUpdate ==
  ASSUME TypeOK, NEW r \in Requests, NEW stage \in Stages, NEW a \in Apps \cup {NoApp},
         NEW owed \in Nat, NEW ok \in BOOLEAN,
         stage # "idle" => a \in Apps,
         SetRequest(r, stage, a, owed, ok)
  PROVE  SlotMoved(r, stage, a, ok)
<1>1. [at |-> stage, app |-> a, seen |-> owed, paid |-> ok] \in RequestType
  BY DEF RequestType
<1>2. req' \in [Requests -> RequestType]
  BY <1>1 DEF SetRequest, TypeOK
<1>3. /\ req'[r] = [at |-> stage, app |-> a, seen |-> owed, paid |-> ok]
      /\ \A q \in Requests : q # r => req'[q] = req[q]
  BY DEF SetRequest, TypeOK
<1>4. req'[r].at = stage /\ req'[r].app = a /\ req'[r].paid = ok
  BY <1>3
<1>5. ASSUME NEW q \in Requests, req'[q].at # "idle"
      PROVE  req'[q].app \in Apps
  <2>1. CASE q = r
    BY <1>4, <1>5, <2>1
  <2>2. CASE q # r
    BY <1>3, <1>5, <2>2 DEF TypeOK, At
  <2> QED
    BY <2>1, <2>2
<1> QED
  BY <1>2, <1>3, <1>4, <1>5 DEF SlotMoved, At

LEMMA SlotGoesTo ==
  ASSUME TypeOK, NEW r \in Requests, NEW stage \in Stages, NEW a \in Apps, GoTo(r, stage, a)
  PROVE  SlotMoved(r, stage, a, FALSE)
  BY SlotUpdate DEF GoTo

LEMMA SlotFinishes ==
  ASSUME TypeOK, NEW r \in Requests, Finish(r)
  PROVE  SlotMoved(r, "idle", NoApp, FALSE)
  BY SlotUpdate DEF Finish, Stages

LEMMA SlotFinalises ==
  ASSUME TypeOK, NEW r \in Requests, NEW a \in Apps, NEW ok \in BOOLEAN,
         SetRequest(r, "finalise", a, 0, ok)
  PROVE  SlotMoved(r, "finalise", a, ok)
  BY SlotUpdate DEF Stages

\* The application of a busy slot is one.
LEMMA BusySlotHasApp ==
  ASSUME TypeOK, NEW r \in Requests, req[r].at # "idle"
  PROVE  req[r].app \in Apps
  BY DEF TypeOK, At

LEMMA InitTypeInv == Init => TypeInv
  BY NoAppAssumption, InstalmentAssumption
  DEF Init, TypeInv, TypeOK, CustomerIsBound, At, RequestType, Stages, Statuses,
      Environments, Verdicts, DisbursementStates, Events

\* The rows an action writes for one application keep their types.
LEMMA EnterTypes ==
  ASSUME TypeOK, NEW a \in Apps, NEW from \in Statuses, NEW to \in Statuses, Enter(a, from, to)
  PROVE  status' \in [Apps -> Statuses] /\ audit' \in [Apps -> Seq(Statuses \X Statuses)]
  BY DEF TypeOK, Enter

LEMMA QueueTypes ==
  ASSUME TypeOK, NEW a \in Apps, NEW e \in Events, Queue(a, e)
  PROVE  webhooks' \in [Apps -> Seq(Events)]
  BY DEF TypeOK, Queue

LEMMA TypeInvStep == TypeInv /\ [Next]_vars => TypeInv'
<1> SUFFICES ASSUME TypeInv, [Next]_vars PROVE TypeInv'
  OBVIOUS
<1> USE DEF TypeInv
<1>1. ASSUME NEW a \in Apps, CreateApplication(a) PROVE TypeInv'
  <2>1. status' \in [Apps -> Statuses] /\ audit' \in [Apps -> Seq(Statuses \X Statuses)]
    BY <1>1, EnterTypes DEF CreateApplication, Statuses
  <2>2. TypeOK'
    BY <1>1, <2>1 DEF CreateApplication, TypeOK, At
  <2>3. CustomerIsBound'
    BY <1>1 DEF CreateApplication, CustomerIsBound, At
  <2> QED
    BY <2>2, <2>3
<1>2. ASSUME NEW a \in Apps, CancelApplication(a) PROVE TypeInv'
  <2>1. status[a] \in Statuses
    BY DEF TypeOK
  <2>2. status' \in [Apps -> Statuses] /\ audit' \in [Apps -> Seq(Statuses \X Statuses)]
    BY <1>2, <2>1, EnterTypes DEF CancelApplication, Statuses
  <2>3. TypeOK'
    BY <1>2, <2>2 DEF CancelApplication, TypeOK, At
  <2>4. CustomerIsBound'
    BY <1>2 DEF CancelApplication, CustomerIsBound, At
  <2> QED
    BY <2>3, <2>4
<1>3. ASSUME NEW a \in Apps, OfferLapses(a) PROVE TypeInv'
  <2>1. TypeOK'
    BY <1>3 DEF OfferLapses, TypeOK, At
  <2>2. CustomerIsBound'
    BY <1>3 DEF OfferLapses, CustomerIsBound, At
  <2> QED
    BY <2>1, <2>2
<1>4. ASSUME NEW r \in Requests, NEW a \in Apps, NEW c \in Customers, CustomerConsent(r, a, c)
      PROVE  TypeInv'
  <2>1. SlotMoved(r, "decide", a, FALSE)
    BY <1>4, SlotGoesTo DEF CustomerConsent, Stages
  <2>2. TypeOK'
    BY <1>4, <2>1 DEF CustomerConsent, TypeOK, SlotMoved, Statuses, At
  <2>3. CustomerIsBound'
    <3>1. \A b \in Apps : customer'[b] = IF b = a THEN c ELSE customer[b]
      BY <1>4 DEF CustomerConsent, TypeOK
    <3>2. UNCHANGED <<decision, contract>>
      BY <1>4 DEF CustomerConsent
    <3>3. ASSUME NEW q \in Requests, req'[q].at # "idle", q # r PROVE req[q].app \in Apps
      BY <2>1, <3>3, BusySlotHasApp DEF SlotMoved
    <3> QED
      BY <2>1, <3>1, <3>2, <3>3 DEF CustomerIsBound, SlotMoved, At
  <2> QED
    BY <2>2, <2>3
<1>5. ASSUME NEW r \in Requests, DecideRead(r) PROVE TypeInv'
  <2> DEFINE a == req[r].app
  <2>1. a \in Apps /\ customer[a] \in Customers
    BY <1>5, BusySlotHasApp DEF DecideRead, CustomerIsBound, At
  <2>2. SlotMoved(r, "score", a, FALSE) \/ SlotMoved(r, "announce", a, FALSE)
    <3>1. CASE decision[a] = "none"
      <4>1. debt[customer[a]] \in Nat
        BY <2>1 DEF TypeOK
      <4>2. SetRequest(r, "score", a, debt[customer[a]], FALSE)
        BY <1>5, <3>1 DEF DecideRead
      <4> QED
        BY <2>1, <4>1, <4>2, SlotUpdate DEF Stages
    <3>2. CASE decision[a] # "none"
      BY <1>5, <2>1, <3>2, SlotGoesTo DEF DecideRead, Stages
    <3> QED
      BY <3>1, <3>2
  <2>3. TypeOK'
    BY <1>5, <2>2 DEF DecideRead, TypeOK, SlotMoved, At
  <2>4. CustomerIsBound'
    BY <1>5, <2>1, <2>2 DEF DecideRead, CustomerIsBound, SlotMoved, At
  <2> QED
    BY <2>3, <2>4
<1>6. ASSUME NEW r \in Requests, DecideCommit(r) PROVE TypeInv'
  <2> DEFINE a == req[r].app
  <2>1. a \in Apps /\ customer[a] \in Customers
    BY <1>6, BusySlotHasApp DEF DecideCommit, CustomerIsBound, At
  <2>2. SlotMoved(r, "announce", a, FALSE)
    BY <1>6, <2>1, SlotGoesTo DEF DecideCommit, Stages
  <2>3. PICK to \in {"decided", "declined"} : Enter(a, "pending_decision", to)
    BY <1>6 DEF DecideCommit
  <2>4. status' \in [Apps -> Statuses] /\ audit' \in [Apps -> Seq(Statuses \X Statuses)]
    BY <2>1, <2>3, EnterTypes DEF Statuses
  <2>5. decision' \in [Apps -> Verdicts] /\ instalment' \in [Apps -> Nat]
    <3>1. Offers(wanted[a], req[r].seen) \subseteq Nat
      <4>1. wanted[a] \in Nat
        BY <2>1, InstalmentAssumption DEF TypeOK
      <4> QED
        BY <4>1 DEF Offers
    <3>2. decision' \in [Apps -> Verdicts]
      BY <1>6, <2>1 DEF DecideCommit, TypeOK, Verdicts
    <3>3. instalment' \in [Apps -> Nat]
      BY <1>6, <2>1, <3>1 DEF DecideCommit, TypeOK
    <3> QED
      BY <3>2, <3>3
  <2>6. TypeOK'
    BY <1>6, <2>2, <2>4, <2>5 DEF DecideCommit, TypeOK, SlotMoved, At
  <2>7. /\ UNCHANGED <<customer, contract>>
        /\ \A b \in Apps : b # a => decision'[b] = decision[b]
        /\ decision[a] = "none"
    BY <1>6, <2>1 DEF DecideCommit, TypeOK
  <2>8. CustomerIsBound'
    BY <2>1, <2>2, <2>7, BusySlotHasApp DEF CustomerIsBound, SlotMoved, At
  <2> QED
    BY <2>6, <2>8
<1>7. ASSUME NEW r \in Requests, EnqueueDecisionWebhook(r) PROVE TypeInv'
  <2> DEFINE a == req[r].app
  <2>1. a \in Apps
    BY <1>7, BusySlotHasApp DEF EnqueueDecisionWebhook, At
  <2>2. SlotMoved(r, "idle", NoApp, FALSE)
    BY <1>7, SlotFinishes DEF EnqueueDecisionWebhook
  <2>3. PICK e \in {"decided", "declined"} : Queue(a, e)
    BY <1>7 DEF EnqueueDecisionWebhook
  <2>4. webhooks' \in [Apps -> Seq(Events)]
    BY <2>1, <2>3, QueueTypes DEF Events
  <2>5. TypeOK'
    BY <1>7, <2>2, <2>4 DEF EnqueueDecisionWebhook, TypeOK, SlotMoved, At
  <2>6. CustomerIsBound'
    BY <1>7, <2>2 DEF EnqueueDecisionWebhook, CustomerIsBound, SlotMoved, At
  <2> QED
    BY <2>5, <2>6
<1>8. ASSUME NEW r \in Requests, NEW a \in Apps, SignRead(r, a) PROVE TypeInv'
  <2>1. SlotMoved(r, "sign", a, FALSE)
    BY <1>8, SlotGoesTo DEF SignRead, Stages
  <2>2. TypeOK'
    BY <1>8, <2>1 DEF SignRead, TypeOK, SlotMoved, At
  <2>3. CustomerIsBound'
    BY <1>8, <2>1 DEF SignRead, Signable, CustomerIsBound, SlotMoved, At
  <2> QED
    BY <2>2, <2>3
<1>9. ASSUME NEW r \in Requests, SignCommit(r) PROVE TypeInv'
  <2> DEFINE a == req[r].app
  <2>1. a \in Apps /\ decision[a] = "approved"
    BY <1>9, BusySlotHasApp DEF SignCommit, CustomerIsBound, At
  <2>2. SlotMoved(r, "queue", a, FALSE)
    BY <1>9, <2>1, SlotGoesTo DEF SignCommit, Stages
  <2>3. status' \in [Apps -> Statuses] /\ audit' \in [Apps -> Seq(Statuses \X Statuses)]
    BY <1>9, <2>1, EnterTypes DEF SignCommit, Statuses
  <2>4. webhooks' \in [Apps -> Seq(Events)]
    BY <1>9, <2>1, QueueTypes DEF SignCommit, Events
  <2>5. TypeOK'
    BY <1>9, <2>2, <2>3, <2>4 DEF SignCommit, TypeOK, SlotMoved, At
  <2>6. /\ UNCHANGED <<customer, decision>>
        /\ \A b \in Apps : contract'[b] <=> contract[b] \/ b = a
    BY <1>9, <2>1 DEF SignCommit, TypeOK
  <2>7. CustomerIsBound'
    BY <2>1, <2>2, <2>6, BusySlotHasApp DEF CustomerIsBound, SlotMoved, At
  <2> QED
    BY <2>5, <2>7
<1>10. ASSUME NEW r \in Requests, SignLosesRace(r) PROVE TypeInv'
  <2>1. SlotMoved(r, "idle", NoApp, FALSE)
    BY <1>10, SlotFinishes DEF SignLosesRace
  <2>2. TypeOK'
    BY <1>10, <2>1 DEF SignLosesRace, TypeOK, SlotMoved, At
  <2>3. CustomerIsBound'
    BY <1>10, <2>1 DEF SignLosesRace, CustomerIsBound, SlotMoved, At
  <2> QED
    BY <2>2, <2>3
<1>11. ASSUME NEW r \in Requests, QueueDisbursement(r) PROVE TypeInv'
  <2> DEFINE a == req[r].app
  <2>1. a \in Apps /\ contract[a]
    BY <1>11, BusySlotHasApp DEF QueueDisbursement, CustomerIsBound, At
  <2>2. SlotMoved(r, "transfer", a, FALSE)
    BY <1>11, <2>1, SlotGoesTo DEF QueueDisbursement, Stages
  <2>3. TypeOK'
    BY <1>11, <2>2 DEF QueueDisbursement, TypeOK, DisbursementStates, SlotMoved, At
  <2>4. CustomerIsBound'
    BY <1>11, <2>1, <2>2 DEF QueueDisbursement, CustomerIsBound, SlotMoved, At
  <2> QED
    BY <2>3, <2>4
<1>12. ASSUME NEW r \in Requests, ExecuteTransfer(r) PROVE TypeInv'
  <2> DEFINE a == req[r].app
  <2>1. a \in Apps /\ contract[a]
    BY <1>12, BusySlotHasApp DEF ExecuteTransfer, CustomerIsBound, At
  <2>2. SlotMoved(r, "finalise", a, TRUE)
    BY <1>12, <2>1, SlotUpdate DEF ExecuteTransfer, Stages
  <2>3. TypeOK'
    BY <1>12, <2>2 DEF ExecuteTransfer, TypeOK, SlotMoved, At
  <2>4. CustomerIsBound'
    BY <1>12, <2>1, <2>2 DEF ExecuteTransfer, CustomerIsBound, SlotMoved, At
  <2> QED
    BY <2>3, <2>4
<1>13. ASSUME NEW r \in Requests, RefuseTransfer(r) \/ SimulateTransfer(r) PROVE TypeInv'
  <2> DEFINE a == req[r].app
  <2>1. a \in Apps /\ contract[a]
    BY <1>13, BusySlotHasApp DEF RefuseTransfer, SimulateTransfer, CustomerIsBound, At
  <2>2. SlotMoved(r, "finalise", a, FALSE) \/ SlotMoved(r, "finalise", a, TRUE)
    BY <1>13, <2>1, SlotUpdate DEF RefuseTransfer, SimulateTransfer, GoTo, Stages
  <2>3. TypeOK'
    BY <1>13, <2>2 DEF RefuseTransfer, SimulateTransfer, TypeOK, SlotMoved, At
  <2>4. CustomerIsBound'
    <3>1. UNCHANGED <<customer, decision, contract>>
      BY <1>13 DEF RefuseTransfer, SimulateTransfer
    <3> QED
      BY <2>1, <2>2, <3>1 DEF CustomerIsBound, SlotMoved, At
  <2> QED
    BY <2>3, <2>4
<1>14. ASSUME NEW r \in Requests, CompleteDisbursement(r) PROVE TypeInv'
  <2> DEFINE a == req[r].app
  <2>1. a \in Apps /\ customer[a] \in Customers
    BY <1>14, BusySlotHasApp DEF CompleteDisbursement, CustomerIsBound, At
  <2>2. SlotMoved(r, "idle", NoApp, FALSE)
    BY <1>14, SlotFinishes DEF CompleteDisbursement
  <2>3. status' \in [Apps -> Statuses] /\ audit' \in [Apps -> Seq(Statuses \X Statuses)]
    BY <1>14, <2>1, EnterTypes DEF CompleteDisbursement, Statuses
  <2>4. webhooks' \in [Apps -> Seq(Events)]
    BY <1>14, <2>1, QueueTypes DEF CompleteDisbursement, Events
  <2>5. debt' \in [Customers -> Nat]
    BY <1>14, <2>1 DEF CompleteDisbursement, Owe, TypeOK
  <2>6. disb' \in [Apps -> DisbursementStates] /\ loan' \in [Apps -> BOOLEAN]
    BY <1>14, <2>1 DEF CompleteDisbursement, TypeOK, DisbursementStates
  <2>7. TypeOK'
    BY <1>14, <2>2, <2>3, <2>4, <2>5, <2>6 DEF CompleteDisbursement, TypeOK, SlotMoved, At
  <2>8. CustomerIsBound'
    BY <1>14, <2>2 DEF CompleteDisbursement, CustomerIsBound, SlotMoved, At
  <2> QED
    BY <2>7, <2>8
<1>15. ASSUME NEW r \in Requests, FailDisbursement(r) PROVE TypeInv'
  <2>1. SlotMoved(r, "idle", NoApp, FALSE)
    BY <1>15, SlotFinishes DEF FailDisbursement
  <2>2. TypeOK'
    BY <1>15, <2>1 DEF FailDisbursement, TypeOK, DisbursementStates, SlotMoved, At
  <2>3. CustomerIsBound'
    BY <1>15, <2>1 DEF FailDisbursement, CustomerIsBound, SlotMoved, At
  <2> QED
    BY <2>2, <2>3
<1>16. ASSUME NEW r \in Requests, RequestDies(r) PROVE TypeInv'
  <2>1. SlotMoved(r, "idle", NoApp, FALSE)
    BY <1>16, SlotFinishes DEF RequestDies
  <2>2. TypeOK'
    BY <1>16, <2>1 DEF RequestDies, TypeOK, SlotMoved, At
  <2>3. CustomerIsBound'
    BY <1>16, <2>1 DEF RequestDies, CustomerIsBound, SlotMoved, At
  <2> QED
    BY <2>2, <2>3
<1>17. CASE UNCHANGED vars
  BY <1>17 DEF vars, TypeOK, CustomerIsBound, At
<1> QED
  BY <1>1, <1>2, <1>3, <1>4, <1>5, <1>6, <1>7, <1>8, <1>9, <1>10, <1>11, <1>12, <1>13,
     <1>14, <1>15, <1>16, <1>17 DEF Next, Proceed

\* In every reachable state every variable has its type: in particular the
\* audit trail and the webhook queue only hold states and events that exist,
\* and a handler only reads the debt of a customer who is bound.
THEOREM TypeCorrect == Spec => []TypeOK
<1>1. Init => TypeInv
  BY InitTypeInv
<1>2. TypeInv /\ [Next]_vars => TypeInv'
  BY TypeInvStep
<1>3. TypeInv => TypeOK
  BY DEF TypeInv
<1> QED
  BY <1>1, <1>2, <1>3, PTL DEF Spec

----------------------------------------------------------------------------
(* Money: the inductive invariant                                          *)

\* The request in slot r is inside disburse().
Disbursing(r) == req[r].at \in {"queue", "transfer", "finalise"}

\* Two requests are never inside disburse() for one application: only the
\* request that inserted the contract gets there.
OneDisburser ==
    \A q, r \in Requests :
        Disbursing(q) /\ Disbursing(r) /\ req[q].app = req[r].app => q = r

\* What a request inside disburse() has in its local variables agrees with the
\* disbursement row and with the bank.
DisburserAgrees ==
    \A r \in Requests :
        /\ At(r, "queue") => disb[req[r].app] = "none"
        /\ At(r, "transfer") => disb[req[r].app] = "pending" /\ moved[req[r].app] = 0
        /\ At(r, "finalise") =>
            /\ disb[req[r].app] = "pending"
            /\ moved[req[r].app] =
                   IF req[r].paid /\ env[req[r].app] = "production" THEN 1 ELSE 0

\* The tables and the bank agree with each other.
BooksAgree ==
    \A a \in Apps :
        /\ disb[a] # "none" => contract[a]
        /\ loan[a] <=> disb[a] = "completed"
        /\ status[a] = "disbursed" <=> loan[a]
        /\ moved[a] \in {0, 1}
        /\ moved[a] = 1 => env[a] = "production" /\ disb[a] \in {"pending", "completed"}
        /\ loan[a] /\ env[a] = "production" => moved[a] = 1

FundingInv == OneDisburser /\ DisburserAgrees /\ BooksAgree

LEMMA InitFundingInv == Init => FundingInv
  BY DEF Init, FundingInv, OneDisburser, DisburserAgrees, BooksAgree, Disbursing, At

\* A step that writes neither the books nor a slot inside disburse(), and
\* neither sets nor clears the status 'disbursed', keeps the invariant.
LEMMA BooksUntouched ==
  ASSUME TypeInv, TypeInv', FundingInv,
         UNCHANGED <<disb, loan, moved, env, contract>>,
         \A q \in Requests : req'[q] = req[q] \/ ~Disbursing(q)',
         \A b \in Apps : status'[b] = "disbursed" <=> status[b] = "disbursed"
  PROVE  FundingInv'
<1>1. OneDisburser'
  BY DEF FundingInv, OneDisburser, Disbursing
<1>2. DisburserAgrees'
  BY DEF FundingInv, DisburserAgrees, Disbursing, At
<1>3. BooksAgree'
  BY DEF FundingInv, BooksAgree
<1> QED
  BY <1>1, <1>2, <1>3 DEF FundingInv

\* The same for a step of one request that leaves disburse() or stays out of it.
LEMMA RequestStaysOut ==
  ASSUME TypeInv, TypeInv', FundingInv,
         UNCHANGED <<disb, loan, moved, env, contract>>,
         NEW r \in Requests, NEW stage \in Stages, NEW a, NEW ok,
         stage \notin {"queue", "transfer", "finalise"},
         SlotMoved(r, stage, a, ok),
         \A b \in Apps : status'[b] = "disbursed" <=> status[b] = "disbursed"
  PROVE  FundingInv'
  BY BooksUntouched DEF SlotMoved, Disbursing

\* Writing one application's status, neither from nor to 'disbursed'.
LEMMA EnterElsewhere ==
  ASSUME TypeOK, NEW a \in Apps, NEW from, NEW to, Enter(a, from, to),
         to # "disbursed", status[a] # "disbursed"
  PROVE  \A b \in Apps : status'[b] = "disbursed" <=> status[b] = "disbursed"
  BY DEF Enter, TypeOK

LEMMA SignCommitFunding ==
  ASSUME TypeInv, FundingInv, NEW r \in Requests, SignCommit(r)
  PROVE  FundingInv'
<1> DEFINE a == req[r].app
<1>1. a \in Apps /\ ~contract[a]
  BY BusySlotHasApp DEF SignCommit, At, TypeInv
<1>2. SlotMoved(r, "queue", a, FALSE)
  BY <1>1, SlotGoesTo DEF SignCommit, Stages, TypeInv
<1>3. /\ UNCHANGED <<disb, loan, moved, env>>
      /\ \A b \in Apps : contract[b] => contract'[b]
  BY DEF SignCommit, TypeInv, TypeOK
<1>4. disb[a] = "none" /\ ~loan[a] /\ status[a] # "disbursed"
  BY <1>1 DEF FundingInv, BooksAgree
<1>5. \A q \in Requests : Disbursing(q) => req[q].app # a
  BY <1>1 DEF TypeInv, CustomerIsBound, Disbursing
<1>6. OneDisburser'
  BY <1>2, <1>5 DEF FundingInv, OneDisburser, Disbursing, SlotMoved
<1>7. DisburserAgrees'
  BY <1>2, <1>3, <1>4 DEF FundingInv, DisburserAgrees, SlotMoved, At
<1>8. \A b \in Apps : status'[b] = "disbursed" <=> status[b] = "disbursed"
  BY <1>1, <1>4, EnterElsewhere DEF SignCommit, TypeInv
<1>9. BooksAgree'
  BY <1>3, <1>8 DEF FundingInv, BooksAgree
<1> QED
  BY <1>6, <1>7, <1>9 DEF FundingInv

LEMMA QueueDisbursementFunding ==
  ASSUME TypeInv, FundingInv, NEW r \in Requests, QueueDisbursement(r)
  PROVE  FundingInv'
<1> DEFINE a == req[r].app
<1>1. a \in Apps /\ contract[a] /\ disb[a] = "none"
  BY BusySlotHasApp DEF QueueDisbursement, At, TypeInv, CustomerIsBound
<1>2. SlotMoved(r, "transfer", a, FALSE)
  BY <1>1, SlotGoesTo DEF QueueDisbursement, Stages, TypeInv
<1>3. /\ UNCHANGED <<status, loan, moved, env, contract>>
      /\ disb'[a] = "pending"
      /\ \A b \in Apps : b # a => disb'[b] = disb[b]
  BY <1>1 DEF QueueDisbursement, TypeInv, TypeOK
<1>4. \A q \in Requests : q # r /\ Disbursing(q) => req[q].app # a
  BY DEF QueueDisbursement, FundingInv, OneDisburser, Disbursing, At
<1>5. moved[a] = 0
  BY <1>1 DEF FundingInv, BooksAgree
<1>6. OneDisburser'
  BY <1>2, <1>4 DEF FundingInv, OneDisburser, Disbursing, SlotMoved
<1>7. DisburserAgrees'
  <2>1. ASSUME NEW q \in Requests, q # r, Disbursing(q)
        PROVE  req'[q] = req[q] /\ req[q].app \in Apps /\ req[q].app # a
    BY <1>2, <1>4, <2>1, BusySlotHasApp DEF SlotMoved, Disbursing, TypeInv
  <2>2. ASSUME NEW q \in Requests, q # r, ~Disbursing(q)
        PROVE  ~Disbursing(q)'
    BY <1>2, <2>2 DEF SlotMoved, Disbursing
  <2> QED
    BY <1>2, <1>3, <1>5, <2>1, <2>2
    DEF FundingInv, DisburserAgrees, Disbursing, SlotMoved, At
<1>8. BooksAgree'
  BY <1>1, <1>3 DEF FundingInv, BooksAgree
<1> QED
  BY <1>6, <1>7, <1>8 DEF FundingInv

LEMMA ExecuteTransferFunding ==
  ASSUME TypeInv, FundingInv, NEW r \in Requests, ExecuteTransfer(r)
  PROVE  FundingInv'
<1> DEFINE a == req[r].app
<1>1. a \in Apps /\ env[a] = "production" /\ disb[a] = "pending" /\ moved[a] = 0
  BY BusySlotHasApp DEF ExecuteTransfer, At, TypeInv, FundingInv, DisburserAgrees
<1>2. SlotMoved(r, "finalise", a, TRUE)
  BY <1>1, SlotFinalises DEF ExecuteTransfer, TypeInv
<1>3. /\ UNCHANGED <<status, loan, disb, env, contract>>
      /\ moved'[a] = 1
      /\ \A b \in Apps : b # a => moved'[b] = moved[b]
  BY <1>1 DEF ExecuteTransfer, TypeInv, TypeOK
<1>4. \A q \in Requests : q # r /\ Disbursing(q) => req[q].app # a
  BY DEF ExecuteTransfer, FundingInv, OneDisburser, Disbursing, At
<1>5. OneDisburser'
  BY <1>2, <1>4 DEF FundingInv, OneDisburser, Disbursing, SlotMoved
<1>6. DisburserAgrees'
  <2>1. ASSUME NEW q \in Requests, q # r, Disbursing(q)
        PROVE  req'[q] = req[q] /\ req[q].app \in Apps /\ req[q].app # a
    BY <1>2, <1>4, <2>1, BusySlotHasApp DEF SlotMoved, Disbursing, TypeInv
  <2>2. ASSUME NEW q \in Requests, q # r, ~Disbursing(q)
        PROVE  ~Disbursing(q)'
    BY <1>2, <2>2 DEF SlotMoved, Disbursing
  <2> QED
    BY <1>1, <1>2, <1>3, <2>1, <2>2
    DEF FundingInv, DisburserAgrees, Disbursing, SlotMoved, At
<1>7. BooksAgree'
  BY <1>1, <1>3 DEF FundingInv, BooksAgree
<1> QED
  BY <1>5, <1>6, <1>7 DEF FundingInv

\* A refusal, or a sandbox transfer that counts as paid: no money moves.
LEMMA NothingMovesFunding ==
  ASSUME TypeInv, FundingInv, NEW r \in Requests, RefuseTransfer(r) \/ SimulateTransfer(r)
  PROVE  FundingInv'
<1> DEFINE a == req[r].app
<1>1. a \in Apps /\ disb[a] = "pending" /\ moved[a] = 0
  BY BusySlotHasApp
  DEF RefuseTransfer, SimulateTransfer, At, TypeInv, FundingInv, DisburserAgrees
<1>2. \/ SlotMoved(r, "finalise", a, FALSE)
      \/ SlotMoved(r, "finalise", a, TRUE) /\ env[a] # "production"
  <2>1. \/ GoTo(r, "finalise", a)
        \/ SetRequest(r, "finalise", a, 0, TRUE) /\ env[a] # "production"
    BY DEF RefuseTransfer, SimulateTransfer
  <2>2. "finalise" \in Stages
    BY DEF Stages
  <2> QED
    BY <1>1, <2>1, <2>2, SlotFinalises, SlotGoesTo DEF TypeInv
<1>3. UNCHANGED <<status, loan, disb, moved, env, contract>>
  BY DEF RefuseTransfer, SimulateTransfer
<1>4. \A q \in Requests : q # r /\ Disbursing(q) => req[q].app # a
  BY DEF RefuseTransfer, SimulateTransfer, FundingInv, OneDisburser, Disbursing, At
<1>5. OneDisburser'
  BY <1>2, <1>4 DEF FundingInv, OneDisburser, Disbursing, SlotMoved
<1>6. DisburserAgrees'
  BY <1>1, <1>2, <1>3 DEF FundingInv, DisburserAgrees, SlotMoved, At
<1>7. BooksAgree'
  BY <1>3 DEF FundingInv, BooksAgree
<1> QED
  BY <1>5, <1>6, <1>7 DEF FundingInv

\* disburse()'s last transaction, whichever way the transfer ended.
LEMMA SettleFunding ==
  ASSUME TypeInv, FundingInv, NEW r \in Requests,
         CompleteDisbursement(r) \/ FailDisbursement(r)
  PROVE  FundingInv'
<1> DEFINE a == req[r].app
<1>1. /\ a \in Apps /\ disb[a] = "pending" /\ contract[a]
      /\ moved[a] = IF req[r].paid /\ env[a] = "production" THEN 1 ELSE 0
  BY BusySlotHasApp
  DEF CompleteDisbursement, FailDisbursement, At, TypeInv, CustomerIsBound, FundingInv,
      DisburserAgrees
<1>2. SlotMoved(r, "idle", NoApp, FALSE)
  BY SlotFinishes DEF CompleteDisbursement, FailDisbursement, TypeInv
<1>3. /\ UNCHANGED <<moved, env, contract>>
      /\ \A b \in Apps : b # a => /\ disb'[b] = disb[b]
                                  /\ loan'[b] = loan[b]
                                  /\ status'[b] = status[b]
  BY <1>1 DEF CompleteDisbursement, FailDisbursement, Enter, TypeInv, TypeOK
<1>4. \/ req[r].paid /\ disb'[a] = "completed" /\ loan'[a] /\ status'[a] = "disbursed"
      \/ ~req[r].paid /\ disb'[a] = "failed" /\ loan'[a] = loan[a] /\ status'[a] = status[a]
  BY <1>1 DEF CompleteDisbursement, FailDisbursement, Enter, TypeInv, TypeOK
<1>5. \A q \in Requests : q # r /\ Disbursing(q) => req[q].app # a
  BY DEF CompleteDisbursement, FailDisbursement, FundingInv, OneDisburser, Disbursing, At
<1>6. OneDisburser'
  BY <1>2 DEF FundingInv, OneDisburser, Disbursing, SlotMoved
<1>7. DisburserAgrees'
  <2> SUFFICES ASSUME NEW q \in Requests, Disbursing(q)'
               PROVE  /\ At(q, "queue") => disb'[req[q].app] = "none"
                      /\ At(q, "transfer") => disb'[req[q].app] = "pending"
                                              /\ moved[req[q].app] = 0
                      /\ At(q, "finalise") =>
                          /\ disb'[req[q].app] = "pending"
                          /\ moved[req[q].app] =
                                 IF req[q].paid /\ env[req[q].app] = "production" THEN 1 ELSE 0
                      /\ req'[q] = req[q]
    BY <1>3 DEF DisburserAgrees, Disbursing, At
  <2>1. q # r /\ req'[q] = req[q]
    BY <1>2 DEF SlotMoved, Disbursing
  <2>2. req[q].app \in Apps /\ req[q].app # a
    BY <2>1, <1>5, BusySlotHasApp DEF Disbursing, TypeInv
  <2> QED
    BY <1>3, <2>1, <2>2 DEF FundingInv, DisburserAgrees, At
<1>8. BooksAgree'
  <2>1. ~loan[a] /\ status[a] # "disbursed"
    BY <1>1 DEF FundingInv, BooksAgree
  <2>2. ASSUME NEW b \in Apps, b # a
        PROVE  /\ disb'[b] = disb[b] /\ loan'[b] = loan[b] /\ status'[b] = status[b]
    BY <1>3, <2>2
  <2> QED
    BY <1>1, <1>3, <1>4, <2>1, <2>2 DEF FundingInv, BooksAgree
<1> QED
  BY <1>6, <1>7, <1>8 DEF FundingInv

LEMMA FundingInvStep == TypeInv /\ FundingInv /\ [Next]_vars => FundingInv'
<1> SUFFICES ASSUME TypeInv, FundingInv, [Next]_vars PROVE FundingInv'
  OBVIOUS
<1>0. TypeInv'
  BY TypeInvStep
<1>1. ASSUME NEW a \in Apps, CreateApplication(a) \/ CancelApplication(a) \/ OfferLapses(a)
      PROVE  FundingInv'
  <2>1. UNCHANGED <<disb, loan, moved, env, contract, req>>
    BY <1>1 DEF CreateApplication, CancelApplication, OfferLapses
  <2>2. \A b \in Apps : status'[b] = "disbursed" <=> status[b] = "disbursed"
    <3>1. CASE CreateApplication(a)
      BY <3>1, EnterElsewhere DEF CreateApplication, TypeInv
    <3>2. CASE CancelApplication(a)
      BY <3>2, EnterElsewhere DEF CancelApplication, Cancellable, TypeInv
    <3>3. CASE OfferLapses(a)
      BY <3>3 DEF OfferLapses
    <3> QED
      BY <1>1, <3>1, <3>2, <3>3
  <2> QED
    BY <1>0, <2>1, <2>2, BooksUntouched
<1>2. ASSUME NEW r \in Requests, NEW a \in Apps, SignRead(r, a) PROVE FundingInv'
  <2>1. SlotMoved(r, "sign", a, FALSE) /\ "sign" \in Stages
    BY <1>2, SlotGoesTo DEF SignRead, Stages, TypeInv
  <2> QED
    BY <1>0, <1>2, <2>1, RequestStaysOut DEF SignRead
<1>3. ASSUME NEW r \in Requests, NEW a \in Apps, NEW c \in Customers, CustomerConsent(r, a, c)
      PROVE  FundingInv'
  <2>1. SlotMoved(r, "decide", a, FALSE) /\ "decide" \in Stages
    BY <1>3, SlotGoesTo DEF CustomerConsent, Stages, TypeInv
  <2>2. \A b \in Apps : status'[b] = "disbursed" <=> status[b] = "disbursed"
    BY <1>3 DEF CustomerConsent, Consentable, TypeInv, TypeOK
  <2> QED
    BY <1>0, <1>3, <2>1, <2>2, RequestStaysOut DEF CustomerConsent
<1>4. ASSUME NEW r \in Requests, DecideRead(r) PROVE FundingInv'
  <2> DEFINE a == req[r].app
  <2>1. a \in Apps /\ customer[a] \in Customers
    BY <1>4, BusySlotHasApp DEF DecideRead, At, TypeInv, CustomerIsBound
  <2>2. debt[customer[a]] \in Nat /\ {"score", "announce"} \subseteq Stages
    BY <2>1 DEF TypeInv, TypeOK, Stages
  <2>3. \/ SetRequest(r, "score", a, debt[customer[a]], FALSE)
        \/ GoTo(r, "announce", a)
    BY <1>4 DEF DecideRead
  <2>4. SlotMoved(r, "score", a, FALSE) \/ SlotMoved(r, "announce", a, FALSE)
    BY <2>1, <2>2, <2>3, SlotUpdate, SlotGoesTo DEF TypeInv
  <2> QED
    BY <1>0, <1>4, <2>2, <2>4, RequestStaysOut DEF DecideRead
<1>5. ASSUME NEW r \in Requests, DecideCommit(r) PROVE FundingInv'
  <2> DEFINE a == req[r].app
  <2>1. a \in Apps /\ decision[a] = "none"
    BY <1>5, BusySlotHasApp DEF DecideCommit, At, TypeInv
  <2>2. SlotMoved(r, "announce", a, FALSE) /\ "announce" \in Stages
    BY <1>5, <2>1, SlotGoesTo DEF DecideCommit, Stages, TypeInv
  <2>3. status[a] # "disbursed"
    BY <2>1 DEF TypeInv, CustomerIsBound, FundingInv, BooksAgree
  <2>4. PICK to \in {"decided", "declined"} : Enter(a, "pending_decision", to)
    BY <1>5 DEF DecideCommit
  <2>5. \A b \in Apps : status'[b] = "disbursed" <=> status[b] = "disbursed"
    BY <2>1, <2>3, <2>4, EnterElsewhere DEF TypeInv
  <2> QED
    BY <1>0, <1>5, <2>2, <2>5, RequestStaysOut DEF DecideCommit
<1>6. ASSUME NEW r \in Requests,
             EnqueueDecisionWebhook(r) \/ SignLosesRace(r) \/ RequestDies(r)
      PROVE  FundingInv'
  <2>1. SlotMoved(r, "idle", NoApp, FALSE) /\ "idle" \in Stages
    BY <1>6, SlotFinishes DEF EnqueueDecisionWebhook, SignLosesRace, RequestDies, Stages, TypeInv
  <2>2. UNCHANGED <<status, disb, loan, moved, env, contract>>
    BY <1>6 DEF EnqueueDecisionWebhook, SignLosesRace, RequestDies
  <2> QED
    BY <1>0, <2>1, <2>2, RequestStaysOut
<1>7. CASE UNCHANGED vars
  BY <1>0, <1>7, BooksUntouched DEF vars
<1> QED
  BY <1>1, <1>2, <1>3, <1>4, <1>5, <1>6, <1>7, SignCommitFunding, QueueDisbursementFunding,
     ExecuteTransferFunding, NothingMovesFunding, SettleFunding DEF Next, Proceed

LEMMA InvariantHolds == Spec => [](TypeInv /\ FundingInv)
<1>1. Init => TypeInv /\ FundingInv
  BY InitTypeInv, InitFundingInv
<1>2. TypeInv /\ FundingInv /\ [Next]_vars => (TypeInv /\ FundingInv)'
  BY TypeInvStep, FundingInvStep
<1> QED
  BY <1>1, <1>2, PTL DEF Spec

----------------------------------------------------------------------------
(* The theorems                                                            *)

\* The principal of an application leaves the lending pool at most once, and
\* never in sandbox, however many sign requests race, repeat or die.
THEOREM PaidOnce == Spec => []PaidAtMostOnce
<1>1. TypeInv /\ FundingInv => PaidAtMostOnce
  <2> SUFFICES ASSUME FundingInv, NEW a \in Apps
               PROVE  moved[a] <= (IF env[a] = "production" THEN 1 ELSE 0)
    BY DEF PaidAtMostOnce
  <2>1. moved[a] \in {0, 1} /\ (moved[a] = 1 => env[a] = "production")
    BY DEF FundingInv, BooksAgree
  <2>2. CASE env[a] = "production"
    BY <2>1, <2>2
  <2>3. CASE env[a] # "production"
    BY <2>1, <2>3
  <2> QED
    BY <2>2, <2>3
<1> QED
  BY <1>1, InvariantHolds, PTL

\* Money that moved has a disbursement row that is pending or completed, for a
\* signed contract: a crash can leave it pending, nothing loses it.
THEOREM MoneyRecorded == Spec => []MovedMoneyIsRecorded
<1>1. TypeInv /\ FundingInv => MovedMoneyIsRecorded
  BY DEF FundingInv, BooksAgree, MovedMoneyIsRecorded
<1> QED
  BY <1>1, InvariantHolds, PTL

\* The status 'disbursed', the open loan and the completed disbursement always
\* go together, and in production the money has moved.
THEOREM DisbursedIsFunded == Spec => []DisbursedMeansFundedLoan
<1>1. TypeInv /\ FundingInv => DisbursedMeansFundedLoan
  BY DEF FundingInv, BooksAgree, DisbursedMeansFundedLoan
<1> QED
  BY <1>1, InvariantHolds, PTL

----------------------------------------------------------------------------
(* Refinement: the tables implement LoanLedger                             *)

LEMMA LedgerInit == Init => Ledger!Init
  BY DEF Init, Ledger!Init, Environments

\* Ledger does not see a step that leaves these tables alone.
LEMMA LedgerStutters ==
  ASSUME UNCHANGED <<decision, contract, env, moved, loan>>
  PROVE  UNCHANGED Ledger!lvars
  BY DEF Ledger!lvars

LEMMA LedgerDecides ==
  ASSUME TypeInv, NEW r \in Requests, DecideCommit(r)
  PROVE  Ledger!Next
<1>1. PICK a \in Apps : a = req[r].app /\ decision[a] = "none"
  BY BusySlotHasApp DEF DecideCommit, At, TypeInv
<1>2. \E v \in {"approved", "declined"} : decision' = [decision EXCEPT ![a] = v]
  BY <1>1 DEF DecideCommit
<1>3. UNCHANGED <<contract, env, moved, loan>>
  BY DEF DecideCommit
<1>4. Ledger!Decide(a)
  BY <1>1, <1>2, <1>3 DEF Ledger!Decide
<1> QED
  BY <1>4 DEF Ledger!Next

LEMMA LedgerSigns ==
  ASSUME TypeInv, NEW r \in Requests, SignCommit(r)
  PROVE  Ledger!Next
<1>1. PICK a \in Apps : a = req[r].app /\ ~contract[a] /\ decision[a] = "approved"
  BY BusySlotHasApp DEF SignCommit, At, TypeInv, CustomerIsBound
<1>2. {b \in Apps : contract'[b]} = {b \in Apps : contract[b]} \cup {a}
  BY <1>1 DEF SignCommit, TypeInv, TypeOK
<1>3. UNCHANGED <<decision, env, moved, loan>>
  BY DEF SignCommit
<1>4. Ledger!Sign(a)
  BY <1>1, <1>2, <1>3 DEF Ledger!Sign
<1> QED
  BY <1>4 DEF Ledger!Next

LEMMA LedgerPaysOut ==
  ASSUME TypeInv, FundingInv, NEW r \in Requests, ExecuteTransfer(r)
  PROVE  Ledger!Next
<1>1. PICK a \in Apps : /\ a = req[r].app /\ contract[a]
                        /\ env[a] = "production" /\ moved[a] = 0
  BY BusySlotHasApp
  DEF ExecuteTransfer, At, TypeInv, CustomerIsBound, FundingInv, DisburserAgrees
<1>2. moved' = [moved EXCEPT ![a] = 1]
  BY <1>1 DEF ExecuteTransfer, TypeInv, TypeOK
<1>3. UNCHANGED <<decision, contract, env, loan>>
  BY DEF ExecuteTransfer
<1>4. Ledger!PayOut(a)
  BY <1>1, <1>2, <1>3 DEF Ledger!PayOut
<1> QED
  BY <1>4 DEF Ledger!Next

LEMMA LedgerOpens ==
  ASSUME TypeInv, FundingInv, NEW r \in Requests, CompleteDisbursement(r)
  PROVE  Ledger!Next
<1>1. PICK a \in Apps : /\ a = req[r].app /\ contract[a] /\ ~loan[a]
                        /\ env[a] = "production" => moved[a] = 1
  BY BusySlotHasApp
  DEF CompleteDisbursement, At, TypeInv, CustomerIsBound, FundingInv, DisburserAgrees,
      BooksAgree
<1>2. {b \in Apps : loan'[b]} = {b \in Apps : loan[b]} \cup {a}
  BY <1>1 DEF CompleteDisbursement, TypeInv, TypeOK
<1>3. UNCHANGED <<decision, contract, env, moved>>
  BY DEF CompleteDisbursement
<1>4. Ledger!Open(a)
  BY <1>1, <1>2, <1>3 DEF Ledger!Open
<1> QED
  BY <1>4 DEF Ledger!Next

LEMMA LedgerStep ==
  TypeInv /\ FundingInv /\ [Next]_vars => [Ledger!Next]_(Ledger!lvars)
<1> SUFFICES ASSUME TypeInv, FundingInv, [Next]_vars PROVE Ledger!Next \/ UNCHANGED Ledger!lvars
  OBVIOUS
<1>1. CASE \E a \in Apps : CreateApplication(a) \/ CancelApplication(a) \/ OfferLapses(a)
  BY <1>1, LedgerStutters DEF CreateApplication, CancelApplication, OfferLapses
<1>2. CASE \E r \in Requests, a \in Apps : SignRead(r, a)
  BY <1>2, LedgerStutters DEF SignRead
<1>3. CASE \E r \in Requests, a \in Apps, c \in Customers : CustomerConsent(r, a, c)
  BY <1>3, LedgerStutters DEF CustomerConsent
<1>4. ASSUME NEW r \in Requests,
             \/ DecideRead(r) \/ EnqueueDecisionWebhook(r) \/ SignLosesRace(r)
             \/ QueueDisbursement(r) \/ RefuseTransfer(r) \/ SimulateTransfer(r)
             \/ FailDisbursement(r) \/ RequestDies(r)
      PROVE  UNCHANGED Ledger!lvars
  BY <1>4, LedgerStutters
  DEF DecideRead, EnqueueDecisionWebhook, SignLosesRace, QueueDisbursement, RefuseTransfer,
      SimulateTransfer, FailDisbursement, RequestDies
<1>5. CASE UNCHANGED vars
  BY <1>5, LedgerStutters DEF vars
<1> QED
  BY <1>1, <1>2, <1>3, <1>4, <1>5, LedgerDecides, LedgerSigns, LedgerPaysOut, LedgerOpens
  DEF Next, Proceed

\* The decision, contract, disbursement and loan tables and the bank implement
\* the abstract promise: one verdict, one signature of an approved offer, one
\* pay-out of a signed contract, one loan opened after it.
THEOREM LoanImplementsLedger == Spec => ImplementsLedger
<1>1. Init => Ledger!Init
  BY LedgerInit
<1>2. TypeInv /\ FundingInv /\ [Next]_vars => [Ledger!Next]_(Ledger!lvars)
  BY LedgerStep
<1> QED
  BY <1>1, <1>2, InvariantHolds, PTL DEF Spec, ImplementsLedger, Ledger!Spec

----------------------------------------------------------------------------
(* History: the inductive invariant                                        *)

\* The request in slot r is inside customer-consent, after its UPDATE.
Deciding(r) == req[r].at \in {"decide", "score", "announce"}

\* A webhook row of this event is queued for the application's dealer.
Told(a, event) == \E i \in DOMAIN webhooks[a] : webhooks[a][i] = event

\* The unconditional UPDATEs of the status keep it in step with the rows of
\* the other tables: what they overwrite is what they take it to be, or a
\* cancellation.
StatusAgrees ==
    \A a \in Apps :
        /\ decision[a] = "none" =>
               status[a] \in {"none", "pending_consent", "pending_decision", "cancelled"}
        /\ decision[a] = "declined" => status[a] \in {"declined", "cancelled"}
        /\ decision[a] = "approved" /\ ~contract[a] => status[a] \in {"decided", "cancelled"}
        /\ contract[a] /\ ~loan[a] => status[a] \in {"contracted", "cancelled"}

\* An application is consented to once, so one request decides it and has the
\* verdict to announce.
OneDecider ==
    /\ \A q, r \in Requests :
        Deciding(q) /\ Deciding(r) /\ req[q].app = req[r].app => q = r
    /\ \A r \in Requests :
        /\ req[r].at \in {"decide", "score"} => decision[req[r].app] = "none"
        /\ At(r, "announce") => /\ decision[req[r].app] # "none"
                                /\ ~Told(req[r].app, "decided")
                                /\ ~Told(req[r].app, "declined")
        /\ Deciding(r) => status[req[r].app] \notin {"none", "pending_consent"}

\* No event is queued twice, and none that did not take place.
ToldOnce ==
    \A a \in Apps : \A i, j \in DOMAIN webhooks[a] : webhooks[a][i] = webhooks[a][j] => i = j
ToldTruly ==
    \A a \in Apps :
        /\ Told(a, "decided") => decision[a] = "approved"
        /\ Told(a, "declined") => decision[a] = "declined"
        /\ Told(a, "contracted") => contract[a]
        /\ Told(a, "disbursed") => loan[a]

HistoryInv == StatusAgrees /\ OneDecider /\ ToldOnce /\ ToldTruly

LEMMA InitHistoryInv == Init => HistoryInv
  BY DEF Init, HistoryInv, StatusAgrees, OneDecider, Deciding, At, ToldOnce, ToldTruly, Told

----------------------------------------------------------------------------
(* What the steps that keep it have in common                              *)

\* A row that is new to the queue adds its event to what the dealer is told.
LEMMA QueueTells ==
  ASSUME TypeOK, ToldOnce, NEW a \in Apps, NEW e \in Events, Queue(a, e), ~Told(a, e)
  PROVE  /\ ToldOnce'
         /\ \A b \in Apps, f \in Events : Told(b, f)' <=> Told(b, f) \/ (b = a /\ f = e)
<1>1. webhooks[a] \in Seq(Events)
  BY DEF TypeOK
<1>2. /\ webhooks'[a] = Append(webhooks[a], e)
      /\ \A b \in Apps : b # a => webhooks'[b] = webhooks[b]
  BY DEF Queue, TypeOK
<1>3. /\ DOMAIN webhooks[a] = 1..Len(webhooks[a])
      /\ DOMAIN webhooks'[a] = 1..Len(webhooks[a]) + 1
      /\ webhooks'[a][Len(webhooks[a]) + 1] = e
      /\ \A i \in 1..Len(webhooks[a]) : webhooks'[a][i] = webhooks[a][i]
      /\ Len(webhooks[a]) \in Nat
  BY <1>1, <1>2
<1>4. \A i \in 1..Len(webhooks[a]) : webhooks[a][i] # e
  BY <1>3 DEF Told
<1>5. ToldOnce'
  <2>1. \A i, j \in DOMAIN webhooks'[a] : webhooks'[a][i] = webhooks'[a][j] => i = j
    BY <1>3, <1>4 DEF ToldOnce
  <2> QED
    BY <1>2, <2>1 DEF ToldOnce
<1>6. \A f \in Events : (\E i \in DOMAIN webhooks'[a] : webhooks'[a][i] = f)
                            <=> Told(a, f) \/ f = e
  BY <1>3 DEF Told
<1>7. \A b \in Apps, f \in Events : Told(b, f)' <=> Told(b, f) \/ (b = a /\ f = e)
  BY <1>2, <1>6 DEF Told
<1> QED
  BY <1>5, <1>7

\* A step that writes no row of these tables and puts no request inside
\* customer-consent, leaving the status alone or going on with it.
LEMMA HistoryUntouched ==
  ASSUME HistoryInv, StatusAgrees',
         UNCHANGED <<decision, contract, loan, webhooks>>,
         \A q \in Requests : req'[q] = req[q] \/ ~Deciding(q)',
         \A b : status[b] \notin {"none", "pending_consent"}
                    => status'[b] \notin {"none", "pending_consent"}
  PROVE  HistoryInv'
<1>1. \A a, e : Told(a, e)' <=> Told(a, e)
  BY DEF Told
<1>2. OneDecider'
  BY <1>1 DEF HistoryInv, OneDecider, Deciding, At
<1>3. ToldOnce' /\ ToldTruly'
  BY <1>1 DEF HistoryInv, ToldOnce, ToldTruly
<1> QED
  BY <1>2, <1>3 DEF HistoryInv

\* A request moves on, or ends, outside customer-consent.
LEMMA HistoryPasses ==
  ASSUME HistoryInv, NEW r \in Requests, NEW stage, NEW a, NEW ok,
         UNCHANGED <<status, decision, contract, loan, webhooks>>,
         stage \notin {"decide", "score", "announce"}, SlotMoved(r, stage, a, ok)
  PROVE  HistoryInv'
<1>1. StatusAgrees'
  BY DEF HistoryInv, StatusAgrees
<1>2. \A q \in Requests : req'[q] = req[q] \/ ~Deciding(q)'
  BY DEF SlotMoved, Deciding
<1> QED
  BY <1>1, <1>2, HistoryUntouched

\* Writing a status beside its audit row leaves the other applications alone.
LEMMA EnterOnly ==
  ASSUME TypeOK, NEW a \in Apps, NEW from, NEW to, Enter(a, from, to)
  PROVE  status'[a] = to /\ \A b \in Apps : b # a => status'[b] = status[b]
  BY DEF Enter, TypeOK

----------------------------------------------------------------------------
(* One lemma per action that writes a status, a verdict or a webhook       *)

LEMMA DealerHistory ==
  ASSUME TypeInv, FundingInv, HistoryInv, NEW a \in Apps,
         CreateApplication(a) \/ CancelApplication(a)
  PROVE  HistoryInv'
<1>1. UNCHANGED <<decision, contract, loan, webhooks, req>>
  BY DEF CreateApplication, CancelApplication
<1>2. PICK to \in {"pending_consent", "cancelled"} : Enter(a, status[a], to)
  BY DEF CreateApplication, CancelApplication
<1>3. status'[a] = to /\ \A b \in Apps : b # a => status'[b] = status[b]
  BY <1>2, EnterOnly DEF TypeInv
<1>4. to = "pending_consent" => status[a] = "none"
  <2>1. CASE CreateApplication(a)
    BY <2>1 DEF CreateApplication
  <2>2. CASE CancelApplication(a)
    <3>1. Enter(a, status[a], "cancelled")
      BY <2>2 DEF CancelApplication
    <3>2. status'[a] = "cancelled"
      BY <3>1, EnterOnly DEF TypeInv
    <3> QED
      BY <1>3, <3>2
  <2> QED
    BY <2>1, <2>2
<1>5. StatusAgrees'
  BY <1>1, <1>3, <1>4 DEF HistoryInv, StatusAgrees, TypeInv, TypeOK, Verdicts, CustomerIsBound
<1>6. OneDecider'
  <2>1. \A b, e : Told(b, e)' <=> Told(b, e)
    BY <1>1 DEF Told
  <2>2. ASSUME NEW r \in Requests, Deciding(r)
        PROVE  status'[req[r].app] \notin {"none", "pending_consent"}
    <3>1. req[r].app \in Apps /\ status[req[r].app] \notin {"none", "pending_consent"}
      BY <2>2, BusySlotHasApp DEF HistoryInv, OneDecider, Deciding, TypeInv
    <3> QED
      BY <1>3, <1>4, <3>1
  <2> QED
    BY <1>1, <2>1, <2>2 DEF HistoryInv, OneDecider, Deciding, At
<1>7. ToldOnce' /\ ToldTruly'
  BY <1>1 DEF HistoryInv, ToldOnce, ToldTruly, Told
<1> QED
  BY <1>5, <1>6, <1>7 DEF HistoryInv

LEMMA ConsentHistory ==
  ASSUME TypeInv, FundingInv, HistoryInv,
         NEW r \in Requests, NEW a \in Apps, NEW c \in Customers, CustomerConsent(r, a, c)
  PROVE  HistoryInv'
<1>1. SlotMoved(r, "decide", a, FALSE)
  BY SlotGoesTo DEF CustomerConsent, Stages, TypeInv
<1>2. UNCHANGED <<decision, contract, loan, webhooks>>
  BY DEF CustomerConsent
<1>3. /\ status[a] = "pending_consent" /\ status'[a] = "pending_decision"
      /\ \A b \in Apps : b # a => status'[b] = status[b]
  BY DEF CustomerConsent, Consentable, TypeInv, TypeOK
<1>4. decision[a] = "none"
  <2>1. decision[a] \in Verdicts /\ (loan[a] => status[a] = "disbursed")
    BY DEF TypeInv, TypeOK, FundingInv, BooksAgree
  <2> QED
    BY <1>3, <2>1 DEF HistoryInv, StatusAgrees, Verdicts
<1>5. \A b, e : Told(b, e)' <=> Told(b, e)
  BY <1>2 DEF Told
<1>6. StatusAgrees'
  BY <1>2, <1>3, <1>4 DEF HistoryInv, StatusAgrees, TypeInv, CustomerIsBound
<1>7. OneDecider'
  <2>1. ASSUME NEW q \in Requests, q # r, Deciding(q)'
        PROVE  req'[q] = req[q] /\ Deciding(q) /\ req[q].app \in Apps /\ req[q].app # a
    <3>1. req'[q] = req[q] /\ Deciding(q)
      BY <1>1, <2>1 DEF SlotMoved, Deciding
    <3> QED
      BY <1>3, <3>1, BusySlotHasApp DEF HistoryInv, OneDecider, Deciding, TypeInv
  <2>2. At(r, "decide")' /\ req'[r].app = a
    BY <1>1 DEF SlotMoved, At
  <2> QED
    BY <1>2, <1>3, <1>4, <1>5, <2>1, <2>2 DEF HistoryInv, OneDecider, Deciding, At
<1>8. ToldOnce' /\ ToldTruly'
  BY <1>2 DEF HistoryInv, ToldOnce, ToldTruly, Told
<1> QED
  BY <1>6, <1>7, <1>8 DEF HistoryInv

LEMMA DecideReadHistory ==
  ASSUME TypeInv, HistoryInv, NEW r \in Requests, DecideRead(r)
  PROVE  HistoryInv'
<1> DEFINE a == req[r].app
<1>1. /\ a \in Apps /\ customer[a] \in Customers /\ decision[a] = "none"
      /\ status[a] \notin {"none", "pending_consent"}
  BY BusySlotHasApp
  DEF DecideRead, At, TypeInv, CustomerIsBound, HistoryInv, OneDecider, Deciding
<1>2. SlotMoved(r, "score", a, FALSE)
  <2>1. debt[customer[a]] \in Nat /\ "score" \in Stages
    BY <1>1 DEF TypeInv, TypeOK, Stages
  <2>2. SetRequest(r, "score", a, debt[customer[a]], FALSE)
    BY <1>1 DEF DecideRead
  <2> QED
    BY <1>1, <2>1, <2>2, SlotUpdate DEF TypeInv
<1>3. UNCHANGED <<status, decision, contract, loan, webhooks>>
  BY DEF DecideRead
<1>4. Deciding(r)
  BY DEF DecideRead, At, Deciding
<1>5. OneDecider'
  <2>1. ASSUME NEW q \in Requests, q # r, Deciding(q)'
        PROVE  req'[q] = req[q] /\ Deciding(q)
    BY <1>2, <2>1 DEF SlotMoved, Deciding
  <2>2. At(r, "score")' /\ req'[r].app = a
    BY <1>2 DEF SlotMoved, At
  <2>3. \A b, e : Told(b, e)' <=> Told(b, e)
    BY <1>3 DEF Told
  <2> QED
    BY <1>1, <1>3, <1>4, <2>1, <2>2, <2>3 DEF HistoryInv, OneDecider, Deciding, At
<1>6. StatusAgrees' /\ ToldOnce' /\ ToldTruly'
  BY <1>3 DEF HistoryInv, StatusAgrees, ToldOnce, ToldTruly, Told
<1> QED
  BY <1>5, <1>6 DEF HistoryInv

LEMMA DecideCommitHistory ==
  ASSUME TypeInv, FundingInv, HistoryInv, NEW r \in Requests, DecideCommit(r)
  PROVE  HistoryInv'
<1> DEFINE a == req[r].app
<1>1. a \in Apps /\ decision[a] = "none" /\ ~contract[a] /\ ~loan[a]
  BY BusySlotHasApp DEF DecideCommit, At, TypeInv, CustomerIsBound, FundingInv, BooksAgree
<1>2. SlotMoved(r, "announce", a, FALSE)
  BY <1>1, SlotGoesTo DEF DecideCommit, Stages, TypeInv
<1>3. UNCHANGED <<contract, loan, webhooks>>
  BY DEF DecideCommit
<1>4. /\ \A b \in Apps : b # a => decision'[b] = decision[b] /\ status'[b] = status[b]
      /\ \/ decision'[a] = "declined" /\ status'[a] = "declined"
         \/ decision'[a] = "approved" /\ status'[a] = "decided"
  BY <1>1 DEF DecideCommit, Enter, TypeInv, TypeOK
<1>5. ~Told(a, "decided") /\ ~Told(a, "declined")
  BY <1>1 DEF HistoryInv, ToldTruly
<1>6. \A b, e : Told(b, e)' <=> Told(b, e)
  BY <1>3 DEF Told
<1>7. StatusAgrees'
  BY <1>1, <1>3, <1>4 DEF HistoryInv, StatusAgrees
<1>8. OneDecider'
  <2>1. ASSUME NEW q \in Requests, q # r, Deciding(q)'
        PROVE  req'[q] = req[q] /\ Deciding(q) /\ req[q].app \in Apps /\ req[q].app # a
    <3>1. req'[q] = req[q] /\ Deciding(q)
      BY <1>2, <2>1 DEF SlotMoved, Deciding
    <3>2. Deciding(r)
      BY DEF DecideCommit, At, Deciding
    <3> QED
      BY <2>1, <3>1, <3>2, BusySlotHasApp DEF HistoryInv, OneDecider, Deciding, TypeInv
  <2>2. At(r, "announce")' /\ req'[r].app = a
    BY <1>2 DEF SlotMoved, At
  <2> QED
    BY <1>4, <1>5, <1>6, <2>1, <2>2 DEF HistoryInv, OneDecider, Deciding, At
<1>9. ToldOnce' /\ ToldTruly'
  BY <1>1, <1>3, <1>4, <1>5, <1>6 DEF HistoryInv, ToldOnce, ToldTruly
<1> QED
  BY <1>7, <1>8, <1>9 DEF HistoryInv

LEMMA AnnounceHistory ==
  ASSUME TypeInv, HistoryInv, NEW r \in Requests, EnqueueDecisionWebhook(r)
  PROVE  HistoryInv'
<1> DEFINE a == req[r].app
           e == IF decision[a] = "approved" THEN "decided" ELSE "declined"
<1>1. /\ a \in Apps /\ decision[a] \in {"approved", "declined"}
      /\ ~Told(a, "decided") /\ ~Told(a, "declined")
  BY BusySlotHasApp
  DEF EnqueueDecisionWebhook, At, TypeInv, TypeOK, Verdicts, HistoryInv, OneDecider
<1>2. SlotMoved(r, "idle", NoApp, FALSE)
  BY SlotFinishes DEF EnqueueDecisionWebhook, TypeInv
<1>3. UNCHANGED <<status, decision, contract, loan>> /\ Queue(a, e)
  BY DEF EnqueueDecisionWebhook
<1>4. e \in Events /\ ~Told(a, e)
  BY <1>1 DEF Events
<1> HIDE DEF e
<1>5. /\ ToldOnce'
      /\ \A b \in Apps, f \in Events : Told(b, f)' <=> Told(b, f) \/ (b = a /\ f = e)
  BY <1>1, <1>3, <1>4, QueueTells DEF HistoryInv, TypeInv
<1>6. ToldTruly'
  <2>1. \/ e = "decided" /\ decision[a] = "approved"
        \/ e = "declined" /\ decision[a] = "declined"
    BY <1>1 DEF e
  <2> QED
    BY <1>3, <1>5, <2>1 DEF HistoryInv, ToldTruly, Events
<1>7. OneDecider'
  <2>1. ASSUME NEW q \in Requests, Deciding(q)'
        PROVE  /\ req'[q] = req[q] /\ Deciding(q)
               /\ req[q].app \in Apps /\ req[q].app # a
    <3>1. q # r /\ req'[q] = req[q] /\ Deciding(q)
      BY <1>2, <2>1 DEF SlotMoved, Deciding
    <3>2. Deciding(r)
      BY DEF EnqueueDecisionWebhook, At, Deciding
    <3> QED
      BY <3>1, <3>2, BusySlotHasApp DEF HistoryInv, OneDecider, Deciding, TypeInv
  <2> QED
    BY <1>3, <1>5, <2>1 DEF HistoryInv, OneDecider, Deciding, At, Events
<1>8. StatusAgrees'
  BY <1>3 DEF HistoryInv, StatusAgrees
<1> QED
  BY <1>5, <1>6, <1>7, <1>8 DEF HistoryInv

LEMMA SignCommitHistory ==
  ASSUME TypeInv, FundingInv, HistoryInv, NEW r \in Requests, SignCommit(r)
  PROVE  HistoryInv'
<1> DEFINE a == req[r].app
<1>1. a \in Apps /\ ~contract[a] /\ decision[a] = "approved" /\ ~loan[a]
  BY BusySlotHasApp DEF SignCommit, At, TypeInv, CustomerIsBound, FundingInv, BooksAgree
<1>2. SlotMoved(r, "queue", a, FALSE)
  BY <1>1, SlotGoesTo DEF SignCommit, Stages, TypeInv
<1>3. UNCHANGED <<decision, loan>> /\ Queue(a, "contracted")
  BY DEF SignCommit
<1>4. /\ contract'[a] /\ status'[a] = "contracted"
      /\ \A b \in Apps : b # a => contract'[b] = contract[b] /\ status'[b] = status[b]
  BY <1>1 DEF SignCommit, Enter, TypeInv, TypeOK
<1>5. /\ ToldOnce'
      /\ \A b \in Apps, f \in Events :
             Told(b, f)' <=> Told(b, f) \/ (b = a /\ f = "contracted")
  <2>1. "contracted" \in Events /\ ~Told(a, "contracted")
    BY <1>1 DEF HistoryInv, ToldTruly, Events
  <2> QED
    BY <1>1, <1>3, <2>1, QueueTells DEF HistoryInv, TypeInv
<1>6. StatusAgrees'
  BY <1>1, <1>3, <1>4 DEF HistoryInv, StatusAgrees
<1>7. OneDecider'
  <2>1. ASSUME NEW q \in Requests, Deciding(q)'
        PROVE  req'[q] = req[q] /\ Deciding(q) /\ req[q].app \in Apps
    BY <1>2, <2>1, BusySlotHasApp DEF SlotMoved, Deciding, TypeInv
  <2> QED
    BY <1>3, <1>4, <1>5, <2>1 DEF HistoryInv, OneDecider, Deciding, At, Events
<1>8. ToldTruly'
  BY <1>3, <1>4, <1>5 DEF HistoryInv, ToldTruly, Events
<1> QED
  BY <1>5, <1>6, <1>7, <1>8 DEF HistoryInv

LEMMA CompleteHistory ==
  ASSUME TypeInv, FundingInv, HistoryInv, NEW r \in Requests, CompleteDisbursement(r)
  PROVE  HistoryInv'
<1> DEFINE a == req[r].app
<1>1. a \in Apps /\ contract[a] /\ decision[a] = "approved" /\ ~loan[a]
  BY BusySlotHasApp
  DEF CompleteDisbursement, At, TypeInv, CustomerIsBound, FundingInv, DisburserAgrees, BooksAgree
<1>2. SlotMoved(r, "idle", NoApp, FALSE)
  BY SlotFinishes DEF CompleteDisbursement, TypeInv
<1>3. UNCHANGED <<decision, contract>> /\ Queue(a, "disbursed")
  BY DEF CompleteDisbursement
<1>4. /\ loan'[a] /\ status'[a] = "disbursed"
      /\ \A b \in Apps : b # a => loan'[b] = loan[b] /\ status'[b] = status[b]
  BY <1>1 DEF CompleteDisbursement, Enter, TypeInv, TypeOK
<1>5. /\ ToldOnce'
      /\ \A b \in Apps, f \in Events :
             Told(b, f)' <=> Told(b, f) \/ (b = a /\ f = "disbursed")
  <2>1. "disbursed" \in Events /\ ~Told(a, "disbursed")
    BY <1>1 DEF HistoryInv, ToldTruly, Events
  <2> QED
    BY <1>1, <1>3, <2>1, QueueTells DEF HistoryInv, TypeInv
<1>6. StatusAgrees'
  BY <1>1, <1>3, <1>4 DEF HistoryInv, StatusAgrees
<1>7. OneDecider'
  <2>1. ASSUME NEW q \in Requests, Deciding(q)'
        PROVE  req'[q] = req[q] /\ Deciding(q) /\ req[q].app \in Apps
    BY <1>2, <2>1, BusySlotHasApp DEF SlotMoved, Deciding, TypeInv
  <2> QED
    BY <1>3, <1>4, <1>5, <2>1 DEF HistoryInv, OneDecider, Deciding, At, Events
<1>8. ToldTruly'
  BY <1>3, <1>4, <1>5 DEF HistoryInv, ToldTruly, Events
<1> QED
  BY <1>5, <1>6, <1>7, <1>8 DEF HistoryInv

LEMMA HistoryInvStep == TypeInv /\ FundingInv /\ HistoryInv /\ [Next]_vars => HistoryInv'
<1> SUFFICES ASSUME TypeInv, FundingInv, HistoryInv, [Next]_vars PROVE HistoryInv'
  OBVIOUS
<1>1. ASSUME NEW a \in Apps, OfferLapses(a) PROVE HistoryInv'
  <2>1. UNCHANGED <<status, decision, contract, loan, webhooks, req>>
    BY <1>1 DEF OfferLapses
  <2>2. StatusAgrees'
    BY <2>1 DEF HistoryInv, StatusAgrees
  <2> QED
    BY <2>1, <2>2, HistoryUntouched
<1>2. ASSUME NEW r \in Requests, NEW a \in Apps, SignRead(r, a) PROVE HistoryInv'
  <2>1. SlotMoved(r, "sign", a, FALSE)
    BY <1>2, SlotGoesTo DEF SignRead, Stages, TypeInv
  <2> QED
    BY <1>2, <2>1, HistoryPasses DEF SignRead
<1>3. ASSUME NEW r \in Requests, SignLosesRace(r) \/ FailDisbursement(r) \/ RequestDies(r)
      PROVE  HistoryInv'
  <2>1. SlotMoved(r, "idle", NoApp, FALSE)
    BY <1>3, SlotFinishes DEF SignLosesRace, FailDisbursement, RequestDies, TypeInv
  <2>2. UNCHANGED <<status, decision, contract, loan, webhooks>>
    BY <1>3 DEF SignLosesRace, FailDisbursement, RequestDies
  <2> QED
    BY <2>1, <2>2, HistoryPasses
<1>4. ASSUME NEW r \in Requests, QueueDisbursement(r) PROVE HistoryInv'
  <2>1. SlotMoved(r, "transfer", req[r].app, FALSE)
    BY <1>4, BusySlotHasApp, SlotGoesTo DEF QueueDisbursement, At, Stages, TypeInv
  <2> QED
    BY <1>4, <2>1, HistoryPasses DEF QueueDisbursement
<1>5. ASSUME NEW r \in Requests,
             ExecuteTransfer(r) \/ RefuseTransfer(r) \/ SimulateTransfer(r)
      PROVE  HistoryInv'
  <2>1. req[r].app \in Apps
    BY <1>5, BusySlotHasApp
    DEF ExecuteTransfer, RefuseTransfer, SimulateTransfer, At, TypeInv
  <2>2. PICK ok \in BOOLEAN : SetRequest(r, "finalise", req[r].app, 0, ok)
    BY <1>5 DEF ExecuteTransfer, RefuseTransfer, SimulateTransfer, GoTo
  <2>3. SlotMoved(r, "finalise", req[r].app, ok)
    BY <2>1, <2>2, SlotFinalises DEF TypeInv
  <2>4. UNCHANGED <<status, decision, contract, loan, webhooks>>
    BY <1>5 DEF ExecuteTransfer, RefuseTransfer, SimulateTransfer
  <2> QED
    BY <2>3, <2>4, HistoryPasses
<1>6. CASE UNCHANGED vars
  <2>1. UNCHANGED <<status, decision, contract, loan, webhooks, req>>
    BY <1>6 DEF vars
  <2>2. StatusAgrees'
    BY <2>1 DEF HistoryInv, StatusAgrees
  <2> QED
    BY <2>1, <2>2, HistoryUntouched
<1> QED
  BY <1>1, <1>2, <1>3, <1>4, <1>5, <1>6, DealerHistory, ConsentHistory, DecideReadHistory,
     DecideCommitHistory, AnnounceHistory, SignCommitHistory, CompleteHistory DEF Next, Proceed

LEMMA HistoryHolds == Spec => [](TypeInv /\ FundingInv /\ HistoryInv)
<1>1. Init => HistoryInv
  BY InitHistoryInv
<1>2. TypeInv /\ FundingInv /\ HistoryInv /\ [Next]_vars => HistoryInv'
  BY HistoryInvStep
<1> QED
  BY <1>1, <1>2, InvariantHolds, PTL DEF Spec

----------------------------------------------------------------------------
(* The theorems                                                            *)

\* The dealer is told of each event at most once, and only of events that took
\* place, in whatever order the two replicas' handlers queue them and wherever
\* a handler dies.
THEOREM DealersAreToldTruly == Spec => []WebhooksTellTheTruth
<1>1. TypeInv /\ HistoryInv => WebhooksTellTheTruth
  <2> SUFFICES ASSUME TypeInv, HistoryInv, NEW a \in Apps, NEW i \in DOMAIN webhooks[a]
               PROVE  CASE webhooks[a][i] = "decided" -> decision[a] = "approved"
                        [] webhooks[a][i] = "declined" -> decision[a] = "declined"
                        [] webhooks[a][i] = "contracted" -> contract[a]
                        [] webhooks[a][i] = "disbursed" -> loan[a]
    BY DEF WebhooksTellTheTruth, HistoryInv, ToldOnce
  <2>1. webhooks[a][i] \in Events
    BY DEF TypeInv, TypeOK
  <2>2. Told(a, webhooks[a][i])
    BY DEF Told
  <2>3. CASE webhooks[a][i] = "decided"
    BY <2>2, <2>3 DEF HistoryInv, ToldTruly
  <2>4. CASE webhooks[a][i] = "declined"
    BY <2>2, <2>4 DEF HistoryInv, ToldTruly
  <2>5. CASE webhooks[a][i] = "contracted"
    BY <2>2, <2>5 DEF HistoryInv, ToldTruly
  <2>6. CASE webhooks[a][i] = "disbursed"
    BY <2>2, <2>6 DEF HistoryInv, ToldTruly
  <2> QED
    BY <2>1, <2>3, <2>4, <2>5, <2>6 DEF Events
<1> QED
  BY <1>1, HistoryHolds, PTL

\* The audit row written beside a status is the newest one and names it.
LEMMA EnterAudits ==
  ASSUME TypeOK, AuditEndsAtStatus, NEW a \in Apps, NEW from \in Statuses,
         NEW to \in Statuses, Enter(a, from, to)
  PROVE  AuditEndsAtStatus'
<1>1. audit[a] \in Seq(Statuses \X Statuses) /\ <<from, to>> \in Statuses \X Statuses
  BY DEF TypeOK
<1>2. audit'[a] = Append(audit[a], <<from, to>>) /\ status'[a] = to
  BY DEF Enter, TypeOK
<1>3. audit'[a] # <<>> /\ audit'[a][Len(audit'[a])][2] = to
  BY <1>1, <1>2
<1>4. \A b \in Apps : b # a => audit'[b] = audit[b] /\ status'[b] = status[b]
  BY DEF Enter, TypeOK
<1> QED
  BY <1>2, <1>3, <1>4 DEF AuditEndsAtStatus

\* The steps that write a status, and what they write beside it.
LEMMA StatusWriters ==
  ASSUME TypeInv, [Next]_vars
  PROVE  \/ UNCHANGED <<status, audit>>
         \/ \E a \in Apps : CreateApplication(a) \/ CancelApplication(a)
         \/ \E r \in Requests, a \in Apps, c \in Customers : CustomerConsent(r, a, c)
         \/ \E r \in Requests : DecideCommit(r) \/ SignCommit(r) \/ CompleteDisbursement(r)
<1>1. CASE UNCHANGED vars
  BY <1>1 DEF vars
<1>2. ASSUME NEW a \in Apps, OfferLapses(a) PROVE UNCHANGED <<status, audit>>
  BY <1>2 DEF OfferLapses
<1>3. ASSUME NEW r \in Requests, NEW a \in Apps, SignRead(r, a)
      PROVE  UNCHANGED <<status, audit>>
  BY <1>3 DEF SignRead
<1>4. ASSUME NEW r \in Requests,
             \/ DecideRead(r) \/ EnqueueDecisionWebhook(r) \/ SignLosesRace(r)
             \/ QueueDisbursement(r) \/ ExecuteTransfer(r) \/ RefuseTransfer(r)
             \/ SimulateTransfer(r) \/ FailDisbursement(r) \/ RequestDies(r)
      PROVE  UNCHANGED <<status, audit>>
  BY <1>4
  DEF DecideRead, EnqueueDecisionWebhook, SignLosesRace, QueueDisbursement, ExecuteTransfer,
      RefuseTransfer, SimulateTransfer, FailDisbursement, RequestDies
<1> QED
  BY <1>1, <1>2, <1>3, <1>4 DEF Next, Proceed

\* The newest row of the audit trail names the current status, whatever order
\* the unconditional UPDATEs come in, except while a decision is pending.
THEOREM AuditIsCurrent == Spec => []AuditEndsAtStatus
<1>1. Init => AuditEndsAtStatus
  <2>1. Init => status = [a \in Apps |-> "none"]
    BY Zenon DEF Init
  <2>2. status = [a \in Apps |-> "none"] => \A a \in Apps : status[a] = "none"
    BY Zenon
  <2> QED
    BY <2>1, <2>2 DEF AuditEndsAtStatus
<1>2. TypeInv /\ AuditEndsAtStatus /\ [Next]_vars => AuditEndsAtStatus'
  <2> SUFFICES ASSUME TypeInv, AuditEndsAtStatus, [Next]_vars PROVE AuditEndsAtStatus'
    OBVIOUS
  <2>1. CASE UNCHANGED <<status, audit>>
    BY <2>1 DEF AuditEndsAtStatus
  <2>2. ASSUME NEW a \in Apps, CreateApplication(a) \/ CancelApplication(a)
        PROVE  AuditEndsAtStatus'
    <3>1. PICK to \in {"pending_consent", "cancelled"} : Enter(a, status[a], to)
      BY <2>2 DEF CreateApplication, CancelApplication
    <3>2. status[a] \in Statuses /\ to \in Statuses
      BY DEF TypeInv, TypeOK, Statuses
    <3> QED
      BY <3>1, <3>2, EnterAudits DEF TypeInv
  <2>3. ASSUME NEW r \in Requests, NEW a \in Apps, NEW c \in Customers, CustomerConsent(r, a, c)
        PROVE  AuditEndsAtStatus'
    <3>1. /\ status'[a] = "pending_decision" /\ UNCHANGED audit
          /\ \A b \in Apps : b # a => status'[b] = status[b]
      BY <2>3 DEF CustomerConsent, TypeInv, TypeOK
    <3> QED
      BY <3>1 DEF AuditEndsAtStatus
  <2>4. ASSUME NEW r \in Requests,
               DecideCommit(r) \/ SignCommit(r) \/ CompleteDisbursement(r)
        PROVE  AuditEndsAtStatus'
    <3>1. req[r].app \in Apps
      BY <2>4, BusySlotHasApp DEF DecideCommit, SignCommit, CompleteDisbursement, At, TypeInv
    <3>2. PICK from \in Statuses, to \in Statuses : Enter(req[r].app, from, to)
      BY <2>4 DEF DecideCommit, SignCommit, CompleteDisbursement, Statuses
    <3> QED
      BY <3>1, <3>2, EnterAudits DEF TypeInv
  <2> QED
    BY <2>1, <2>2, <2>3, <2>4, StatusWriters
<1> QED
  BY <1>1, <1>2, InvariantHolds, PTL DEF Spec

\* No step takes a status back, except that a request in flight overwrites a
\* cancellation: DecideCommit, SignCommit and CompleteDisbursement write the
\* status whatever it is, and still never undo what another of them wrote.
THEOREM StatusNeverGoesBack == Spec => StatusMovesForward
<1> DEFINE Forward(b) ==
        \/ status'[b] = status[b]
        \/ status[b] = "cancelled"
        \/ /\ Rank[status[b]] < Rank[status'[b]]
           /\ status[b] = "declined" => status'[b] = "cancelled"
<1>0. /\ Rank["none"] = 0 /\ Rank["pending_consent"] = 1 /\ Rank["pending_decision"] = 2
      /\ Rank["decided"] = 3 /\ Rank["declined"] = 3 /\ Rank["contracted"] = 4
      /\ Rank["disbursed"] = 5 /\ Rank["cancelled"] = 5
  BY DEF Rank, Statuses
<1>1. ASSUME TypeInv, FundingInv, HistoryInv, [Next]_vars
      PROVE  \A b \in Apps : Forward(b)
  <2>1. ASSUME NEW a \in Apps, CreateApplication(a) PROVE \A b \in Apps : Forward(b)
    <3>1. status[a] = "none" /\ Enter(a, "none", "pending_consent")
      BY <2>1 DEF CreateApplication
    <3> QED
      BY <1>0, <1>1, <3>1, EnterOnly DEF TypeInv
  <2>2. ASSUME NEW a \in Apps, CancelApplication(a) PROVE \A b \in Apps : Forward(b)
    <3>1. status[a] \in Statuses \ {"none", "disbursed", "cancelled"}
      BY <1>1, <2>2 DEF CancelApplication, Cancellable, TypeInv, TypeOK
    <3>2. Enter(a, status[a], "cancelled")
      BY <2>2 DEF CancelApplication
    <3>3. Rank[status[a]] < Rank["cancelled"]
      BY <1>0, <3>1 DEF Statuses
    <3> QED
      BY <1>1, <3>2, <3>3, EnterOnly DEF TypeInv
  <2>3. ASSUME NEW r \in Requests, NEW a \in Apps, NEW c \in Customers, CustomerConsent(r, a, c)
        PROVE  \A b \in Apps : Forward(b)
    <3>1. /\ status[a] = "pending_consent" /\ status'[a] = "pending_decision"
          /\ \A b \in Apps : b # a => status'[b] = status[b]
      BY <1>1, <2>3 DEF CustomerConsent, Consentable, TypeInv, TypeOK
    <3> QED
      BY <1>0, <3>1
  <2>4. ASSUME NEW r \in Requests, DecideCommit(r) PROVE \A b \in Apps : Forward(b)
    <3> DEFINE a == req[r].app
    <3>1. a \in Apps /\ status[a] \in {"pending_decision", "cancelled"}
      BY <1>1, <2>4, BusySlotHasApp
      DEF DecideCommit, At, TypeInv, HistoryInv, StatusAgrees, OneDecider, Deciding
    <3>2. PICK to \in {"decided", "declined"} : Enter(a, "pending_decision", to)
      BY <2>4 DEF DecideCommit
    <3>3. status'[a] = to /\ \A b \in Apps : b # a => status'[b] = status[b]
      BY <1>1, <3>1, <3>2, EnterOnly DEF TypeInv
    <3> QED
      BY <1>0, <3>1, <3>3
  <2>5. ASSUME NEW r \in Requests, SignCommit(r) PROVE \A b \in Apps : Forward(b)
    <3> DEFINE a == req[r].app
    <3>1. a \in Apps /\ status[a] \in {"decided", "cancelled"}
      BY <1>1, <2>5, BusySlotHasApp
      DEF SignCommit, At, TypeInv, CustomerIsBound, HistoryInv, StatusAgrees
    <3>2. Enter(a, "decided", "contracted")
      BY <2>5 DEF SignCommit
    <3>3. status'[a] = "contracted" /\ \A b \in Apps : b # a => status'[b] = status[b]
      BY <1>1, <3>1, <3>2, EnterOnly DEF TypeInv
    <3> QED
      BY <1>0, <3>1, <3>3
  <2>6. ASSUME NEW r \in Requests, CompleteDisbursement(r) PROVE \A b \in Apps : Forward(b)
    <3> DEFINE a == req[r].app
    <3>1. a \in Apps /\ contract[a] /\ ~loan[a]
      BY <1>1, <2>6, BusySlotHasApp
      DEF CompleteDisbursement, At, TypeInv, CustomerIsBound, FundingInv, DisburserAgrees,
          BooksAgree
    <3>2. status[a] \in {"contracted", "cancelled"}
      BY <1>1, <3>1 DEF HistoryInv, StatusAgrees
    <3>3. Enter(a, "contracted", "disbursed")
      BY <2>6 DEF CompleteDisbursement
    <3>4. status'[a] = "disbursed" /\ \A b \in Apps : b # a => status'[b] = status[b]
      BY <1>1, <3>1, <3>3, EnterOnly DEF TypeInv
    <3> QED
      BY <1>0, <3>2, <3>4
  <2> QED
    BY <1>1, <2>1, <2>2, <2>3, <2>4, <2>5, <2>6, StatusWriters
<1>2. TypeInv /\ FundingInv /\ HistoryInv /\ [Next]_vars => [\A a \in Apps : Forward(a)]_status
  BY <1>1
<1> QED
  BY <1>2, HistoryHolds, PTL DEF Spec, StatusMovesForward

\* Only a request that was in flight when the dealer cancelled brings a
\* cancelled application back: no handler starts on one.
THEOREM RevivalNeedsARequest == Spec => OnlyInFlightRequestsRevive
<1>1. ASSUME TypeInv, [Next]_vars, NEW a \in Apps,
             status[a] = "cancelled", status'[a] # "cancelled"
      PROVE  \E r \in Requests : req[r].app = a
  <2>1. ASSUME NEW b \in Apps, CreateApplication(b) \/ CancelApplication(b) PROVE FALSE
    <3>1. status[b] # "cancelled" /\ \E from, to : Enter(b, from, to)
      BY <2>1 DEF CreateApplication, CancelApplication, Cancellable
    <3> QED
      BY <1>1, <3>1, EnterOnly DEF TypeInv
  <2>2. ASSUME NEW r \in Requests, NEW b \in Apps, NEW c \in Customers, CustomerConsent(r, b, c)
        PROVE  FALSE
    BY <1>1, <2>2 DEF CustomerConsent, Consentable, TypeInv, TypeOK
  <2>3. ASSUME NEW r \in Requests,
               DecideCommit(r) \/ SignCommit(r) \/ CompleteDisbursement(r)
        PROVE  req[r].app = a
    <3>1. req[r].app \in Apps /\ \E from, to : Enter(req[r].app, from, to)
      <4>1. req[r].app \in Apps
        BY <1>1, <2>3, BusySlotHasApp
        DEF DecideCommit, SignCommit, CompleteDisbursement, At, TypeInv
      <4>2. \E from, to : Enter(req[r].app, from, to)
        BY <2>3 DEF DecideCommit, SignCommit, CompleteDisbursement
      <4> QED
        BY <4>1, <4>2
    <3> QED
      BY <1>1, <3>1, EnterOnly DEF TypeInv
  <2> QED
    BY <1>1, <2>1, <2>2, <2>3, StatusWriters
<1>2. TypeInv /\ [Next]_vars =>
        [\A a \in Apps : status[a] = "cancelled" /\ status'[a] # "cancelled"
             => \E r \in Requests : req[r].app = a]_vars
  BY <1>1
<1> QED
  BY <1>2, InvariantHolds, PTL DEF Spec, OnlyInFlightRequestsRevive
============================================================================
