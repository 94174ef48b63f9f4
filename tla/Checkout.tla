------------------------------ MODULE Checkout ------------------------------
(***************************************************************************)
(* Paying a merchant with a Bank Dhofar account: the three shops that take *)
(* a payment consent to the bank and come back (Salalah Electronics on the *)
(* web, the Sadad store on the web, Salalah Souq on the phone), the bank's *)
(* approval screens (BD Online on the web and on the phone), and the       *)
(* authorisation codes, domestic payments and transfers behind them.       *)
(*                                                                         *)
(* A web customer has several tabs over one localStorage; a phone customer *)
(* has the shop's app, the bank's app and the callback screens that the    *)
(* bank's app opens.  A cart is its total; the state parameter and the     *)
(* order reference are minted with a consent and stand for it; a code is   *)
(* issued at most once per consent, after the one successful authorisation.*)
(***************************************************************************)
EXTENDS Naturals, FiniteSets, Sequences

CONSTANTS
    Clients,     \* the shops to consider, of AllClients
    Tabs,        \* browser tabs of the web customer
    MaxConsents, \* bound: payment consents ever created
    MaxTotal     \* bound: the largest cart

AllClients == {"salalah-web", "sadad-web", "salalah-mobile"}
None == 0
Consents == 1..MaxConsents
NoConsent == {None}

ASSUME CheckoutAssumption ==
    /\ Clients \subseteq AllClients
    /\ MaxConsents \in Nat \ {0}
    /\ MaxTotal \in Nat \ {0}

VARIABLES
    client,     \* the shop this customer uses
    consent,    \* rows of the consent service: status and instructed amount
    code,       \* the authorisation code of each consent
    transfers,  \* transfers the bank executed, oldest first
    store,      \* the shop's persistent storage: cart, state, consent
    page,       \* web: what each tab shows
    bankApp,    \* phone: the screen of the bank's app
    ordering,   \* phone: the total of a checkout whose consent is being created
    run         \* phone: the callback run each consent's redirect started

bankVars == <<consent, code, transfers>>
phoneVars == <<bankApp, ordering, run>>
vars == <<client, consent, code, transfers, store, page, bankApp, ordering, run>>

Web == client \in {"salalah-web", "sadad-web"}
Phone == client = "salalah-mobile"

Totals == 0..MaxTotal
PageStates == {"shop", "creating", "loading", "ready", "picked", "rejecting",
               "coding", "refused", "callback", "exchange", "use", "pay", "settle", "confirm",
               "success", "error"}
RunStates == {"none", "arrived", "read", "use", "pay", "settle", "approved",
              "error"}

NewPage(at, k) == [at |-> at, cart |-> store.cart, consent |-> k, amount |-> 0]
EmptyStore == [cart |-> 0, state |-> None, consent |-> None]
NoRun == [at |-> "none", paying |-> None, left |-> FALSE]

Init ==
    /\ client \in Clients
    /\ consent = [k \in Consents |-> [status |-> "none", amount |-> 0]]
    /\ code = [k \in Consents |-> "none"]
    /\ transfers = <<>>
    /\ store = EmptyStore
    /\ page = [t \in Tabs |-> [at |-> "shop", cart |-> 0, consent |-> None, amount |-> 0]]
    /\ bankApp = [at |-> "home", consent |-> None]
    /\ ordering = 0
    /\ run = [k \in Consents |-> NoRun]

-----------------------------------------------------------------------------
(* The bank.                                                               *)

(* The shop's POST of a domestic-payment consent has made row k.           *)
CreateConsent(k, amount) ==
    /\ consent[k].status = "none"
    /\ \A j \in 1..(k - 1) : consent[j].status # "none"
    /\ consent' = [consent EXCEPT ![k] = [status |-> "AwaitingAuthorisation",
                                          amount |-> amount]]

CanDecide(k) == consent[k].status = "AwaitingAuthorisation"

AuthorizeConsent(k) ==
    /\ CanDecide(k)
    /\ consent' = [consent EXCEPT ![k].status = "Authorised"]

RejectConsent(k) ==
    /\ CanDecide(k)
    /\ consent' = [consent EXCEPT ![k].status = "Rejected"]

GenerateCode(k) == code' = [code EXCEPT ![k] = "fresh"]

(* The exchange reads the code in one connection and marks it used in      *)
(* another, with no condition on the second.                               *)
CodeIsGood(k) == code[k] = "fresh"
MarkUsed(k) == code' = [code EXCEPT ![k] = "used"]

(* Sixty seconds pass.                                                     *)
CodeExpires ==
    /\ \E k \in Consents : code[k] = "fresh" /\ code' = [code EXCEPT ![k] = "expired"]
    /\ UNCHANGED <<client, consent, transfers, store, page, phoneVars>>

(* Mutant of HasAccount: the adapter does not look for a source account.   *)
HasConsent(k) == consent[k].status # "none"

(* The customer and the account are written by the authorisation: a        *)
(* consent that never had one has nobody to debit.                         *)
HasAccount(k) == consent[k].status = "Authorised"

ExecuteTransfer(k, amount) ==
    /\ amount > 0
    /\ transfers' = Append(transfers, [consent |-> k, amount |-> amount])

(* The adapter's domestic payment: the account, the customer and the       *)
(* amount come from the consent, whose status it does not look at.         *)
ExecuteDomesticPayment(k) ==
    /\ HasAccount(k)
    /\ ExecuteTransfer(k, consent[k].amount)

-----------------------------------------------------------------------------
(* A tab of the web shop.                                                  *)

Show(t, at) == page' = [page EXCEPT ![t].at = at]

SetCart(t, total) ==
    /\ page' = [page EXCEPT ![t].cart = total]
    /\ store' = [store EXCEPT !.cart = total]
    /\ UNCHANGED <<client, bankVars, phoneVars>>

(* Each operation changes the tab's own copy and saves the whole cart.     *)
AddToCart(t) ==
    /\ Web /\ page[t].at = "shop" /\ page[t].cart < MaxTotal
    /\ SetCart(t, page[t].cart + 1)

(* Mutant of DecrementItem: lines of quantity zero are not dropped.         *)
DecrementBelowZero(t) ==
    /\ Web /\ page[t].at = "shop"
    /\ SetCart(t, page[t].cart - 1)

DecrementItem(t) ==
    /\ Web /\ page[t].at = "shop" /\ page[t].cart > 0
    /\ SetCart(t, page[t].cart - 1)

CheckoutOffered(t) == Web /\ page[t].at = "shop" /\ page[t].cart > 0

HandlePay(t) ==
    /\ CheckoutOffered(t)
    /\ page' = [page EXCEPT ![t].at = "creating", ![t].amount = page[t].cart]
    /\ UNCHANGED <<client, bankVars, store, phoneVars>>

(* The answer arrives: the context is stored and the tab leaves for the    *)
(* bank's approval page.                                                   *)
ConsentCreated(t) ==
    /\ page[t].at = "creating"
    /\ \E k \in Consents :
         /\ CreateConsent(k, page[t].amount)
         /\ store' = [store EXCEPT !.state = k, !.consent = k]
         /\ page' = [page EXCEPT ![t].at = "loading", ![t].consent = k]
    /\ UNCHANGED <<client, code, transfers, phoneVars>>

PayFails(t) ==
    /\ page[t].at = "creating"
    /\ Show(t, "shop")
    /\ UNCHANGED <<client, bankVars, store, phoneVars>>

(* A full page load at a callback or approval URL: reload, back, the same  *)
(* address opened in another tab.                                          *)
OpenAgain(t, u) ==
    /\ Web
    /\ page[u].at \in {"shop", "error", "success", "refused"} \/ u = t
    /\ \/ /\ page[t].at \in {"loading", "ready", "picked", "coding"}
          /\ page' = [page EXCEPT ![u] = NewPage("loading", page[t].consent)]
       \/ /\ page[t].at \in {"callback", "exchange", "use", "pay", "settle",
                             "confirm", "success", "error"}
          /\ page' = [page EXCEPT ![u] = NewPage("callback", page[t].consent)]
    /\ UNCHANGED <<client, bankVars, store, phoneVars>>

(* The buttons of the result screens; the cart in memory stays.            *)
BackToStore(t) ==
    /\ page[t].at \in {"success", "error"}
    /\ page' = [page EXCEPT ![t].at = "shop", ![t].consent = None, ![t].amount = 0]
    /\ UNCHANGED <<client, bankVars, store, phoneVars>>

(* The browser's back button, from the bank's site.                        *)
BackFromBank(t) ==
    /\ page[t].at \in {"refused", "ready", "picked"}
    /\ page' = [page EXCEPT ![t] = NewPage("shop", None)]
    /\ UNCHANGED <<client, bankVars, store, phoneVars>>

-----------------------------------------------------------------------------
(* BD Online's approval page in the tab.                                   *)

LoadApproval(t) ==
    /\ page[t].at = "loading"
    /\ Show(t, IF CanDecide(page[t].consent) THEN "ready" ELSE "refused")
    /\ UNCHANGED <<client, bankVars, store, phoneVars>>

Redirect(t) == page' = [page EXCEPT ![t] = NewPage("callback", page[t].consent)]

PickAccounts(t) ==
    /\ \/ page[t].at = "ready" /\ Show(t, "picked")
       \/ page[t].at = "picked" /\ Show(t, "ready")
    /\ UNCHANGED <<client, bankVars, store, phoneVars>>

ApproveOffered(t) == page[t].at = "picked"

(* The authorisation is committed before the code is asked for; either     *)
(* answer may be lost, and the page stays with an error notification.      *)
HandleApprove(t) ==
    /\ ApproveOffered(t)
    /\ AuthorizeConsent(page[t].consent)
    /\ \E answered \in BOOLEAN : Show(t, IF answered THEN "coding" ELSE "picked")
    /\ UNCHANGED <<client, code, transfers, store, phoneVars>>

CodeArrives(t) ==
    /\ page[t].at = "coding"
    /\ GenerateCode(page[t].consent)
    /\ \E answered \in BOOLEAN : IF answered THEN Redirect(t) ELSE Show(t, "picked")
    /\ UNCHANGED <<client, consent, transfers, store, phoneVars>>

CodeFails(t) ==
    /\ page[t].at = "coding"
    /\ Show(t, "picked")
    /\ UNCHANGED <<client, bankVars, store, phoneVars>>

(* Declining asks again in a dialog.                                       *)
RejectDialog(t) ==
    /\ \/ page[t].at \in {"ready", "picked"} /\ Show(t, "rejecting")
       \/ page[t].at = "rejecting" /\ Show(t, "ready")
    /\ UNCHANGED <<client, bankVars, store, phoneVars>>

HandleReject(t) ==
    /\ page[t].at = "rejecting"
    /\ RejectConsent(page[t].consent)
    /\ \E answered \in BOOLEAN : IF answered THEN Redirect(t) ELSE Show(t, "ready")
    /\ UNCHANGED <<client, code, transfers, store, phoneVars>>

-----------------------------------------------------------------------------
(* The web shop's callback page.  Its redirect carries an error exactly    *)
(* when the consent was rejected.                                          *)

Declined(k) == consent[k].status = "Rejected"

CallbackDeclined(t) ==
    /\ page[t].at = "callback" /\ Declined(page[t].consent)
    /\ Show(t, "error")
    /\ UNCHANGED <<client, bankVars, store, phoneVars>>

(* Mutant of StateMatches: a missing stored state passes, as on the phone.  *)
StateMatchesOrMissing(k) == store.state \in {None, k}

(* The stored state is removed by the comparison, whatever it says.        *)
StateMatches(k) == store.state = k
DropState == [store EXCEPT !.state = None]

CallbackBadState(t) ==
    /\ page[t].at = "callback" /\ ~Declined(page[t].consent)
    /\ ~StateMatches(page[t].consent)
    /\ store' = DropState
    /\ Show(t, "error")
    /\ UNCHANGED <<client, bankVars, phoneVars>>

GoodCallback(t) ==
    /\ page[t].at = "callback" /\ ~Declined(page[t].consent)
    /\ StateMatches(page[t].consent)
    /\ store' = DropState

ProcessCallback(t) ==
    /\ client = "salalah-web"
    /\ GoodCallback(t)
    /\ page' = [page EXCEPT ![t].at = "exchange", ![t].amount = page[t].cart]
    /\ UNCHANGED <<client, bankVars, phoneVars>>

(* Sadad ignores the code: it waits, then announces the payment.           *)
SadadCallback(t) ==
    /\ client = "sadad-web"
    /\ GoodCallback(t)
    /\ page' = [page EXCEPT ![t].at = "confirm", ![t].amount = page[t].cart]
    /\ UNCHANGED <<client, bankVars, phoneVars>>

(* Mutant of ExchangeCode: a refused exchange is not noticed.               *)
ExchangeUnchecked(t) ==
    /\ page[t].at = "exchange"
    /\ CodeIsGood(page[t].consent)
    /\ Show(t, "use")
    /\ UNCHANGED <<client, bankVars, store, phoneVars>>

ExchangeCode(t) ==
    /\ page[t].at = "exchange"
    /\ Show(t, IF CodeIsGood(page[t].consent) THEN "use" ELSE "error")
    /\ UNCHANGED <<client, bankVars, store, phoneVars>>

CodeUsed(t) ==
    /\ page[t].at = "use"
    /\ MarkUsed(page[t].consent)
    /\ \E answered \in BOOLEAN : Show(t, IF answered THEN "pay" ELSE "error")
    /\ UNCHANGED <<client, consent, transfers, store, phoneVars>>

(* The transfer is for the cart's total, from the account the consent      *)
(* names; the bank may refuse it.                                          *)
PayMerchant(t) ==
    /\ page[t].at = "pay"
    /\ HasAccount(page[t].consent)
    /\ ExecuteTransfer(page[t].consent, page[t].amount)
    /\ Show(t, "settle")
    /\ UNCHANGED <<client, consent, code, store, phoneVars>>

PaymentFails(t) ==
    /\ page[t].at \in {"pay", "settle"}
    /\ Show(t, "error")
    /\ UNCHANGED <<client, bankVars, store, phoneVars>>

Announce(t) ==
    /\ page' = [page EXCEPT ![t].at = "success", ![t].cart = 0]
    /\ store' = EmptyStore
    /\ UNCHANGED <<client, bankVars, phoneVars>>

(* Mutant of PaymentDone: the answer of the transfer is not awaited.        *)
DoneUnanswered(t) == page[t].at \in {"pay", "settle"} /\ Announce(t)

PaymentDone(t) == page[t].at = "settle" /\ Announce(t)

SadadConfirms(t) == page[t].at = "confirm" /\ Announce(t)

(* What the event loop and the network bring to an end on their own.       *)
CallbackStep(t) ==
    \/ CallbackDeclined(t) \/ CallbackBadState(t) \/ ProcessCallback(t)
    \/ ExchangeCode(t) \/ CodeUsed(t) \/ PayMerchant(t) \/ PaymentFails(t) \/ PaymentDone(t)
    \/ SadadCallback(t) \/ SadadConfirms(t)

ApprovalStep(t) ==
    \/ LoadApproval(t) \/ PickAccounts(t) \/ HandleApprove(t)
    \/ CodeArrives(t) \/ CodeFails(t) \/ RejectDialog(t) \/ HandleReject(t)

WebStep(t) ==
    \/ AddToCart(t) \/ DecrementItem(t) \/ HandlePay(t) \/ ConsentCreated(t) \/ PayFails(t)
    \/ \E u \in Tabs : OpenAgain(t, u)
    \/ BackToStore(t) \/ BackFromBank(t)
    \/ ApprovalStep(t) \/ CallbackStep(t)

-----------------------------------------------------------------------------
(* The shop's app on the phone.                                            *)

Processing == {"arrived", "read", "use", "pay", "settle"}
OnCallbackScreen == \E k \in Consents : run[k].at \in Processing /\ ~run[k].left

PhoneSetCart(total) ==
    /\ Phone /\ ~OnCallbackScreen
    /\ store' = [store EXCEPT !.cart = total]
    /\ UNCHANGED <<client, bankVars, page, phoneVars>>

AddLine == store.cart < MaxTotal /\ PhoneSetCart(store.cart + 1)
RemoveLine == store.cart > 0 /\ PhoneSetCart(store.cart - 1)

CheckoutPay ==
    /\ Phone /\ ~OnCallbackScreen /\ ordering = 0 /\ store.cart > 0
    /\ ordering' = store.cart
    /\ UNCHANGED <<client, bankVars, store, page, bankApp, run>>

(* The context of the newest checkout replaces any other; the link opens   *)
(* the bank's app over whatever it shows, or nothing at all.               *)
OpenBankConsent ==
    /\ ordering > 0
    /\ \E k \in Consents :
         /\ CreateConsent(k, ordering)
         /\ store' = [store EXCEPT !.state = k, !.consent = k]
         /\ \/ bankApp' = [at |-> "loading", consent |-> k]
            \/ UNCHANGED bankApp
    /\ ordering' = 0
    /\ UNCHANGED <<client, code, transfers, page, run>>

OpenFails ==
    /\ ordering > 0 /\ ordering' = 0
    /\ UNCHANGED <<client, bankVars, store, page, bankApp, run>>

(* BD Online on the phone: the screen says that a consent was already      *)
(* decided, but its buttons stay; the service refuses the second decision. *)
LoadConsent ==
    /\ bankApp.at = "loading"
    /\ bankApp' = [bankApp EXCEPT !.at = "ready"]
    /\ UNCHANGED <<client, bankVars, store, page, ordering, run>>

(* The link back to the shop replaces the callback screen that is there.   *)
OpenCallback(k) ==
    run' = [j \in Consents |->
              IF j = k THEN [NoRun EXCEPT !.at = "arrived"]
              ELSE [run[j] EXCEPT !.left = @ \/ run[j].at \in Processing]]

HandleRedirect(k) ==
    \/ OpenCallback(k) /\ bankApp' = [bankApp EXCEPT !.at = "picked"]
    \/ UNCHANGED run /\ bankApp' = [bankApp EXCEPT !.at = "home"]

PickOnPhone ==
    /\ bankApp.at \in {"ready", "picked"}
    /\ bankApp' = [bankApp EXCEPT !.at = IF @ = "ready" THEN "picked" ELSE "ready"]
    /\ UNCHANGED <<client, bankVars, store, page, ordering, run>>

ApproveOnPhone ==
    /\ bankApp.at = "picked"
    /\ AuthorizeConsent(bankApp.consent)
    /\ \E answered \in BOOLEAN :
         bankApp' = [bankApp EXCEPT !.at = IF answered THEN "coding" ELSE "picked"]
    /\ UNCHANGED <<client, code, transfers, store, page, ordering, run>>

CodeArrivesOnPhone ==
    /\ bankApp.at = "coding"
    /\ GenerateCode(bankApp.consent)
    /\ \/ HandleRedirect(bankApp.consent)
       \/ bankApp' = [bankApp EXCEPT !.at = "picked"] /\ UNCHANGED run
    /\ UNCHANGED <<client, consent, transfers, store, page, ordering>>

CodeFailsOnPhone ==
    /\ bankApp.at = "coding"
    /\ bankApp' = [bankApp EXCEPT !.at = "picked"]
    /\ UNCHANGED <<client, bankVars, store, page, ordering, run>>

RejectOnPhone ==
    /\ bankApp.at \in {"ready", "picked"}
    /\ RejectConsent(bankApp.consent)
    /\ HandleRedirect(bankApp.consent) \/ UNCHANGED <<bankApp, run>>
    /\ UNCHANGED <<client, code, transfers, store, page, ordering>>

-----------------------------------------------------------------------------
(* The phone shop's callback run for the redirect of consent k.  A run goes *)
(* on when its screen is left; only then it touches nothing at its end.     *)

RunTo(k, at) == run' = [run EXCEPT ![k].at = at]
ClearPaymentState == [store EXCEPT !.state = None, !.consent = None]

RunFails(k) ==
    /\ RunTo(k, "error")
    /\ store' = IF run[k].left THEN store ELSE ClearPaymentState

LeaveCallback(k) ==
    /\ run[k].at \in Processing /\ ~run[k].left
    /\ run' = [run EXCEPT ![k].left = TRUE]
    /\ UNCHANGED <<client, bankVars, store, page, bankApp, ordering>>

(* A missing stored state passes the comparison.                           *)
RunRefused(k) == Declined(k) \/ store.state \notin {None, k}

RunReads(k) ==
    /\ run[k].at = "arrived"
    /\ IF RunRefused(k)
       THEN RunTo(k, "error") /\ store' = ClearPaymentState
       ELSE RunTo(k, "read") /\ UNCHANGED store
    /\ UNCHANGED <<client, bankVars, page, bankApp, ordering>>

(* exchangeCodeAndPay reads the storage a second time.                     *)
RunExchanges(k) ==
    /\ run[k].at = "read"
    /\ IF store.consent # None /\ CodeIsGood(k)
       THEN /\ run' = [run EXCEPT ![k].at = "use", ![k].paying = store.consent]
            /\ UNCHANGED store
       ELSE RunFails(k)
    /\ UNCHANGED <<client, bankVars, page, bankApp, ordering>>

RunCodeUsed(k) ==
    /\ run[k].at = "use"
    /\ MarkUsed(k)
    /\ \/ RunTo(k, "pay") /\ UNCHANGED store
       \/ RunFails(k)
    /\ UNCHANGED <<client, consent, transfers, page, bankApp, ordering>>

RunPays(k) ==
    /\ run[k].at = "pay"
    /\ ExecuteDomesticPayment(run[k].paying)
    /\ RunTo(k, "settle")
    /\ UNCHANGED <<client, consent, code, store, page, bankApp, ordering>>

RunPaymentFails(k) ==
    /\ run[k].at \in {"pay", "settle"}
    /\ RunFails(k)
    /\ UNCHANGED <<client, bankVars, page, bankApp, ordering>>

RunDone(k) ==
    /\ run[k].at = "settle"
    /\ RunTo(k, "approved")
    /\ store' = IF run[k].left THEN store
                ELSE EmptyStore
    /\ UNCHANGED <<client, bankVars, page, bankApp, ordering>>

RunStep(k) ==
    \/ RunReads(k) \/ RunExchanges(k) \/ RunCodeUsed(k)
    \/ RunPays(k) \/ RunPaymentFails(k) \/ RunDone(k)

PhoneStep ==
    \/ AddLine \/ RemoveLine \/ CheckoutPay \/ OpenBankConsent \/ OpenFails
    \/ LoadConsent \/ PickOnPhone \/ ApproveOnPhone \/ CodeArrivesOnPhone \/ CodeFailsOnPhone \/ RejectOnPhone
    \/ \E k \in Consents : LeaveCallback(k) \/ RunStep(k)

CallbackBusy == {"callback", "exchange", "use", "pay", "settle", "confirm"}

Next == (\E t \in Tabs : WebStep(t)) \/ PhoneStep \/ CodeExpires

Spec == Init /\ [][Next]_vars

(* A page that is open runs its callback: each fetch is answered or fails. *)
FairSpec ==
    /\ Spec
    /\ \A t \in Tabs : WF_vars(CallbackStep(t))
    /\ \A k \in Consents : WF_vars(RunStep(k))

-----------------------------------------------------------------------------
(* Every variable has its type: no cart, order or payment leaves the range *)
(* of totals, and every screen is in one of its states.                    *)
TypeOK ==
    /\ client \in AllClients
    /\ consent \in [Consents -> [status : {"none", "AwaitingAuthorisation",
                                           "Authorised", "Rejected"},
                                 amount : Totals]]
    /\ code \in [Consents -> {"none", "fresh", "used", "expired"}]
    /\ transfers \in Seq([consent : Consents, amount : Totals])
    /\ store \in [cart : Totals, state : Consents \cup NoConsent,
                  consent : Consents \cup NoConsent]
    /\ page \in [Tabs -> [at : PageStates, cart : Totals,
                          consent : Consents \cup NoConsent, amount : Totals]]
    /\ bankApp \in [at : {"home", "loading", "ready", "picked", "coding"},
                    consent : Consents \cup NoConsent]
    /\ ordering \in Totals
    /\ run \in [Consents -> [at : RunStates, paying : Consents \cup NoConsent,
                             left : BOOLEAN]]

PaymentsOf(k) == {i \in DOMAIN transfers : transfers[i].consent = k}

(* A consent is one payment.  It is not, on the phone: the callback reads  *)
(* the storage twice, and the payment endpoint does not ask whether the    *)
(* consent was used.                                                       *)
PaidOncePerConsent == \A k \in Consents : Cardinality(PaymentsOf(k)) <= 1

(* On the web an approved consent is charged at most once, however often   *)
(* the callback address is reloaded or opened in another tab, and though   *)
(* two exchanges of one code may both succeed: only the load that finds    *)
(* the stored state goes on, and it removes it.                            *)
WebPaidOnce == Web => PaidOncePerConsent

(* No money moves under a consent the customer has not approved, though    *)
(* neither the transfer nor the domestic payment looks at its status.      *)
PaymentsAreApproved ==
    \A i \in DOMAIN transfers : consent[transfers[i].consent].status = "Authorised"

(* A Salalah success screen, or an approved phone checkout, stands for a   *)
(* transfer the bank executed, on the web for the total it shows.          *)
SuccessIsPaid ==
    /\ \A t \in Tabs :
         page[t].at = "success" /\ client = "salalah-web" =>
            \E i \in PaymentsOf(page[t].consent) : transfers[i].amount = page[t].amount
    /\ \A k \in Consents :
         run[k].at = "approved" => PaymentsOf(run[k].paying) # {}

(* What the shops and the bank's screens do with a consent is what         *)
(* ConsentGrant says one is: asked for, granted by the customer or refused, *)
(* and not both.  ConsentLifecycle, the service behind them, implements it. *)
Grant == INSTANCE ConsentGrant WITH
    Customers <- {"customer"},
    NoCustomer <- "nobody",
    asked <- {k \in Consents : consent[k].status # "none"},
    owner <- [k \in Consents |-> IF consent[k].status = "Authorised" THEN "customer" ELSE "nobody"],
    ending <- [k \in Consents |-> IF consent[k].status = "Rejected" THEN "Rejected" ELSE "open"],
    singleUse <- Consents,
    overdue <- {}

ImplementsGrant == Grant!Spec

(* A callback screen ends: with reloads and lost answers, the customer is  *)
(* eventually told of a success or of an error.                            *)
CallbackEnds ==
    /\ \A t \in Tabs : page[t].at \in CallbackBusy ~> page[t].at \in {"success", "error"}
    /\ \A k \in Consents : run[k].at \in Processing ~> run[k].at \in {"approved", "error"}

(* PaymentCallback.tsx:286 tells the customer of every failed payment:     *)
(* "Your bank account has not been charged."                               *)
ErrorMeansNotCharged ==
    \A t \in Tabs :
        page[t].at = "error" => PaymentsOf(page[t].consent) = {}
=============================================================================
