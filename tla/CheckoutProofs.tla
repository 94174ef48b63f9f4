---------------------------- MODULE CheckoutProofs ----------------------------
(***************************************************************************)
(* Proofs about Checkout for any set of the three shops, any number of     *)
(* tabs and payment consents, and any totals: what a consent is charged,   *)
(* under whose approval, and what a success screen stands for.             *)
(***************************************************************************)
EXTENDS Checkout, FiniteSetTheorems, TLAPS

----------------------------------------------------------------------------
(* The inductive invariant                                                 *)

\* A tab past the comparison of the state that has not sent the transfer yet.
Going(t) == page[t].at \in {"exchange", "use", "pay"}
\* A tab whose transfer the bank answered.
Settled(t) == page[t].at \in {"settle", "success"}
Charged(k) == \E i \in DOMAIN transfers : transfers[i].consent = k
ChargedFor(k, total) ==
    \E i \in DOMAIN transfers : transfers[i].consent = k /\ transfers[i].amount = total

\* Whatever refers to a consent refers to a row the shop has created.
Linked ==
    /\ \A t \in Tabs :
        /\ page[t].at \notin {"shop", "creating"} => page[t].consent \in Consents
        /\ page[t].consent \in Consents => consent[page[t].consent].status # "none"
    /\ bankApp.at # "home" => bankApp.consent \in Consents
    /\ \A k \in Consents :
        run[k].at \in {"use", "pay", "settle", "approved"} => run[k].paying \in Consents
    /\ store.state \in Consents => consent[store.state].status # "none"

\* A web customer uses no app, a phone customer no tab, and only Sadad
\* announces a payment it did not make.
Apart ==
    /\ Web => /\ ordering = 0 /\ bankApp.at = "home"
              /\ \A k \in Consents : run[k].at = "none"
    /\ Phone => \A t \in Tabs : page[t].at = "shop"
    /\ client = "salalah-web" => \A t \in Tabs : page[t].at # "confirm"

\* The stored state of a consent, a tab on its way to pay it and its payment
\* exclude each other, and there is one of each.
OneWayToPay ==
    Web =>
      /\ \A i, j \in DOMAIN transfers : transfers[i].consent = transfers[j].consent => i = j
      /\ \A t \in Tabs : Going(t) => ~Charged(page[t].consent)
      /\ \A t, u \in Tabs :
          Going(t) /\ Going(u) /\ page[t].consent = page[u].consent => t = u
      /\ store.state \in Consents =>
          /\ ~Charged(store.state)
          /\ \A t \in Tabs : Going(t) => page[t].consent # store.state

\* A transfer answers for every tab and callback run that has settled.
SettledIsPaid ==
    /\ client = "salalah-web" =>
          \A t \in Tabs : Settled(t) => ChargedFor(page[t].consent, page[t].amount)
    /\ \A k \in Consents :
          run[k].at \in {"settle", "approved"} => Charged(run[k].paying)

CheckoutInv ==
    TypeOK /\ PaymentsAreApproved /\ Linked /\ Apart /\ OneWayToPay /\ SettledIsPaid

----------------------------------------------------------------------------
(* The rows of the state                                                   *)

ConsentRows == [status : {"none", "AwaitingAuthorisation", "Authorised", "Rejected"},
                amount : Totals]
Pages == [at : PageStates, cart : Totals, consent : Consents \cup NoConsent, amount : Totals]
Stores == [cart : Totals, state : Consents \cup NoConsent, consent : Consents \cup NoConsent]
Runs == [at : RunStates, paying : Consents \cup NoConsent, left : BOOLEAN]
BankScreens == [at : {"home", "loading", "ready", "picked", "coding"},
                consent : Consents \cup NoConsent]
Codes == {"none", "fresh", "used", "expired"}

\* No consent is None, and a total is a number.
LEMMA Bounds ==
  None \notin Consents /\ NoConsent = {None} /\ 0 \in Totals /\ Totals \subseteq Nat
  BY CheckoutAssumption DEF None, Consents, NoConsent, Totals

\* A transfer is made under a consent.
LEMMA TransferTypes ==
  ASSUME TypeOK
  PROVE  \A i \in DOMAIN transfers : transfers[i].consent \in Consents
<1> DEFINE T == [consent : Consents, amount : Totals]
<1>1. transfers \in Seq(T)
  BY DEF TypeOK
<1>2. \A x \in T : x.consent \in Consents
  OBVIOUS
<1> HIDE DEF T
<1>3. \A i \in DOMAIN transfers : transfers[i] \in T
  BY <1>1
<1> QED
  BY <1>2, <1>3

\* No row of the consents is lost, and an approval is for good.
ConsentsKept ==
    /\ consent' \in [Consents -> ConsentRows]
    /\ \A k \in Consents :
        /\ consent[k].status # "none" => consent'[k].status # "none"
        /\ consent[k].status = "Authorised" => consent'[k].status = "Authorised"

LEMMA SameConsentsKept ==
  ASSUME TypeOK, UNCHANGED consent
  PROVE  ConsentsKept
  BY DEF TypeOK, ConsentsKept, ConsentRows

LEMMA DecisionKept ==
  ASSUME TypeOK, NEW k \in Consents, AuthorizeConsent(k) \/ RejectConsent(k)
  PROVE  ConsentsKept
<1>1. PICK s \in {"Authorised", "Rejected"} : consent' = [consent EXCEPT ![k].status = s]
  BY DEF AuthorizeConsent, RejectConsent
<1>2. consent[k].status = "AwaitingAuthorisation" /\ consent \in [Consents -> ConsentRows]
  BY DEF AuthorizeConsent, RejectConsent, CanDecide, TypeOK, ConsentRows
<1>3. consent[k] \in ConsentRows
  BY <1>2
<1>4. [consent[k] EXCEPT !.status = s] \in ConsentRows
  BY <1>3 DEF ConsentRows
<1>5. consent' = [consent EXCEPT ![k] = [consent[k] EXCEPT !.status = s]]
  BY <1>1
<1>6. consent' \in [Consents -> ConsentRows]
  BY <1>2, <1>4, <1>5
<1>7. consent'[k].status = s /\ \A j \in Consents : j # k => consent'[j] = consent[j]
  BY <1>2, <1>3, <1>5 DEF ConsentRows
<1> QED
  BY <1>2, <1>6, <1>7 DEF ConsentsKept

LEMMA CreationKept ==
  ASSUME TypeOK, NEW k \in Consents, NEW amount \in Totals, CreateConsent(k, amount)
  PROVE  ConsentsKept /\ consent[k].status = "none" /\ consent'[k].status # "none"
<1> DEFINE row == [status |-> "AwaitingAuthorisation", amount |-> amount]
<1>1. row \in ConsentRows /\ row.status = "AwaitingAuthorisation"
  BY DEF ConsentRows
<1>2. consent' = [consent EXCEPT ![k] = row] /\ consent[k].status = "none"
  BY DEF CreateConsent
<1> HIDE DEF row
<1>3. consent \in [Consents -> ConsentRows]
  BY DEF TypeOK, ConsentRows
<1> QED
  BY <1>1, <1>2, <1>3 DEF ConsentsKept

\* The code column holds one of its values.
LEMMA CodeTypes ==
  ASSUME TypeOK, NEW k \in Consents, GenerateCode(k) \/ MarkUsed(k)
  PROVE  code' \in [Consents -> Codes]
  BY DEF TypeOK, GenerateCode, MarkUsed, Codes

----------------------------------------------------------------------------
(* A step of a tab                                                         *)

\* Only tab t changed.
OnlyTab(t) == page' \in [Tabs -> Pages] /\ \A u \in Tabs : u # t => page'[u] = page[u]

\* A busy tab belongs to a web shop.
LEMMA BusyTabIsWeb ==
  ASSUME TypeOK, Apart, NEW t \in Tabs, page[t].at # "shop"
  PROVE  Web /\ ~Phone
  BY DEF TypeOK, AllClients, Web, Phone, Apart

\* A step of tab t that neither pays nor creates a consent nor passes the
\* comparison of the state.
LEMMA TabStep ==
  ASSUME CheckoutInv, NEW t \in Tabs, Web, OnlyTab(t),
         UNCHANGED <<client, transfers, phoneVars>>,
         ConsentsKept, code' \in [Consents -> Codes],
         store' \in Stores, store'.state \in {store.state, None},
         page'[t].at \notin {"shop", "creating"} => page'[t].consent \in Consents,
         page'[t].consent \in Consents => consent[page'[t].consent].status # "none",
         Going(t)' => Going(t) /\ page'[t].consent = page[t].consent,
         client = "salalah-web" /\ Settled(t)' =>
             /\ Settled(t)
             /\ page'[t].consent = page[t].consent /\ page'[t].amount = page[t].amount,
         page'[t].at = "confirm" => client # "salalah-web"
  PROVE  CheckoutInv'
<1> USE DEF CheckoutInv
<1>1. TypeOK'
  BY DEF TypeOK, ConsentsKept, ConsentRows, OnlyTab, Pages, Stores, Codes, phoneVars
<1>2. PaymentsAreApproved'
  BY TransferTypes DEF PaymentsAreApproved, ConsentsKept
<1>3. Linked'
  BY Bounds DEF Linked, OnlyTab, ConsentsKept, phoneVars
<1>4. Apart'
  BY DEF Apart, OnlyTab, phoneVars, Web, Phone
<1>5. OneWayToPay'
  <2>1. \A k : Charged(k)' <=> Charged(k)
    BY DEF Charged
  <2>2. \A u \in Tabs : Going(u)' => Going(u) /\ page'[u].consent = page[u].consent
    BY DEF Going, OnlyTab
  <2>3. store'.state \in Consents => store'.state = store.state
    BY Bounds
  <2> QED
    BY <2>1, <2>2, <2>3 DEF OneWayToPay, Web
<1>6. SettledIsPaid'
  <2>1. /\ \A k : Charged(k)' <=> Charged(k)
        /\ \A k, m : ChargedFor(k, m)' <=> ChargedFor(k, m)
    BY DEF Charged, ChargedFor
  <2>2. ASSUME client = "salalah-web", NEW u \in Tabs, Settled(u)'
        PROVE  /\ Settled(u)
               /\ page'[u].consent = page[u].consent /\ page'[u].amount = page[u].amount
    BY <2>2 DEF Settled, OnlyTab
  <2> QED
    BY <2>1, <2>2 DEF SettledIsPaid, phoneVars
<1> QED
  BY <1>1, <1>2, <1>3, <1>4, <1>5, <1>6

\* What Show leaves behind.
ShownAt(t, at) ==
    /\ OnlyTab(t)
    /\ page'[t].at = at
    /\ page'[t].consent = page[t].consent /\ page'[t].amount = page[t].amount

LEMMA ShowMoves ==
  ASSUME TypeOK, NEW t \in Tabs, NEW at \in PageStates, Show(t, at)
  PROVE  ShownAt(t, at)
<1>1. page \in [Tabs -> Pages] /\ page[t] \in Pages
  BY DEF TypeOK, Pages
<1>2. page' = [page EXCEPT ![t] = [page[t] EXCEPT !.at = at]]
  BY DEF Show
<1> DEFINE e == [page[t] EXCEPT !.at = at]
<1>3. e \in Pages /\ e.at = at /\ e.consent = page[t].consent /\ e.amount = page[t].amount
  BY <1>1 DEF Pages
<1> HIDE DEF e
<1> QED
  BY <1>1, <1>2, <1>3 DEF ShownAt, OnlyTab, e

\* A busy tab shows another screen.
LEMMA TabShows ==
  ASSUME CheckoutInv, NEW t \in Tabs, NEW at \in PageStates, Show(t, at),
         page[t].at # "shop",
         page[t].at = "creating" => at = "shop",
         at # "confirm",
         at \in {"exchange", "use", "pay"} => Going(t),
         at \notin {"settle", "success"},
         UNCHANGED <<client, transfers, phoneVars>>,
         ConsentsKept, code' \in [Consents -> Codes],
         store' \in Stores, store'.state \in {store.state, None}
  PROVE  CheckoutInv'
<1>1. Web
  BY BusyTabIsWeb DEF CheckoutInv
<1>2. ShownAt(t, at)
  BY ShowMoves DEF CheckoutInv
<1>3. /\ page'[t].at \notin {"shop", "creating"} => page'[t].consent \in Consents
      /\ page'[t].consent \in Consents => consent[page'[t].consent].status # "none"
  BY <1>2 DEF ShownAt, CheckoutInv, Linked
<1>4. /\ Going(t)' => Going(t) /\ page'[t].consent = page[t].consent
      /\ ~Settled(t)' /\ page'[t].at # "confirm"
  BY <1>2 DEF ShownAt, Going, Settled
<1> QED
  BY <1>1, <1>2, <1>3, <1>4, TabStep DEF ShownAt

\* The step changes nothing but the tab.
LEMMA TabShowsOnly ==
  ASSUME CheckoutInv, NEW t \in Tabs, NEW at \in PageStates, Show(t, at),
         page[t].at # "shop", page[t].at = "creating" => at = "shop",
         at # "confirm", at \in {"exchange", "use", "pay"} => Going(t),
         at \notin {"settle", "success"},
         UNCHANGED <<client, bankVars, store, phoneVars>>
  PROVE  CheckoutInv'
<1>1. ConsentsKept
  BY SameConsentsKept DEF bankVars, CheckoutInv
<1>2. code' \in [Consents -> Codes] /\ store' \in Stores /\ store'.state = store.state
  BY DEF bankVars, CheckoutInv, TypeOK, Codes, Stores
<1>3. UNCHANGED transfers
  BY DEF bankVars
<1> QED
  BY <1>1, <1>2, <1>3, TabShows

\* A page load in tab u, for a consent some tab works on, or for none.
LEMMA TabOpens ==
  ASSUME CheckoutInv, NEW u \in Tabs, NEW at \in {"shop", "loading", "callback"},
         NEW k \in Consents \cup NoConsent,
         k \in Consents => consent[k].status # "none", k = None => at = "shop",
         Web, page' = [page EXCEPT ![u] = NewPage(at, k)],
         UNCHANGED <<client, transfers, store, phoneVars>>,
         ConsentsKept, code' \in [Consents -> Codes]
  PROVE  CheckoutInv'
<1>1. /\ NewPage(at, k) \in Pages
      /\ NewPage(at, k).at = at /\ NewPage(at, k).consent = k
  BY Bounds DEF NewPage, Pages, PageStates, CheckoutInv, TypeOK
<1>2. OnlyTab(u) /\ page'[u].at = at /\ page'[u].consent = k
  BY <1>1 DEF OnlyTab, CheckoutInv, TypeOK, Pages
<1>3. store' \in Stores /\ store'.state = store.state
  BY DEF CheckoutInv, TypeOK, Stores
<1>4. /\ page'[u].at \notin {"shop", "creating"} => page'[u].consent \in Consents
      /\ page'[u].consent \in Consents => consent[page'[u].consent].status # "none"
  BY <1>2, Bounds
<1>5. ~Going(u)' /\ ~Settled(u)' /\ page'[u].at # "confirm"
  BY <1>2 DEF Going, Settled
<1> QED
  BY <1>2, <1>3, <1>4, <1>5, TabStep

----------------------------------------------------------------------------
(* The actions of a tab                                                    *)

LEMMA CartInv ==
  ASSUME CheckoutInv, NEW t \in Tabs, AddToCart(t) \/ DecrementItem(t)
  PROVE  CheckoutInv'
<1>1. page[t] \in Pages /\ page[t].cart \in Totals /\ page[t].at = "shop" /\ Web
  BY DEF AddToCart, DecrementItem, CheckoutInv, TypeOK, Pages
<1>2. PICK total \in Totals : SetCart(t, total)
  <2>1. CASE AddToCart(t)
    <3>1. page[t].cart + 1 \in Totals
      BY <1>1, <2>1, CheckoutAssumption DEF AddToCart, Totals
    <3> QED
      BY <2>1, <3>1 DEF AddToCart
  <2>2. CASE DecrementItem(t)
    <3>1. page[t].cart - 1 \in Totals
      BY <1>1, <2>2, CheckoutAssumption DEF DecrementItem, Totals
    <3> QED
      BY <2>2, <3>1 DEF DecrementItem
  <2> QED
    BY <2>1, <2>2
<1> DEFINE e == [page[t] EXCEPT !.cart = total]
<1>3. e \in Pages /\ e.at = "shop" /\ e.consent = page[t].consent
  BY <1>1 DEF Pages
<1>4. page' = [page EXCEPT ![t] = e]
  BY <1>2 DEF SetCart
<1> HIDE DEF e
<1>5. OnlyTab(t) /\ page'[t] = e
  BY <1>3, <1>4 DEF OnlyTab, CheckoutInv, TypeOK, Pages
<1>6. store' \in Stores /\ store'.state = store.state
  <2>1. store \in Stores
    BY DEF CheckoutInv, TypeOK, Stores
  <2> QED
    BY <1>2, <2>1 DEF SetCart, Stores
<1>7. UNCHANGED <<client, bankVars, phoneVars>>
  BY <1>2 DEF SetCart
<1>8. ConsentsKept /\ code' \in [Consents -> Codes] /\ UNCHANGED transfers
  BY <1>7, SameConsentsKept DEF bankVars, CheckoutInv, TypeOK, Codes
<1>9. ~Going(t)' /\ ~Settled(t)' /\ page'[t].at = "shop"
  BY <1>3, <1>5 DEF Going, Settled
<1>10. page'[t].consent \in Consents => consent[page'[t].consent].status # "none"
  BY <1>3, <1>5 DEF CheckoutInv, Linked
<1> QED
  BY <1>1, <1>5, <1>6, <1>7, <1>8, <1>9, <1>10, TabStep

LEMMA HandlePayInv ==
  ASSUME CheckoutInv, NEW t \in Tabs, HandlePay(t)
  PROVE  CheckoutInv'
<1>1. page[t] \in Pages /\ page[t].at = "shop" /\ Web
  BY DEF HandlePay, CheckoutOffered, CheckoutInv, TypeOK, Pages
<1> DEFINE e == [page[t] EXCEPT !.at = "creating", !.amount = page[t].cart]
<1>2. e \in Pages /\ e.at = "creating" /\ e.consent = page[t].consent
  BY <1>1 DEF Pages, PageStates
<1>3. page' = [page EXCEPT ![t] = e]
  BY DEF HandlePay
<1> HIDE DEF e
<1>4. OnlyTab(t) /\ page'[t] = e
  BY <1>2, <1>3 DEF OnlyTab, CheckoutInv, TypeOK, Pages
<1>5. UNCHANGED <<client, bankVars, store, phoneVars>>
  BY DEF HandlePay
<1>6. /\ ConsentsKept /\ code' \in [Consents -> Codes] /\ UNCHANGED transfers
      /\ store' \in Stores /\ store'.state = store.state
  BY <1>5, SameConsentsKept DEF bankVars, CheckoutInv, TypeOK, Codes, Stores
<1>7. ~Going(t)' /\ ~Settled(t)' /\ page'[t].at = "creating"
  BY <1>2, <1>4 DEF Going, Settled
<1>8. page'[t].consent \in Consents => consent[page'[t].consent].status # "none"
  BY <1>2, <1>4 DEF CheckoutInv, Linked
<1> QED
  BY <1>1, <1>4, <1>5, <1>6, <1>7, <1>8, TabStep

LEMMA BackToStoreInv ==
  ASSUME CheckoutInv, NEW t \in Tabs, BackToStore(t)
  PROVE  CheckoutInv'
<1>1. page[t] \in Pages /\ page[t].at # "shop"
  BY DEF BackToStore, CheckoutInv, TypeOK, Pages
<1> DEFINE e == [page[t] EXCEPT !.at = "shop", !.consent = None, !.amount = 0]
<1>2. e \in Pages /\ e.at = "shop" /\ e.consent = None
  BY <1>1, Bounds DEF Pages, PageStates
<1>3. page' = [page EXCEPT ![t] = e]
  BY DEF BackToStore
<1> HIDE DEF e
<1>4. OnlyTab(t) /\ page'[t] = e
  BY <1>2, <1>3 DEF OnlyTab, CheckoutInv, TypeOK, Pages
<1>5. UNCHANGED <<client, bankVars, store, phoneVars>>
  BY DEF BackToStore
<1>6. /\ ConsentsKept /\ code' \in [Consents -> Codes] /\ UNCHANGED transfers
      /\ store' \in Stores /\ store'.state = store.state
  BY <1>5, SameConsentsKept DEF bankVars, CheckoutInv, TypeOK, Codes, Stores
<1>7. /\ ~Going(t)' /\ ~Settled(t)' /\ page'[t].at = "shop"
      /\ page'[t].consent \notin Consents
  BY <1>2, <1>4, Bounds DEF Going, Settled
<1>8. Web
  BY <1>1, BusyTabIsWeb DEF CheckoutInv
<1> QED
  BY <1>4, <1>5, <1>6, <1>7, <1>8, TabStep

LEMMA OpenAgainInv ==
  ASSUME CheckoutInv, NEW t \in Tabs, NEW u \in Tabs, OpenAgain(t, u)
  PROVE  CheckoutInv'
<1>1. page[t].at \notin {"shop", "creating"}
  BY DEF OpenAgain
<1>2. page[t].consent \in Consents /\ consent[page[t].consent].status # "none"
  BY <1>1 DEF CheckoutInv, Linked
<1>3. PICK at \in {"loading", "callback"} :
          page' = [page EXCEPT ![u] = NewPage(at, page[t].consent)]
  BY DEF OpenAgain
<1>4. UNCHANGED <<client, transfers, store, phoneVars>> /\ Web
  BY DEF OpenAgain, bankVars
<1>5. ConsentsKept /\ code' \in [Consents -> Codes]
  BY SameConsentsKept DEF OpenAgain, bankVars, CheckoutInv, TypeOK, Codes
<1> QED
  BY <1>2, <1>3, <1>4, <1>5, Bounds, TabOpens

LEMMA BackFromBankInv ==
  ASSUME CheckoutInv, NEW t \in Tabs, BackFromBank(t)
  PROVE  CheckoutInv'
<1>1. Web
  BY BusyTabIsWeb DEF BackFromBank, CheckoutInv
<1>2. UNCHANGED <<client, transfers, store, phoneVars>>
  BY DEF BackFromBank, bankVars
<1>3. ConsentsKept /\ code' \in [Consents -> Codes]
  BY SameConsentsKept DEF BackFromBank, bankVars, CheckoutInv, TypeOK, Codes
<1>4. page' = [page EXCEPT ![t] = NewPage("shop", None)]
  BY DEF BackFromBank
<1> QED
  BY <1>1, <1>2, <1>3, <1>4, Bounds, TabOpens

\* The actions that show the tab another screen and touch nothing else.
LEMMA ScreenInv ==
  ASSUME CheckoutInv, NEW t \in Tabs,
         \/ PayFails(t) \/ LoadApproval(t) \/ PickAccounts(t) \/ CodeFails(t)
         \/ RejectDialog(t) \/ CallbackDeclined(t) \/ ExchangeCode(t) \/ PaymentFails(t)
  PROVE  CheckoutInv'
<1>1. UNCHANGED <<client, bankVars, store, phoneVars>>
  BY DEF PayFails, LoadApproval, PickAccounts, CodeFails, RejectDialog, CallbackDeclined,
         ExchangeCode, PaymentFails
<1>2. CASE PayFails(t)
  BY <1>1, <1>2, TabShowsOnly DEF PayFails, PageStates
<1>3. CASE LoadApproval(t)
  <2>1. \E at \in {"ready", "refused"} : Show(t, at)
    BY <1>3 DEF LoadApproval
  <2> QED
    BY <1>1, <1>3, <2>1, TabShowsOnly DEF LoadApproval, PageStates
<1>4. CASE PickAccounts(t) \/ CodeFails(t)
  BY <1>1, <1>4, TabShowsOnly DEF PickAccounts, CodeFails, PageStates
<1>5. CASE RejectDialog(t)
  BY <1>1, <1>5, TabShowsOnly DEF RejectDialog, PageStates
<1>6. CASE CallbackDeclined(t) \/ PaymentFails(t)
  BY <1>1, <1>6, TabShowsOnly DEF CallbackDeclined, PaymentFails, PageStates
<1>7. CASE ExchangeCode(t)
  <2>1. (\E at \in {"use", "error"} : Show(t, at)) /\ Going(t) /\ page[t].at = "exchange"
    BY <1>7 DEF ExchangeCode, Going
  <2> QED
    BY <1>1, <2>1, TabShowsOnly DEF PageStates
<1> QED
  BY <1>2, <1>3, <1>4, <1>5, <1>6, <1>7

LEMMA DecideInv ==
  ASSUME CheckoutInv, NEW t \in Tabs, HandleApprove(t) \/ HandleReject(t)
  PROVE  CheckoutInv'
<1> DEFINE k == page[t].consent
<1>1. page[t].at \in {"picked", "rejecting"} /\ k \in Consents /\ consent[k].status # "none"
  BY DEF HandleApprove, ApproveOffered, HandleReject, CheckoutInv, Linked
<1>2. ConsentsKept
  BY <1>1, DecisionKept DEF HandleApprove, HandleReject, CheckoutInv
<1>3. /\ UNCHANGED <<client, transfers, store, phoneVars>>
      /\ code' \in [Consents -> Codes] /\ store' \in Stores
  BY DEF HandleApprove, HandleReject, CheckoutInv, TypeOK, Codes, Stores
<1>4. CASE \E at \in {"coding", "picked", "ready"} : Show(t, at)
  BY <1>1, <1>2, <1>3, <1>4, TabShows DEF PageStates
<1>5. CASE Redirect(t)
  <2>1. page' = [page EXCEPT ![t] = NewPage("callback", k)] /\ Web
    BY <1>1, <1>5, BusyTabIsWeb DEF Redirect, CheckoutInv
  <2> QED
    BY <1>1, <1>2, <1>3, <2>1, Bounds, TabOpens
<1> QED
  BY <1>4, <1>5 DEF HandleApprove, HandleReject

LEMMA CodeArrivesInv ==
  ASSUME CheckoutInv, NEW t \in Tabs, CodeArrives(t)
  PROVE  CheckoutInv'
<1> DEFINE k == page[t].consent
<1>1. page[t].at = "coding" /\ k \in Consents /\ consent[k].status # "none"
  BY DEF CodeArrives, CheckoutInv, Linked
<1>2. /\ UNCHANGED <<client, consent, transfers, store, phoneVars>>
      /\ store' \in Stores
  BY DEF CodeArrives, CheckoutInv, TypeOK, Stores
<1>3. ConsentsKept /\ code' \in [Consents -> Codes]
  BY <1>1, <1>2, SameConsentsKept, CodeTypes DEF CodeArrives, CheckoutInv
<1>4. CASE Show(t, "picked")
  BY <1>1, <1>2, <1>3, <1>4, TabShows DEF PageStates
<1>5. CASE Redirect(t)
  <2>1. page' = [page EXCEPT ![t] = NewPage("callback", k)] /\ Web
    BY <1>1, <1>5, BusyTabIsWeb DEF Redirect, CheckoutInv
  <2> QED
    BY <1>1, <1>2, <1>3, <2>1, Bounds, TabOpens
<1> QED
  BY <1>4, <1>5 DEF CodeArrives

LEMMA CodeUsedInv ==
  ASSUME CheckoutInv, NEW t \in Tabs, CodeUsed(t)
  PROVE  CheckoutInv'
<1>1. page[t].at = "use" /\ page[t].consent \in Consents /\ Going(t)
  BY DEF CodeUsed, CheckoutInv, Linked, Going
<1>2. /\ UNCHANGED <<client, consent, transfers, store, phoneVars>>
      /\ store' \in Stores
  BY DEF CodeUsed, CheckoutInv, TypeOK, Stores
<1>3. ConsentsKept /\ code' \in [Consents -> Codes]
  BY <1>1, <1>2, SameConsentsKept, CodeTypes DEF CodeUsed, CheckoutInv
<1>4. \E at \in {"pay", "error"} : Show(t, at)
  BY DEF CodeUsed
<1> QED
  BY <1>1, <1>2, <1>3, <1>4, TabShows DEF PageStates

\* The state is removed from the storage, whatever the comparison says.
LEMMA StateDropped ==
  ASSUME TypeOK, store' = DropState
  PROVE  store' \in Stores /\ store'.state = None
<1>1. store \in Stores
  BY DEF TypeOK, Stores
<1> QED
  BY <1>1, Bounds DEF DropState, Stores

LEMMA CallbackBadStateInv ==
  ASSUME CheckoutInv, NEW t \in Tabs, CallbackBadState(t)
  PROVE  CheckoutInv'
<1>1. Show(t, "error") /\ page[t].at = "callback"
  BY DEF CallbackBadState
<1>2. store' \in Stores /\ store'.state = None
  BY StateDropped DEF CallbackBadState, CheckoutInv
<1>3. UNCHANGED <<client, consent, transfers, phoneVars>> /\ code' \in [Consents -> Codes]
  BY DEF CallbackBadState, bankVars, CheckoutInv, TypeOK, Codes
<1>4. ConsentsKept
  BY <1>3, SameConsentsKept DEF CheckoutInv
<1> QED
  BY <1>1, <1>2, <1>3, <1>4, TabShows DEF PageStates

\* The new row is nobody's yet: no tab works on it and nothing was paid for it.
LEMMA ConsentCreatedInv ==
  ASSUME CheckoutInv, NEW t \in Tabs, ConsentCreated(t)
  PROVE  CheckoutInv'
<1> USE DEF CheckoutInv
<1>1. PICK k \in Consents :
          /\ CreateConsent(k, page[t].amount)
          /\ store' = [store EXCEPT !.state = k, !.consent = k]
          /\ page' = [page EXCEPT ![t].at = "loading", ![t].consent = k]
  BY DEF ConsentCreated
<1>2. page[t] \in Pages /\ page[t].at = "creating" /\ store \in Stores
  BY DEF ConsentCreated, TypeOK, Pages, Stores
<1>3. ConsentsKept /\ consent[k].status = "none" /\ consent'[k].status # "none"
  <2>1. page[t].amount \in Totals
    BY <1>2 DEF Pages
  <2> QED
    BY <1>1, <2>1, CreationKept
<1>4. OnlyTab(t) /\ page'[t].at = "loading" /\ page'[t].consent = k
  <2> DEFINE e == [page[t] EXCEPT !.at = "loading", !.consent = k]
  <2>1. e \in Pages /\ e.at = "loading" /\ e.consent = k
    BY <1>2 DEF Pages, PageStates
  <2>2. page' = [page EXCEPT ![t] = e]
    BY <1>1
  <2> HIDE DEF e
  <2> QED
    BY <2>1, <2>2 DEF OnlyTab, TypeOK, Pages
<1>5. store' \in Stores /\ store'.state = k
  BY <1>1, <1>2 DEF Stores
<1>6. UNCHANGED <<client, code, transfers, phoneVars>>
  BY DEF ConsentCreated
<1>7. Web
  BY <1>2, BusyTabIsWeb
<1>8. ~Charged(k) /\ \A u \in Tabs : page[u].consent # k
  <2>1. ~Charged(k)
    BY <1>3 DEF PaymentsAreApproved, Charged
  <2> QED
    BY <1>3, <2>1 DEF Linked
<1>9. TypeOK'
  BY <1>3, <1>4, <1>5, <1>6
  DEF TypeOK, ConsentsKept, ConsentRows, OnlyTab, Pages, Stores, phoneVars
<1>10. PaymentsAreApproved'
  BY <1>3, <1>6, TransferTypes DEF PaymentsAreApproved, ConsentsKept
<1>11. Linked'
  <2>1. \A u \in Tabs : u # t => page'[u] = page[u]
    BY <1>4 DEF OnlyTab
  <2> QED
    BY <1>3, <1>4, <1>5, <1>6, <2>1 DEF Linked, ConsentsKept, phoneVars
<1>12. Apart'
  BY <1>4, <1>6, <1>7 DEF Apart, OnlyTab, phoneVars, Web, Phone
<1>13. OneWayToPay'
  <2>1. \A j : Charged(j)' <=> Charged(j)
    BY <1>6 DEF Charged
  <2>2. \A u \in Tabs : Going(u)' => u # t /\ Going(u) /\ page'[u] = page[u]
    BY <1>4 DEF Going, OnlyTab
  <2> QED
    BY <1>5, <1>6, <1>8, <2>1, <2>2 DEF OneWayToPay, Web
<1>14. SettledIsPaid'
  <2>1. /\ \A j : Charged(j)' <=> Charged(j)
        /\ \A j, m : ChargedFor(j, m)' <=> ChargedFor(j, m)
    BY <1>6 DEF Charged, ChargedFor
  <2>2. \A u \in Tabs : Settled(u)' => Settled(u) /\ page'[u] = page[u]
    BY <1>4 DEF Settled, OnlyTab
  <2> QED
    BY <1>6, <2>1, <2>2 DEF SettledIsPaid, phoneVars
<1> QED
  BY <1>9, <1>10, <1>11, <1>12, <1>13, <1>14

\* The comparison of the state lets one load of the callback page through, and
\* the removal of the state keeps every other one out.
LEMMA ProcessCallbackInv ==
  ASSUME CheckoutInv, NEW t \in Tabs, ProcessCallback(t)
  PROVE  CheckoutInv'
<1> USE DEF CheckoutInv
<1> DEFINE k == page[t].consent
<1>1. page[t] \in Pages /\ page[t].at = "callback" /\ k \in Consents /\ store.state = k
  BY DEF ProcessCallback, GoodCallback, StateMatches, TypeOK, Pages, Linked
<1>2. store' \in Stores /\ store'.state = None
  BY StateDropped DEF ProcessCallback, GoodCallback
<1>3. OnlyTab(t) /\ page'[t].at = "exchange" /\ page'[t].consent = k
  <2> DEFINE e == [page[t] EXCEPT !.at = "exchange", !.amount = page[t].cart]
  <2>1. e \in Pages /\ e.at = "exchange" /\ e.consent = k
    BY <1>1 DEF Pages, PageStates
  <2>2. page' = [page EXCEPT ![t] = e]
    BY DEF ProcessCallback
  <2> HIDE DEF e
  <2> QED
    BY <2>1, <2>2 DEF OnlyTab, TypeOK, Pages
<1>4. UNCHANGED <<client, consent, code, transfers, phoneVars>> /\ client = "salalah-web"
  BY DEF ProcessCallback, bankVars
<1>5. Web
  BY <1>4 DEF Web
<1>6. TypeOK'
  BY <1>2, <1>3, <1>4 DEF TypeOK, OnlyTab, Pages, Stores, phoneVars
<1>7. PaymentsAreApproved'
  BY <1>4 DEF PaymentsAreApproved
<1>8. Linked'
  <2>1. \A u \in Tabs : u # t => page'[u] = page[u]
    BY <1>3 DEF OnlyTab
  <2>2. consent[k].status # "none"
    BY <1>1 DEF Linked
  <2> QED
    BY <1>1, <1>2, <1>3, <1>4, <2>1, <2>2, Bounds DEF Linked, phoneVars
<1>9. Apart'
  BY <1>3, <1>4, <1>5 DEF Apart, OnlyTab, phoneVars, Web, Phone
<1>10. OneWayToPay'
  <2>1. \A j : Charged(j)' <=> Charged(j)
    BY <1>4 DEF Charged
  <2>2. ~Charged(k) /\ \A u \in Tabs : Going(u) => page[u].consent # k
    BY <1>1, <1>5 DEF OneWayToPay
  <2>3. \A u \in Tabs : Going(u)' => u = t \/ (Going(u) /\ page'[u] = page[u])
    BY <1>3 DEF Going, OnlyTab
  <2> QED
    BY <1>2, <1>3, <1>4, <1>5, <2>1, <2>2, <2>3, Bounds DEF OneWayToPay
<1>11. SettledIsPaid'
  <2>1. /\ \A j : Charged(j)' <=> Charged(j)
        /\ \A j, m : ChargedFor(j, m)' <=> ChargedFor(j, m)
    BY <1>4 DEF Charged, ChargedFor
  <2>2. \A u \in Tabs : Settled(u)' => Settled(u) /\ page'[u] = page[u]
    BY <1>3 DEF Settled, OnlyTab
  <2> QED
    BY <1>4, <2>1, <2>2 DEF SettledIsPaid, phoneVars
<1> QED
  BY <1>6, <1>7, <1>8, <1>9, <1>10, <1>11

LEMMA SadadCallbackInv ==
  ASSUME CheckoutInv, NEW t \in Tabs, SadadCallback(t)
  PROVE  CheckoutInv'
<1> DEFINE k == page[t].consent
<1>1. page[t] \in Pages /\ page[t].at = "callback" /\ k \in Consents
  BY DEF SadadCallback, GoodCallback, CheckoutInv, TypeOK, Pages, Linked
<1>2. store' \in Stores /\ store'.state = None
  BY StateDropped DEF SadadCallback, GoodCallback, CheckoutInv
<1>3. OnlyTab(t) /\ page'[t].at = "confirm" /\ page'[t].consent = k
  <2> DEFINE e == [page[t] EXCEPT !.at = "confirm", !.amount = page[t].cart]
  <2>1. e \in Pages /\ e.at = "confirm" /\ e.consent = k
    BY <1>1 DEF Pages, PageStates
  <2>2. page' = [page EXCEPT ![t] = e]
    BY DEF SadadCallback
  <2> HIDE DEF e
  <2> QED
    BY <2>1, <2>2 DEF OnlyTab, CheckoutInv, TypeOK, Pages
<1>4. UNCHANGED <<client, consent, code, transfers, phoneVars>> /\ client = "sadad-web"
  BY DEF SadadCallback, bankVars
<1>5. ConsentsKept /\ code' \in [Consents -> Codes]
  BY <1>4, SameConsentsKept DEF CheckoutInv, TypeOK, Codes
<1>6. consent[k].status # "none"
  BY <1>1 DEF CheckoutInv, Linked
<1>7. ~Going(t)' /\ ~Settled(t)'
  BY <1>3 DEF Going, Settled
<1>8. Web /\ client # "salalah-web"
  BY <1>4 DEF Web
<1> QED
  BY <1>1, <1>2, <1>3, <1>4, <1>5, <1>6, <1>7, <1>8, TabStep

LEMMA AnnounceInv ==
  ASSUME CheckoutInv, NEW t \in Tabs, PaymentDone(t) \/ SadadConfirms(t)
  PROVE  CheckoutInv'
<1> DEFINE k == page[t].consent
<1>1. page[t] \in Pages /\ page[t].at \in {"settle", "confirm"} /\ k \in Consents
  BY DEF PaymentDone, SadadConfirms, CheckoutInv, TypeOK, Pages, Linked
<1>2. Announce(t)
  BY DEF PaymentDone, SadadConfirms
<1>3. store' \in Stores /\ store'.state = None
  BY <1>2, Bounds DEF Announce, EmptyStore, Stores
<1>4. /\ OnlyTab(t) /\ page'[t].at = "success" /\ page'[t].consent = k
      /\ page'[t].amount = page[t].amount
  <2> DEFINE e == [page[t] EXCEPT !.at = "success", !.cart = 0]
  <2>1. e \in Pages /\ e.at = "success" /\ e.consent = k /\ e.amount = page[t].amount
    BY <1>1, Bounds DEF Pages, PageStates
  <2>2. page' = [page EXCEPT ![t] = e]
    BY <1>2 DEF Announce
  <2> HIDE DEF e
  <2> QED
    BY <2>1, <2>2 DEF OnlyTab, CheckoutInv, TypeOK, Pages
<1>5. UNCHANGED <<client, consent, code, transfers, phoneVars>>
  BY <1>2 DEF Announce, bankVars
<1>6. ConsentsKept /\ code' \in [Consents -> Codes]
  BY <1>5, SameConsentsKept DEF CheckoutInv, TypeOK, Codes
<1>7. consent[k].status # "none" /\ Web
  BY <1>1, BusyTabIsWeb DEF CheckoutInv, Linked
<1>8. /\ ~Going(t)' /\ page'[t].at # "confirm"
      /\ client = "salalah-web" => Settled(t)
  BY <1>1, <1>4 DEF Going, Settled, CheckoutInv, Apart
<1> QED
  BY <1>1, <1>3, <1>4, <1>5, <1>6, <1>7, <1>8, TabStep

\* The transfer joins the others, and the tab has used its one way to pay.
LEMMA PayMerchantInv ==
  ASSUME CheckoutInv, NEW t \in Tabs, PayMerchant(t)
  PROVE  CheckoutInv'
<1> USE DEF CheckoutInv
<1> DEFINE k == page[t].consent
           m == page[t].amount
           new == [consent |-> k, amount |-> m]
<1>1. page[t] \in Pages /\ page[t].at = "pay" /\ k \in Consents /\ m \in Totals
  BY DEF PayMerchant, TypeOK, Pages, Linked
<1>2. consent[k].status = "Authorised" /\ transfers' = Append(transfers, new)
  BY DEF PayMerchant, HasAccount, ExecuteTransfer
<1>3. ShownAt(t, "settle") /\ Web /\ Going(t)
  BY <1>1, ShowMoves, BusyTabIsWeb DEF PayMerchant, PageStates, Going
<1>4. UNCHANGED <<client, consent, code, store, phoneVars>>
  BY DEF PayMerchant
<1>5. transfers' \in Seq([consent : Consents, amount : Totals])
  BY <1>1, <1>2 DEF TypeOK
<1>6. /\ DOMAIN transfers = 1..Len(transfers) /\ Len(transfers) \in Nat
      /\ DOMAIN transfers' = 1..Len(transfers) + 1
      /\ \A i \in 1..Len(transfers) : transfers'[i] = transfers[i]
      /\ transfers'[Len(transfers) + 1] = new
  BY <1>2 DEF TypeOK
<1>7. new.consent = k /\ new.amount = m
  OBVIOUS
<1> HIDE DEF k, m, new
<1>8. /\ \A j : Charged(j)' <=> Charged(j) \/ j = k
      /\ \A j, n : ChargedFor(j, n)' <=> ChargedFor(j, n) \/ (j = k /\ n = m)
  BY <1>6, <1>7 DEF Charged, ChargedFor
<1>9. ~Charged(k)
  BY <1>3 DEF OneWayToPay, k
<1>10. TypeOK'
  BY <1>3, <1>4, <1>5 DEF TypeOK, ShownAt, OnlyTab, Pages, phoneVars
<1>11. PaymentsAreApproved'
  BY <1>2, <1>4, <1>6, <1>7 DEF PaymentsAreApproved
<1>12. Linked'
  <2>1. \A u \in Tabs : u # t => page'[u] = page[u]
    BY <1>3 DEF ShownAt, OnlyTab
  <2>2. page'[t].consent = k /\ consent[k].status # "none"
    BY <1>2, <1>3 DEF ShownAt, k
  <2> QED
    BY <1>1, <1>4, <2>1, <2>2 DEF Linked, phoneVars
<1>13. Apart'
  BY <1>3, <1>4 DEF Apart, ShownAt, OnlyTab, phoneVars, Web, Phone
<1>14. OneWayToPay'
  <2>1. \A i, j \in DOMAIN transfers' :
            transfers'[i].consent = transfers'[j].consent => i = j
    <3>1. \A i \in 1..Len(transfers) : transfers[i].consent # k
      BY <1>6, <1>9 DEF Charged
    <3> QED
      BY <1>3, <1>6, <1>7, <3>1 DEF OneWayToPay
  <2>2. \A u \in Tabs : Going(u)' => u # t /\ Going(u) /\ page'[u] = page[u]
    BY <1>3 DEF Going, ShownAt, OnlyTab
  <2>3. \A u \in Tabs : Going(u)' => page'[u].consent # k
    BY <1>3, <2>2 DEF OneWayToPay, k
  <2>4. store.state # k
    BY <1>1, <1>3 DEF OneWayToPay, k
  <2> QED
    BY <1>3, <1>4, <1>8, <2>1, <2>2, <2>3, <2>4 DEF OneWayToPay
<1>15. SettledIsPaid'
  <2>1. \A u \in Tabs : u # t => page'[u] = page[u]
    BY <1>3 DEF ShownAt, OnlyTab
  <2>2. page'[t].consent = k /\ page'[t].amount = m
    BY <1>3 DEF ShownAt, k, m
  <2> QED
    BY <1>4, <1>8, <2>1, <2>2 DEF SettledIsPaid, Settled, phoneVars
<1> QED
  BY <1>10, <1>11, <1>12, <1>13, <1>14, <1>15

LEMMA TabInv ==
  ASSUME CheckoutInv, NEW t \in Tabs, WebStep(t)
  PROVE  CheckoutInv'
<1>1. CASE ApprovalStep(t)
  BY <1>1, ScreenInv, DecideInv, CodeArrivesInv DEF ApprovalStep
<1>2. CASE CallbackStep(t)
  BY <1>2, ScreenInv, CallbackBadStateInv, ProcessCallbackInv, CodeUsedInv, PayMerchantInv,
     AnnounceInv, SadadCallbackInv DEF CallbackStep
<1>3. CASE \/ AddToCart(t) \/ DecrementItem(t) \/ HandlePay(t) \/ ConsentCreated(t)
           \/ PayFails(t) \/ BackToStore(t) \/ BackFromBank(t)
           \/ \E u \in Tabs : OpenAgain(t, u)
  BY <1>3, CartInv, HandlePayInv, ConsentCreatedInv, ScreenInv, BackToStoreInv, BackFromBankInv,
     OpenAgainInv
<1> QED
  BY <1>1, <1>2, <1>3 DEF WebStep

----------------------------------------------------------------------------
(* The phone                                                               *)

\* What a step of the phone has to leave behind.
PhoneSound ==
    /\ code' \in [Consents -> Codes] /\ store' \in Stores
    /\ bankApp' \in BankScreens /\ ordering' \in Totals /\ run' \in [Consents -> Runs]
    /\ store'.state \in Consents => consent'[store'.state].status # "none"
    /\ bankApp'.at # "home" => bankApp'.consent \in Consents

\* The runs that go on have a consent to pay, and those that settled stay so.
RunsKept ==
    \A k \in Consents :
        /\ run'[k].at \in {"use", "pay", "settle", "approved"} => run'[k].paying \in Consents
        /\ run'[k].at \in {"settle", "approved"} =>
            run[k].at \in {"settle", "approved"} /\ run'[k].paying = run[k].paying

\* What phoneVars and bankVars stand for, in the types used here.
LEMMA PhoneTypes ==
  ASSUME CheckoutInv
  PROVE  /\ consent \in [Consents -> ConsentRows] /\ code \in [Consents -> Codes]
         /\ store \in Stores /\ bankApp \in BankScreens /\ ordering \in Totals
         /\ run \in [Consents -> Runs]
  BY DEF CheckoutInv, TypeOK, ConsentRows, Codes, Stores, BankScreens, Runs

LEMMA BusyPhone ==
  ASSUME CheckoutInv,
         \/ ordering > 0 \/ bankApp.at # "home"
         \/ \E k \in Consents : run[k].at # "none"
  PROVE  Phone /\ ~Web
  BY DEF CheckoutInv, TypeOK, AllClients, Web, Phone, Apart

\* The same without the transfers, which only RunPays adds to.
LEMMA AppStep ==
  ASSUME CheckoutInv, Phone, UNCHANGED <<client, page, transfers>>, ConsentsKept, PhoneSound,
         RunsKept
  PROVE  CheckoutInv'
<1> USE DEF CheckoutInv
<1>1. TypeOK'
  BY DEF TypeOK, ConsentsKept, PhoneSound, ConsentRows, Codes, Stores, BankScreens, Runs
<1>2. PaymentsAreApproved'
  BY TransferTypes DEF PaymentsAreApproved, ConsentsKept
<1>3. Linked'
  BY DEF Linked, ConsentsKept, PhoneSound, RunsKept
<1>4. Apart' /\ OneWayToPay'
  BY DEF Apart, OneWayToPay, Web, Phone
<1>5. SettledIsPaid'
  <2>1. \A j : Charged(j)' <=> Charged(j)
    BY DEF Charged
  <2> QED
    BY <2>1 DEF SettledIsPaid, RunsKept, Phone
<1> QED
  BY <1>1, <1>2, <1>3, <1>4, <1>5

\* Runs that do not move are kept.
LEMMA SameRunsKept ==
  ASSUME CheckoutInv, UNCHANGED run
  PROVE  RunsKept /\ run' \in [Consents -> Runs]
  BY PhoneTypes DEF CheckoutInv, Linked, RunsKept

\* One run moves to a stage before the payment, or fails.
LEMMA OneRunKept ==
  ASSUME CheckoutInv, NEW k \in Consents, NEW e \in Runs, run' = [run EXCEPT ![k] = e],
         e.at \in {"use", "pay", "settle", "approved"} => e.paying \in Consents,
         e.at \in {"settle", "approved"} =>
             run[k].at \in {"settle", "approved"} /\ e.paying = run[k].paying
  PROVE  RunsKept /\ run' \in [Consents -> Runs]
<1>1. run \in [Consents -> Runs]
  BY PhoneTypes
<1>2. run'[k] = e /\ \A j \in Consents : j # k => run'[j] = run[j]
  BY <1>1
<1>3. run' \in [Consents -> Runs]
  BY <1>1
<1>4. RunsKept
  <2> SUFFICES ASSUME NEW j \in Consents
               PROVE  /\ run'[j].at \in {"use", "pay", "settle", "approved"}
                             => run'[j].paying \in Consents
                      /\ run'[j].at \in {"settle", "approved"} =>
                             /\ run[j].at \in {"settle", "approved"}
                             /\ run'[j].paying = run[j].paying
    BY DEF RunsKept
  <2>1. CASE j = k
    BY <1>2, <2>1
  <2>2. CASE j # k
    BY <1>2, <2>2 DEF CheckoutInv, Linked
  <2> QED
    BY <2>1, <2>2
<1> QED
  BY <1>3, <1>4

\* The cart and the checkout it starts.
LEMMA OrderInv ==
  ASSUME CheckoutInv, AddLine \/ RemoveLine \/ CheckoutPay \/ OpenFails
  PROVE  CheckoutInv'
<1>1. store.cart \in Totals /\ store \in Stores
  BY PhoneTypes DEF Stores
<1>2. UNCHANGED <<client, page, transfers, consent, code, bankApp, run>>
  BY DEF AddLine, RemoveLine, PhoneSetCart, CheckoutPay, OpenFails, bankVars, phoneVars
<1>3. Phone
  BY BusyPhone DEF AddLine, RemoveLine, PhoneSetCart, CheckoutPay, OpenFails
<1>4. store' \in Stores /\ store'.state = store.state
  <2>1. CASE AddLine \/ RemoveLine
    <3>1. PICK total \in {store.cart + 1, store.cart - 1} :
              total \in Totals /\ store' = [store EXCEPT !.cart = total]
      BY <1>1, <2>1, CheckoutAssumption DEF AddLine, RemoveLine, PhoneSetCart, Totals
    <3> QED
      BY <1>1, <3>1 DEF Stores
  <2>2. CASE CheckoutPay \/ OpenFails
    BY <1>1, <2>2 DEF CheckoutPay, OpenFails
  <2> QED
    BY <2>1, <2>2
<1>5. ordering' \in Totals
  BY <1>1, PhoneTypes, Bounds
  DEF AddLine, RemoveLine, PhoneSetCart, CheckoutPay, OpenFails, phoneVars
<1>6. ConsentsKept /\ RunsKept
  BY <1>2, SameConsentsKept, SameRunsKept DEF CheckoutInv
<1>7. PhoneSound
  BY <1>2, <1>4, <1>5, PhoneTypes DEF PhoneSound, CheckoutInv, Linked
<1> QED
  BY <1>2, <1>3, <1>6, <1>7, AppStep

LEMMA OpenBankConsentInv ==
  ASSUME CheckoutInv, OpenBankConsent
  PROVE  CheckoutInv'
<1>1. PICK k \in Consents :
          /\ CreateConsent(k, ordering)
          /\ store' = [store EXCEPT !.state = k, !.consent = k]
          /\ bankApp' = [at |-> "loading", consent |-> k] \/ UNCHANGED bankApp
  BY DEF OpenBankConsent
<1>2. UNCHANGED <<client, page, transfers, code, run>> /\ ordering' = 0 /\ Phone
  BY BusyPhone DEF OpenBankConsent
<1>3. ConsentsKept /\ consent'[k].status # "none"
  BY <1>1, PhoneTypes, CreationKept DEF CheckoutInv
<1>4. store' \in Stores /\ store'.state = k
  BY <1>1, PhoneTypes DEF Stores
<1>5. bankApp' \in BankScreens /\ (bankApp'.at # "home" => bankApp'.consent \in Consents)
  <2>1. CASE bankApp' = [at |-> "loading", consent |-> k]
    BY <2>1 DEF BankScreens
  <2>2. CASE UNCHANGED bankApp
    BY <2>2, PhoneTypes DEF CheckoutInv, Linked
  <2> QED
    BY <1>1, <2>1, <2>2
<1>6. RunsKept
  BY <1>2, SameRunsKept
<1>7. PhoneSound
  BY <1>2, <1>3, <1>4, <1>5, PhoneTypes, Bounds DEF PhoneSound
<1> QED
  BY <1>2, <1>3, <1>6, <1>7, AppStep

\* A step of the bank's app that changes its screen, and perhaps the callback
\* screens of the shop's app, but not the shop's storage.
LEMMA BankAppStep ==
  ASSUME CheckoutInv, bankApp.at # "home",
         NEW at \in {"home", "ready", "picked", "coding"}, bankApp' = [bankApp EXCEPT !.at = at],
         UNCHANGED <<client, transfers, store, page, ordering>>,
         ConsentsKept, code' \in [Consents -> Codes],
         RunsKept, run' \in [Consents -> Runs]
  PROVE  CheckoutInv'
<1>1. bankApp.consent \in Consents /\ Phone
  BY BusyPhone DEF CheckoutInv, Linked
<1>2. bankApp' \in BankScreens /\ bankApp'.consent = bankApp.consent
  BY PhoneTypes DEF BankScreens
<1>3. store'.state \in Consents => consent'[store'.state].status # "none"
  BY DEF CheckoutInv, Linked, ConsentsKept
<1>4. PhoneSound
  BY <1>1, <1>2, <1>3, PhoneTypes DEF PhoneSound
<1> QED
  BY <1>1, <1>4, AppStep

\* The link back to the shop starts one run and leaves the others.
LEMMA OpenCallbackKept ==
  ASSUME CheckoutInv, NEW k \in Consents, OpenCallback(k)
  PROVE  RunsKept /\ run' \in [Consents -> Runs]
<1> DEFINE started == [NoRun EXCEPT !.at = "arrived"]
           left(j) == [run[j] EXCEPT !.left = @ \/ run[j].at \in Processing]
<1>1. started \in Runs /\ started.at = "arrived"
  BY Bounds DEF NoRun, Runs, RunStates
<1>2. ASSUME NEW j \in Consents
      PROVE  left(j) \in Runs /\ left(j).at = run[j].at /\ left(j).paying = run[j].paying
  <2>1. run[j] \in Runs
    BY PhoneTypes
  <2> DEFINE b == run[j].left \/ run[j].at \in Processing
  <2>2. b \in BOOLEAN
    BY <2>1 DEF Runs
  <2>3. left(j) = [run[j] EXCEPT !.left = b]
    OBVIOUS
  <2> HIDE DEF b
  <2> QED
    BY <2>1, <2>2, <2>3 DEF Runs
<1>3. run' = [j \in Consents |-> IF j = k THEN started ELSE left(j)]
  BY DEF OpenCallback
<1> HIDE DEF started, left
<1>4. run' \in [Consents -> Runs]
  BY <1>1, <1>2, <1>3
<1>5. RunsKept
  BY <1>1, <1>2, <1>3 DEF RunsKept, CheckoutInv, Linked
<1> QED
  BY <1>4, <1>5

LEMMA RedirectKept ==
  ASSUME CheckoutInv, NEW k \in Consents, HandleRedirect(k)
  PROVE  /\ RunsKept /\ run' \in [Consents -> Runs]
         /\ \E at \in {"home", "picked"} : bankApp' = [bankApp EXCEPT !.at = at]
<1>1. CASE OpenCallback(k) /\ bankApp' = [bankApp EXCEPT !.at = "picked"]
  BY <1>1, OpenCallbackKept
<1>2. CASE UNCHANGED run /\ bankApp' = [bankApp EXCEPT !.at = "home"]
  BY <1>2, SameRunsKept
<1> QED
  BY <1>1, <1>2 DEF HandleRedirect

LEMMA BankAppInv ==
  ASSUME CheckoutInv,
         \/ LoadConsent \/ PickOnPhone \/ ApproveOnPhone \/ CodeArrivesOnPhone
         \/ CodeFailsOnPhone \/ RejectOnPhone
  PROVE  CheckoutInv'
<1>1. bankApp.at # "home" /\ bankApp.consent \in Consents
  BY DEF LoadConsent, PickOnPhone, ApproveOnPhone, CodeArrivesOnPhone, CodeFailsOnPhone,
         RejectOnPhone, CheckoutInv, Linked
<1>2. UNCHANGED <<client, transfers, store, page, ordering>>
  BY DEF LoadConsent, PickOnPhone, ApproveOnPhone, CodeArrivesOnPhone, CodeFailsOnPhone,
         RejectOnPhone, bankVars
<1>3. CASE LoadConsent \/ PickOnPhone \/ CodeFailsOnPhone
  <2>1. UNCHANGED <<consent, code, run>>
    BY <1>3 DEF LoadConsent, PickOnPhone, CodeFailsOnPhone, bankVars
  <2>2. PICK at \in {"ready", "picked"} : bankApp' = [bankApp EXCEPT !.at = at]
    BY <1>3 DEF LoadConsent, PickOnPhone, CodeFailsOnPhone
  <2>3. ConsentsKept /\ code' \in [Consents -> Codes]
    BY <2>1, SameConsentsKept, PhoneTypes DEF CheckoutInv
  <2> QED
    BY <1>1, <1>2, <2>1, <2>2, <2>3, SameRunsKept, BankAppStep
<1>4. CASE ApproveOnPhone
  <2>1. UNCHANGED <<code, run>>
    BY <1>4 DEF ApproveOnPhone
  <2>2. PICK at \in {"coding", "picked"} : bankApp' = [bankApp EXCEPT !.at = at]
    BY <1>4 DEF ApproveOnPhone
  <2>3. ConsentsKept /\ code' \in [Consents -> Codes]
    BY <1>1, <1>4, <2>1, DecisionKept, PhoneTypes DEF ApproveOnPhone, CheckoutInv
  <2> QED
    BY <1>1, <1>2, <2>1, <2>2, <2>3, SameRunsKept, BankAppStep
<1>5. CASE CodeArrivesOnPhone
  <2>1. ConsentsKept /\ code' \in [Consents -> Codes]
    BY <1>1, <1>5, SameConsentsKept, CodeTypes DEF CodeArrivesOnPhone, CheckoutInv
  <2>2. CASE HandleRedirect(bankApp.consent)
    BY <1>1, <1>2, <2>1, <2>2, RedirectKept, BankAppStep
  <2>3. CASE bankApp' = [bankApp EXCEPT !.at = "picked"] /\ UNCHANGED run
    BY <1>1, <1>2, <2>1, <2>3, SameRunsKept, BankAppStep
  <2> QED
    BY <1>5, <2>2, <2>3 DEF CodeArrivesOnPhone
<1>6. CASE RejectOnPhone
  <2>1. ConsentsKept /\ code' \in [Consents -> Codes]
    BY <1>1, <1>6, DecisionKept, PhoneTypes DEF RejectOnPhone, CheckoutInv
  <2>2. CASE HandleRedirect(bankApp.consent)
    BY <1>1, <1>2, <2>1, <2>2, RedirectKept, BankAppStep
  <2>3. CASE UNCHANGED <<bankApp, run>>
    <3>1. /\ bankApp' = [bankApp EXCEPT !.at = bankApp.at]
          /\ bankApp.at \in {"home", "ready", "picked", "coding"}
      BY <1>6, <2>3, PhoneTypes DEF RejectOnPhone, BankScreens
    <3> QED
      BY <1>1, <1>2, <2>1, <2>3, <3>1, SameRunsKept, BankAppStep
  <2> QED
    BY <1>6, <2>2, <2>3 DEF RejectOnPhone
<1> QED
  BY <1>3, <1>4, <1>5, <1>6

\* A callback run moves on: only its own record and the storage change.
LEMMA RunMoves ==
  ASSUME CheckoutInv, NEW k \in Consents, run[k].at # "none", NEW e \in Runs,
         run' = [run EXCEPT ![k] = e],
         e.at \in {"use", "pay", "settle", "approved"} => e.paying \in Consents,
         e.at \in {"settle", "approved"} =>
             run[k].at \in {"settle", "approved"} /\ e.paying = run[k].paying,
         store' \in Stores, store'.state \in {store.state, None},
         UNCHANGED <<client, consent, transfers, page, bankApp, ordering>>,
         code' \in [Consents -> Codes]
  PROVE  CheckoutInv'
<1>1. Phone /\ ConsentsKept /\ RunsKept /\ run' \in [Consents -> Runs]
  BY BusyPhone, SameConsentsKept, OneRunKept DEF CheckoutInv
<1>2. store'.state \in Consents => consent'[store'.state].status # "none"
  BY Bounds DEF CheckoutInv, Linked
<1>3. PhoneSound
  BY <1>1, <1>2, PhoneTypes DEF PhoneSound, CheckoutInv, Linked
<1> QED
  BY <1>1, <1>3, AppStep

\* The record of a run that moves to another stage.
RunAt(k, at) == [run[k] EXCEPT !.at = at]

LEMMA RunAtTypes ==
  ASSUME CheckoutInv, NEW k \in Consents, NEW at \in RunStates
  PROVE  /\ RunAt(k, at) \in Runs /\ RunAt(k, at).at = at
         /\ RunAt(k, at).paying = run[k].paying
         /\ RunTo(k, at) <=> run' = [run EXCEPT ![k] = RunAt(k, at)]
<1>1. run[k] \in Runs
  BY PhoneTypes
<1>2. RunAt(k, at) \in Runs /\ RunAt(k, at).at = at /\ RunAt(k, at).paying = run[k].paying
  BY <1>1 DEF RunAt, Runs
<1>3. RunTo(k, at) <=> run' = [run EXCEPT ![k] = RunAt(k, at)]
  BY DEF RunTo, RunAt
<1> QED
  BY <1>2, <1>3

\* The storage after the end of a run, or as it was.
LEMMA StorageCleared ==
  ASSUME CheckoutInv, store' \in {store, ClearPaymentState, EmptyStore}
  PROVE  store' \in Stores /\ store'.state \in {store.state, None}
<1>1. store \in Stores
  BY PhoneTypes
<1>2. ClearPaymentState \in Stores /\ ClearPaymentState.state = None
  BY <1>1, Bounds DEF ClearPaymentState, Stores
<1>3. EmptyStore \in Stores /\ EmptyStore.state = None
  BY Bounds DEF EmptyStore, Stores
<1> QED
  BY <1>1, <1>2, <1>3

\* Failing, leaving and reading the state: nothing is paid.
LEMMA RunEndsInv ==
  ASSUME CheckoutInv, NEW k \in Consents, run[k].at # "none",
         NEW at \in {"read", "error"}, RunTo(k, at),
         store' \in {store, ClearPaymentState, EmptyStore},
         UNCHANGED <<client, consent, transfers, page, bankApp, ordering>>,
         code' \in [Consents -> Codes]
  PROVE  CheckoutInv'
<1>1. at \in RunStates
  BY DEF RunStates
<1>2. /\ RunAt(k, at) \in Runs /\ RunAt(k, at).at = at
      /\ run' = [run EXCEPT ![k] = RunAt(k, at)]
  BY <1>1, RunAtTypes
<1>3. store' \in Stores /\ store'.state \in {store.state, None}
  BY StorageCleared
<1> QED
  BY <1>2, <1>3, RunMoves

LEMMA LeaveCallbackInv ==
  ASSUME CheckoutInv, NEW k \in Consents, LeaveCallback(k)
  PROVE  CheckoutInv'
<1> DEFINE e == [run[k] EXCEPT !.left = TRUE]
<1>1. run[k] \in Runs /\ run[k].at # "none"
  BY PhoneTypes DEF LeaveCallback, Processing
<1>2. e \in Runs /\ e.at = run[k].at /\ e.paying = run[k].paying
  BY <1>1 DEF Runs
<1>3. run' = [run EXCEPT ![k] = e]
  BY DEF LeaveCallback
<1> HIDE DEF e
<1>4. UNCHANGED <<client, consent, code, transfers, store, page, bankApp, ordering>>
  BY DEF LeaveCallback, bankVars
<1>5. e.at \in {"use", "pay", "settle", "approved"} => e.paying \in Consents
  BY <1>2 DEF CheckoutInv, Linked
<1> QED
  BY <1>1, <1>2, <1>3, <1>4, <1>5, PhoneTypes, RunMoves

LEMMA RunReadsInv ==
  ASSUME CheckoutInv, NEW k \in Consents, RunReads(k)
  PROVE  CheckoutInv'
<1>1. UNCHANGED <<client, consent, code, transfers, page, bankApp, ordering>>
  BY DEF RunReads, bankVars
<1>2. /\ run[k].at # "none" /\ store' \in {store, ClearPaymentState, EmptyStore}
      /\ \E at \in {"read", "error"} : RunTo(k, at)
  BY DEF RunReads
<1> QED
  BY <1>1, <1>2, PhoneTypes, RunEndsInv

LEMMA RunExchangesInv ==
  ASSUME CheckoutInv, NEW k \in Consents, RunExchanges(k)
  PROVE  CheckoutInv'
<1>1. UNCHANGED <<client, consent, code, transfers, page, bankApp, ordering>>
  BY DEF RunExchanges, bankVars
<1>2. run[k].at = "read" /\ run[k] \in Runs /\ store \in Stores
  BY PhoneTypes DEF RunExchanges
<1>3. CASE RunFails(k)
  BY <1>1, <1>2, <1>3, PhoneTypes, RunEndsInv DEF RunFails
<1>4. CASE /\ store.consent # None /\ UNCHANGED store
           /\ run' = [run EXCEPT ![k].at = "use", ![k].paying = store.consent]
  <2> DEFINE e == [run[k] EXCEPT !.at = "use", !.paying = store.consent]
  <2>1. store.consent \in Consents
    BY <1>2, <1>4, Bounds DEF Stores
  <2>2. e \in Runs /\ e.at = "use" /\ e.paying = store.consent
    BY <1>2, <2>1 DEF Runs, RunStates
  <2>3. run' = [run EXCEPT ![k] = e]
    BY <1>4
  <2> HIDE DEF e
  <2> QED
    BY <1>1, <1>2, <1>4, <2>1, <2>2, <2>3, PhoneTypes, RunMoves
<1> QED
  BY <1>3, <1>4 DEF RunExchanges

LEMMA RunCodeUsedInv ==
  ASSUME CheckoutInv, NEW k \in Consents, RunCodeUsed(k)
  PROVE  CheckoutInv'
<1>1. UNCHANGED <<client, consent, transfers, page, bankApp, ordering>> /\ run[k].at = "use"
  BY DEF RunCodeUsed
<1>2. code' \in [Consents -> Codes]
  BY CodeTypes DEF RunCodeUsed, CheckoutInv
<1>3. CASE RunFails(k)
  BY <1>1, <1>2, <1>3, RunEndsInv DEF RunFails
<1>4. CASE RunTo(k, "pay") /\ UNCHANGED store
  <2>1. /\ RunAt(k, "pay") \in Runs /\ RunAt(k, "pay").at = "pay"
        /\ RunAt(k, "pay").paying = run[k].paying
        /\ run' = [run EXCEPT ![k] = RunAt(k, "pay")]
    BY <1>4, RunAtTypes DEF RunStates
  <2>2. run[k].paying \in Consents
    BY <1>1 DEF CheckoutInv, Linked
  <2> QED
    BY <1>1, <1>2, <1>4, <2>1, <2>2, PhoneTypes, RunMoves
<1> QED
  BY <1>3, <1>4 DEF RunCodeUsed

LEMMA RunPaymentFailsInv ==
  ASSUME CheckoutInv, NEW k \in Consents, RunPaymentFails(k)
  PROVE  CheckoutInv'
<1>1. UNCHANGED <<client, consent, code, transfers, page, bankApp, ordering>>
  BY DEF RunPaymentFails, bankVars
<1>2. run[k].at # "none" /\ RunFails(k)
  BY DEF RunPaymentFails
<1> QED
  BY <1>1, <1>2, PhoneTypes, RunEndsInv DEF RunFails

LEMMA RunDoneInv ==
  ASSUME CheckoutInv, NEW k \in Consents, RunDone(k)
  PROVE  CheckoutInv'
<1>1. UNCHANGED <<client, consent, code, transfers, page, bankApp, ordering>>
  BY DEF RunDone, bankVars
<1>2. run[k].at = "settle" /\ run[k].paying \in Consents
  BY DEF RunDone, CheckoutInv, Linked
<1>3. /\ RunAt(k, "approved") \in Runs /\ RunAt(k, "approved").at = "approved"
      /\ RunAt(k, "approved").paying = run[k].paying
      /\ run' = [run EXCEPT ![k] = RunAt(k, "approved")]
  BY RunAtTypes DEF RunDone, RunStates
<1>4. store' \in Stores /\ store'.state \in {store.state, None}
  BY StorageCleared DEF RunDone
<1> QED
  BY <1>1, <1>2, <1>3, <1>4, PhoneTypes, RunMoves

\* The run pays the consent it read, which may be another than its own: the
\* consent is authorised all the same.
LEMMA RunPaysInv ==
  ASSUME CheckoutInv, NEW k \in Consents, RunPays(k)
  PROVE  CheckoutInv'
<1> USE DEF CheckoutInv
<1> DEFINE c == run[k].paying
           m == consent[c].amount
           new == [consent |-> c, amount |-> m]
<1>1. run[k].at = "pay" /\ c \in Consents /\ m \in Totals /\ consent[c].status = "Authorised"
  <2>1. c \in Consents
    BY DEF RunPays, Linked
  <2>2. consent[c] \in ConsentRows
    BY <2>1, PhoneTypes
  <2> QED
    BY <2>1, <2>2 DEF RunPays, ExecuteDomesticPayment, HasAccount, ConsentRows
<1>2. transfers' = Append(transfers, new)
  BY DEF RunPays, ExecuteDomesticPayment, ExecuteTransfer
<1>3. /\ RunAt(k, "settle") \in Runs /\ RunAt(k, "settle").at = "settle"
      /\ RunAt(k, "settle").paying = c
      /\ run' = [run EXCEPT ![k] = RunAt(k, "settle")]
  BY RunAtTypes DEF RunPays, RunStates
<1>4. UNCHANGED <<client, consent, code, store, page, bankApp, ordering>>
  BY DEF RunPays
<1>5. transfers' \in Seq([consent : Consents, amount : Totals])
  BY <1>1, <1>2 DEF TypeOK
<1>6. /\ DOMAIN transfers = 1..Len(transfers) /\ Len(transfers) \in Nat
      /\ DOMAIN transfers' = 1..Len(transfers) + 1
      /\ \A i \in 1..Len(transfers) : transfers'[i] = transfers[i]
      /\ transfers'[Len(transfers) + 1] = new
  BY <1>2 DEF TypeOK
<1>7. new.consent = c
  OBVIOUS
<1> HIDE DEF c, m, new
<1>8. \A j : Charged(j)' <=> Charged(j) \/ j = c
  BY <1>6, <1>7 DEF Charged
<1>9. Phone /\ run \in [Consents -> Runs]
  BY <1>1, BusyPhone, PhoneTypes
<1>10. run' \in [Consents -> Runs] /\ run'[k] = RunAt(k, "settle")
       /\ \A j \in Consents : j # k => run'[j] = run[j]
  BY <1>3, <1>9
<1>11. TypeOK'
  BY <1>4, <1>5, <1>10 DEF TypeOK, Runs
<1>12. PaymentsAreApproved'
  BY <1>1, <1>4, <1>6, <1>7 DEF PaymentsAreApproved
<1>13. Linked'
  BY <1>1, <1>3, <1>4, <1>10 DEF Linked
<1>14. Apart' /\ OneWayToPay'
  BY <1>4, <1>9 DEF Apart, OneWayToPay, Web, Phone
<1>15. SettledIsPaid'
  BY <1>3, <1>4, <1>8, <1>9, <1>10 DEF SettledIsPaid, Phone
<1> QED
  BY <1>11, <1>12, <1>13, <1>14, <1>15

LEMMA PhoneInv ==
  ASSUME CheckoutInv, PhoneStep
  PROVE  CheckoutInv'
<1>1. ASSUME NEW k \in Consents, RunStep(k) PROVE CheckoutInv'
  BY <1>1, RunReadsInv, RunExchangesInv, RunCodeUsedInv, RunPaysInv, RunPaymentFailsInv,
     RunDoneInv DEF RunStep
<1> QED
  BY <1>1, OrderInv, OpenBankConsentInv, BankAppInv, LeaveCallbackInv DEF PhoneStep

----------------------------------------------------------------------------
(* The theorems                                                            *)

LEMMA InitInv == Init => CheckoutInv
<1> SUFFICES ASSUME Init PROVE CheckoutInv
  OBVIOUS
<1>1. TypeOK
  <2>1. client \in AllClients /\ transfers \in Seq([consent : Consents, amount : Totals])
    BY CheckoutAssumption DEF Init
  <2>2. /\ store \in [cart : Totals, state : Consents \cup NoConsent,
                      consent : Consents \cup NoConsent]
        /\ page \in [Tabs -> Pages] /\ bankApp \in BankScreens
    BY Bounds DEF Init, EmptyStore, Pages, PageStates, BankScreens
  <2>3. /\ consent \in [Consents -> ConsentRows] /\ run \in [Consents -> Runs]
        /\ code \in [Consents -> Codes] /\ ordering \in Totals
    BY Bounds DEF Init, ConsentRows, Runs, RunStates, NoRun, Codes
  <2> QED
    BY <2>1, <2>2, <2>3 DEF TypeOK, Pages, BankScreens, ConsentRows, Runs, Codes
<1>2. PaymentsAreApproved
  BY DEF Init, PaymentsAreApproved
<1>3. Linked
  BY Bounds DEF Init, Linked, EmptyStore, NoRun
<1>4. Apart
  BY DEF Init, Apart, NoRun
<1>5. OneWayToPay
  BY Bounds DEF Init, OneWayToPay, Going, EmptyStore
<1>6. SettledIsPaid
  BY DEF Init, SettledIsPaid, Settled, NoRun
<1> QED
  BY <1>1, <1>2, <1>3, <1>4, <1>5, <1>6 DEF CheckoutInv

LEMMA CheckoutInvStep == CheckoutInv /\ [Next]_vars => CheckoutInv'
<1> SUFFICES ASSUME CheckoutInv, [Next]_vars PROVE CheckoutInv'
  OBVIOUS
<1> USE DEF CheckoutInv
<1>1. CASE CodeExpires \/ UNCHANGED vars
  <2>1. UNCHANGED <<client, consent, transfers, store, page, bankApp, ordering, run>>
    BY <1>1 DEF CodeExpires, vars, phoneVars
  <2>2. code' \in [Consents -> Codes]
    BY <1>1 DEF CodeExpires, vars, TypeOK, Codes
  <2>3. TypeOK'
    BY <2>1, <2>2 DEF TypeOK, Codes
  <2>4. PaymentsAreApproved' /\ Linked' /\ Apart'
    BY <2>1 DEF PaymentsAreApproved, Linked, Apart, Web, Phone
  <2>5. OneWayToPay' /\ SettledIsPaid'
    BY <2>1 DEF OneWayToPay, SettledIsPaid, Going, Settled, Charged, ChargedFor, Web
  <2> QED
    BY <2>3, <2>4, <2>5
<1> QED
  BY <1>1, TabInv, PhoneInv DEF Next

LEMMA InvariantHolds == Spec => []CheckoutInv
<1>1. Init => CheckoutInv
  BY InitInv
<1>2. CheckoutInv /\ [Next]_vars => CheckoutInv'
  BY CheckoutInvStep
<1> QED
  BY <1>1, <1>2, PTL DEF Spec

\* Every variable has its type: no cart, order or payment leaves the range of
\* totals, and no payment is made under a consent that does not exist.
THEOREM CheckoutTypeCorrect == Spec => []TypeOK
<1>1. CheckoutInv => TypeOK
  BY DEF CheckoutInv
<1> QED
  BY <1>1, InvariantHolds, PTL

\* No money moves under a consent the customer has not approved, though neither
\* the transfer nor the domestic payment looks at its status.
THEOREM PaymentsApproved == Spec => []PaymentsAreApproved
<1>1. CheckoutInv => PaymentsAreApproved
  BY DEF CheckoutInv
<1> QED
  BY <1>1, InvariantHolds, PTL

\* On the web a consent is charged at most once, whatever is reloaded, opened
\* again in another tab, exchanged twice or lost on the way.
THEOREM WebPaysOnce == Spec => []WebPaidOnce
<1>1. ASSUME CheckoutInv, Web, NEW k \in Consents
      PROVE  Cardinality(PaymentsOf(k)) <= 1
  <2>1. \A i, j \in PaymentsOf(k) : i = j
    BY <1>1 DEF CheckoutInv, OneWayToPay, PaymentsOf
  <2>2. CASE PaymentsOf(k) = {}
    BY <2>2, FS_EmptySet
  <2>3. CASE PaymentsOf(k) # {}
    <3>1. PICK i \in PaymentsOf(k) : TRUE
      BY <2>3
    <3>2. PaymentsOf(k) = {i}
      BY <2>1, <3>1
    <3>3. Cardinality({i}) = 1
      BY FS_Singleton
    <3> QED
      BY <3>2, <3>3
  <2> QED
    BY <2>2, <2>3
<1>2. CheckoutInv => WebPaidOnce
  BY <1>1 DEF WebPaidOnce, PaidOncePerConsent
<1> QED
  BY <1>2, InvariantHolds, PTL

\* A Salalah success screen, or an approved phone checkout, stands for a
\* transfer the bank executed, on the web for the total it shows.
THEOREM SuccessPaid == Spec => []SuccessIsPaid
<1>1. CheckoutInv => SuccessIsPaid
  <2> SUFFICES ASSUME CheckoutInv PROVE SuccessIsPaid
    OBVIOUS
  <2>1. ASSUME NEW t \in Tabs, page[t].at = "success", client = "salalah-web"
        PROVE  \E i \in PaymentsOf(page[t].consent) : transfers[i].amount = page[t].amount
    <3>1. ChargedFor(page[t].consent, page[t].amount)
      BY <2>1 DEF CheckoutInv, SettledIsPaid, Settled
    <3> QED
      BY <3>1 DEF ChargedFor, PaymentsOf
  <2>2. ASSUME NEW k \in Consents, run[k].at = "approved"
        PROVE  PaymentsOf(run[k].paying) # {}
    <3>1. Charged(run[k].paying)
      BY <2>2 DEF CheckoutInv, SettledIsPaid
    <3> QED
      BY <3>1 DEF Charged, PaymentsOf
  <2> QED
    BY <2>1, <2>2 DEF SuccessIsPaid
<1> QED
  BY <1>1, InvariantHolds, PTL

----------------------------------------------------------------------------
(* The refinement                                                          *)

(* Three operations of the consent service write a consent's row.          *)
LEMMA ConsentWriters ==
  ASSUME CheckoutInv, [Next]_vars
  PROVE  \/ UNCHANGED consent
         \/ \E k \in Consents :
              \/ \E amount : CreateConsent(k, amount)
              \/ AuthorizeConsent(k) \/ RejectConsent(k)
<1>1. CASE UNCHANGED vars \/ CodeExpires
  BY <1>1 DEF vars, CodeExpires
<1>2. ASSUME NEW t \in Tabs, WebStep(t)
      PROVE  UNCHANGED consent \/ \E k \in Consents :
                 (\E amount : CreateConsent(k, amount)) \/ AuthorizeConsent(k) \/ RejectConsent(k)
  <2>1. CASE ConsentCreated(t)
    BY <2>1 DEF ConsentCreated
  <2>2. CASE HandleApprove(t) \/ HandleReject(t)
    <3>1. page[t].consent \in Consents
      BY <2>2 DEF CheckoutInv, Linked, HandleApprove, ApproveOffered, HandleReject
    <3> QED
      BY <2>2, <3>1 DEF HandleApprove, HandleReject
  <2>3. CASE AddToCart(t) \/ DecrementItem(t) \/ HandlePay(t) \/ PayFails(t) \/ BackToStore(t)
             \/ BackFromBank(t) \/ \E u \in Tabs : OpenAgain(t, u)
    BY <2>3 DEF AddToCart, DecrementItem, SetCart, HandlePay, PayFails, BackToStore, BackFromBank,
       OpenAgain, bankVars
  <2>4. CASE LoadApproval(t) \/ PickAccounts(t) \/ CodeArrives(t) \/ CodeFails(t) \/ RejectDialog(t)
    BY <2>4 DEF LoadApproval, PickAccounts, CodeArrives, CodeFails, RejectDialog, bankVars
  <2>5. CASE CallbackStep(t)
    BY <2>5 DEF CallbackStep, CallbackDeclined, CallbackBadState, ProcessCallback, ExchangeCode, CodeUsed,
       PayMerchant, PaymentFails, PaymentDone, SadadCallback, SadadConfirms, Announce, bankVars
  <2> QED
    BY <1>2, <2>1, <2>2, <2>3, <2>4, <2>5 DEF WebStep, ApprovalStep
<1>3. CASE PhoneStep
  <2>1. CASE OpenBankConsent
    BY <2>1 DEF OpenBankConsent
  <2>2. CASE ApproveOnPhone \/ RejectOnPhone
    <3>1. bankApp.consent \in Consents
      BY <2>2 DEF CheckoutInv, Linked, ApproveOnPhone, RejectOnPhone
    <3> QED
      BY <2>2, <3>1 DEF ApproveOnPhone, RejectOnPhone
  <2>3. CASE AddLine \/ RemoveLine \/ CheckoutPay \/ OpenFails \/ LoadConsent \/ PickOnPhone
             \/ CodeArrivesOnPhone \/ CodeFailsOnPhone
    BY <2>3 DEF AddLine, RemoveLine, PhoneSetCart, CheckoutPay, OpenFails, LoadConsent, PickOnPhone,
       CodeArrivesOnPhone, CodeFailsOnPhone, bankVars
  <2>4. CASE \E k \in Consents : LeaveCallback(k) \/ RunStep(k)
    BY <2>4 DEF LeaveCallback, RunStep, RunReads, RunExchanges, RunCodeUsed, RunPays, RunPaymentFails,
       RunDone, bankVars
  <2> QED
    BY <1>3, <2>1, <2>2, <2>3, <2>4 DEF PhoneStep
<1> QED
  BY <1>1, <1>2, <1>3 DEF Next

(* A new row is asked for.                                                 *)
LEMMA GrantAsks ==
  ASSUME TypeOK, NEW k \in Consents, NEW amount, CreateConsent(k, amount)
  PROVE  Grant!Ask(k)
<1>1. /\ consent[k].status = "none" /\ consent'[k].status = "AwaitingAuthorisation"
      /\ \A j \in Consents : j # k => consent'[j] = consent[j]
  BY DEF TypeOK, CreateConsent
<1> QED
  BY <1>1 DEF Grant!Ask

(* Approving grants, by the one customer there is.                         *)
LEMMA GrantGrants ==
  ASSUME TypeOK, NEW k \in Consents, AuthorizeConsent(k)
  PROVE  Grant!Grant(k, "customer")
<1>1. /\ consent[k].status = "AwaitingAuthorisation" /\ consent'[k].status = "Authorised"
      /\ \A j \in Consents : j # k => consent'[j] = consent[j]
  BY DEF TypeOK, AuthorizeConsent, CanDecide
<1> QED
  BY <1>1 DEF Grant!Grant, Grant!Open, Grant!Granted

LEMMA GrantRefuses ==
  ASSUME TypeOK, NEW k \in Consents, RejectConsent(k)
  PROVE  Grant!Refuse(k)
<1>1. /\ consent[k].status = "AwaitingAuthorisation" /\ consent'[k].status = "Rejected"
      /\ \A j \in Consents : j # k => consent'[j] = consent[j]
  BY DEF TypeOK, RejectConsent, CanDecide
<1> QED
  BY <1>1 DEF Grant!Refuse, Grant!End, Grant!Open, Grant!Granted

(* To the consents, the shops and the bank's screens are a customer and a  *)
(* third party of ConsentGrant: what they do implements it.                *)
THEOREM CheckoutImplementsGrant == Spec => ImplementsGrant
<1>1. Init => Grant!Init
  BY DEF Init, Grant!Init
<1>2. CheckoutInv /\ [Next]_vars => [Grant!Next]_(Grant!gvars)
  <2> SUFFICES ASSUME CheckoutInv, [Next]_vars PROVE [Grant!Next]_(Grant!gvars)
    OBVIOUS
  <2>1. CASE UNCHANGED consent
    BY <2>1 DEF Grant!gvars
  <2>2. ASSUME NEW k \in Consents, NEW amount, CreateConsent(k, amount) PROVE Grant!Next
    BY <2>2, GrantAsks DEF CheckoutInv, Grant!Next
  <2>3. ASSUME NEW k \in Consents, AuthorizeConsent(k) PROVE Grant!Next
    BY <2>3, GrantGrants DEF CheckoutInv, Grant!Next
  <2>4. ASSUME NEW k \in Consents, RejectConsent(k) PROVE Grant!Next
    BY <2>4, GrantRefuses DEF CheckoutInv, Grant!Next
  <2> QED
    BY <2>1, <2>2, <2>3, <2>4, ConsentWriters
<1> QED
  BY <1>1, <1>2, InvariantHolds, PTL DEF Spec, ImplementsGrant, Grant!Spec
============================================================================
