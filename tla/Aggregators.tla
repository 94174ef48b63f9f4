---------------------------- MODULE Aggregators ----------------------------
(***************************************************************************)
(* How a customer of Masroofi or Hisab signs in and connects the bank, on  *)
(* the web (one tab) or on the phone.  Connecting creates a consent, sends *)
(* the customer to the bank with a fresh state, and exchanges the code of  *)
(* the link the bank opens.  The consent is kept on the device and in the  *)
(* member's record at the backend the two apps share, from where the next  *)
(* sign-in restores it.                                                    *)
(*                                                                         *)
(* A link may be opened again (reload, history, a phone that delivers it   *)
(* twice); answers are lost; the writes of the record are not waited for   *)
(* on the web and arrive in any order.  The bank token is always stored    *)
(* and removed together with the consent id and is left out.               *)
(***************************************************************************)
EXTENDS FiniteSets

CONSTANTS
    Clients,   \* subset of AllClients: the apps that may be used
    Households \* bound: who shares a device, the consents they may create, their app

Demo == "demo"
ASSUME HouseholdsAssumption ==
    \A h \in Households :
        h.members \cap {"none", "current"} = {} /\ h.grants \cap {"none", "unregistered", Demo} = {}

WebClients == {"masroofi", "hisab"}
AllClients == WebClients \cup {"masroofi-mobile", "hisab-mobile"}

VARIABLES
    client,    \* the app used
    member,    \* whose session the device holds
    known,     \* phone: what the root layout has read of the session
    view,      \* the screen shown
    held,      \* the consent the device holds
    attempt,   \* the consent whose redirect the stored state belongs to
    sheet,     \* hisab-mobile: the browser sheet a connect waits for
    signing,   \* the register or login request under way
    exchanges, \* the code exchanges under way
    landing,   \* a success screen's timer is running
    writes,    \* updates of a record under way
    record,    \* each member's record: "unregistered", "none" or a consent
    grants,    \* the bank's consents
    links,     \* the links the bank has opened
    cut        \* members who asked to disconnect the bank

deviceVars == <<member, known, view, held, attempt, sheet, landing>>
aggregatorVars == <<client, deviceVars, signing, exchanges, writes, record, grants, links, cut>>

OnWeb == client \in WebClients
Forms == {"signup", "login"}
FrontPage == IF OnWeb THEN "landing" ELSE "welcome"
Gated == IF OnWeb THEN {"home", "connect"} ELSE {"home", "more"}
Members == DOMAIN record
Grants == DOMAIN grants
Views == {"landing", "welcome", "home", "more", "connect", "callback", "success", "failure",
          "bank"} \cup Forms
NoCall == [op |-> "none", who |-> "none", stage |-> "none", grant |-> "none"]
NoSheet == [who |-> "none", grant |-> "none"]

(* The web's routes: a page behind RequireAuth needs a session, and the    *)
(* landing page passes a member on to the dashboard.                       *)
RequireAuth(page, m) ==
    IF page \in Gated /\ m = "none" THEN "landing"
    ELSE IF page \in Forms \cup {"landing"} /\ m # "none" THEN "home" ELSE page
Goto(page, m) == view' = IF OnWeb THEN RequireAuth(page, m) ELSE page

AggregatorsInit ==
    /\ \E h \in Households :
          /\ client \in Clients \cap h.apps
          /\ record \in [h.members -> {"unregistered", "none"}]
          /\ grants = [g \in h.grants |-> "none"]
    /\ member = "none" /\ known = "unknown" /\ held = "none"
    /\ view = IF OnWeb THEN "landing" ELSE "home"
    /\ attempt = "none" /\ sheet = NoSheet /\ landing = FALSE
    /\ signing = NoCall /\ exchanges = {} /\ writes = {}
    /\ links = {} /\ cut = {}

-----------------------------------------------------------------------------
(* Signing up and in.                                                      *)

outside == <<client, writes, record, grants, links, cut>>

OpenForm(form) ==
    /\ view \in {FrontPage} \cup Forms /\ view # form
    /\ view' = form
    /\ UNCHANGED <<outside, member, known, held, attempt, sheet, landing, signing, exchanges>>

CloseForm ==
    /\ view \in Forms
    /\ view' = FrontPage
    /\ UNCHANGED <<outside, member, known, held, attempt, sheet, landing, signing, exchanges>>

(* One request at a time (bound).                                          *)
Submit(m) ==
    /\ view \in Forms /\ signing = NoCall
    /\ signing' = [op |-> view, who |-> m, stage |-> "sent", grant |-> "none"]
    /\ UNCHANGED <<outside, deviceVars, exchanges>>

(* The web's landing page has both forms; the phones have a screen each.   *)
LandingPage == (\E form \in Forms : OpenForm(form)) \/ CloseForm \/ \E m \in Members : Submit(m)
WelcomeScreen == view = "welcome" /\ \E form \in Forms : OpenForm(form)
LoginScreen == view = "login" /\ (CloseForm \/ OpenForm("signup") \/ \E m \in Members : Submit(m))
SignupScreen == view = "signup" /\ (CloseForm \/ OpenForm("login") \/ \E m \in Members : Submit(m))

MasroofiLanding == client = "masroofi" /\ LandingPage
HisabLanding == client = "hisab" /\ LandingPage
MasroofiWelcome == client = "masroofi-mobile" /\ WelcomeScreen
MasroofiLogin == client = "masroofi-mobile" /\ LoginScreen
MasroofiSignup == client = "masroofi-mobile" /\ SignupScreen
HisabWelcome == client = "hisab-mobile" /\ WelcomeScreen
HisabLogin == client = "hisab-mobile" /\ LoginScreen
HisabSignup == client = "hisab-mobile" /\ SignupScreen

(* The backend registers an address once; a lost answer is a refusal.      *)
RegisterAtBackend ==
    /\ signing.op = "signup" /\ signing.stage = "sent"
    /\ \/ /\ record[signing.who] = "unregistered"
          /\ record' = [record EXCEPT ![signing.who] = "none"]
          /\ \E s \in {"ok", "refused"} : signing' = [signing EXCEPT !.stage = s]
       \/ /\ signing' = [signing EXCEPT !.stage = "refused"]
          /\ UNCHANGED record
    /\ UNCHANGED <<client, deviceVars, exchanges, writes, grants, links, cut>>

LoginAtBackend ==
    /\ signing.op = "login" /\ signing.stage = "sent"
    /\ \/ /\ record[signing.who] # "unregistered"
          /\ signing' = [signing EXCEPT !.stage = "ok", !.grant = record[signing.who]]
       \/ signing' = [signing EXCEPT !.stage = "refused"]
    /\ UNCHANGED <<outside, deviceVars, exchanges>>

Refused ==
    /\ signing.stage = "refused"
    /\ signing' = NoCall
    /\ UNCHANGED <<outside, deviceVars, exchanges>>

(* What the device holds after a sign-in: the consent of the record, if    *)
(* there is one; Masroofi's phone app falls back on the demo consent, also *)
(* for a new member; the other apps keep what the device held.             *)
MasroofiPhoneSession == IF signing.grant = "none" THEN Demo ELSE signing.grant
RestoreCredentials == IF signing.grant = "none" THEN held ELSE signing.grant

Enter(consent) ==
    /\ signing.stage = "ok"
    /\ member' = signing.who
    /\ held' = consent
    /\ Goto("home", signing.who)
    /\ signing' = NoCall
    /\ UNCHANGED <<outside, known, attempt, sheet, landing, exchanges>>

MasroofiSignIn == client = "masroofi" /\ Enter(RestoreCredentials)
HisabSignIn == client = "hisab" /\ Enter(RestoreCredentials)
MasroofiPhoneSignIn == client = "masroofi-mobile" /\ Enter(MasroofiPhoneSession)
HisabPhoneSignIn == client = "hisab-mobile" /\ Enter(RestoreCredentials)

(* The phone's root layout: reads the session at every route change, and   *)
(* routes by what it read last.                                            *)
RefreshAuth ==
    /\ ~OnWeb
    /\ known' = IF member = "none" THEN "out" ELSE "in"
    /\ UNCHANGED <<outside, member, view, held, attempt, sheet, landing, signing, exchanges>>

Gate ==
    /\ ~OnWeb
    /\ \/ known = "out" /\ view \in Gated /\ view' = "welcome"
       \/ known = "in" /\ view \in {"welcome"} \cup Forms /\ view' = "home"
    /\ UNCHANGED <<outside, member, known, held, attempt, sheet, landing, signing, exchanges>>

-----------------------------------------------------------------------------
(* Leaving: sign-out and disconnect.                                       *)

Written(m, consent) ==
    writes' = IF m = "none" THEN writes ELSE writes \cup [who : {m}, grant : {consent}]

(* The web signs out first and disconnects then: without a session, the    *)
(* record is not touched.                                                  *)
WebLeave(m) ==
    /\ member' = "none" /\ held' = "none"
    /\ Written(m, "none")
    /\ view' = "landing"
    /\ UNCHANGED <<client, known, attempt, sheet, landing, signing, exchanges, record, grants,
                   links, cut>>

(* Mutant of HandleLogout: disconnecting first, while there is a session.   *)
DisconnectThenLogout == view \in Gated /\ member # "none" /\ WebLeave(member)

HandleLogout == view \in Gated /\ member # "none" /\ WebLeave("none")

MasroofiSignOut == client = "masroofi" /\ HandleLogout
HisabSignOut == client = "hisab" /\ HandleLogout

(* The phones: Masroofi also clears what the device holds, Hisab does not. *)
PhoneSignOut(rest) ==
    /\ view = "more" /\ member # "none"
    /\ member' = "none" /\ held' = rest
    /\ view' = "welcome"
    /\ UNCHANGED <<outside, known, attempt, sheet, landing, signing, exchanges>>

MasroofiPhoneSignOut == client = "masroofi-mobile" /\ PhoneSignOut("none")
HisabPhoneSignOut == client = "hisab-mobile" /\ PhoneSignOut(held)

(* A browser tab is closed: its session ends, the local storage stays.     *)
CloseTab ==
    /\ OnWeb
    /\ member' = "none" /\ view' = "landing" /\ landing' = FALSE
    /\ signing' = NoCall /\ exchanges' = {}
    /\ UNCHANGED <<outside, known, held, attempt, sheet>>

DisconnectBank ==
    /\ held # "none"
    /\ held' = "none"
    /\ Written(member, "none")
    /\ cut' = cut \cup ({member} \ {"none"})
    /\ UNCHANGED <<client, member, known, view, attempt, sheet, landing, signing, exchanges,
                   record, grants, links>>

BankConnectionCard == client = "masroofi" /\ view = "home" /\ DisconnectBank
MasroofiPhoneMore == client = "masroofi-mobile" /\ view = "more" /\ DisconnectBank
HisabPhoneMore == client = "hisab-mobile" /\ view = "more" /\ member # "none" /\ DisconnectBank

UpdateBank(w) ==
    /\ w \in writes
    /\ writes' = writes \ {w}
    /\ record' \in {record, [record EXCEPT ![w.who] = w.grant]}
    /\ UNCHANGED <<client, deviceVars, signing, exchanges, grants, links, cut>>

-----------------------------------------------------------------------------
(* Moving between the screens behind the sign-in.                          *)

Navigate(pages) ==
    /\ view \in pages \cup {"connect"}
    /\ \E page \in (pages \cup {"connect"}) \ {view} : Goto(page, member)
    /\ UNCHANGED <<outside, member, known, held, attempt, sheet, landing, signing, exchanges>>

MasroofiLayout == client = "masroofi" /\ Navigate({"home"})
HisabLayout == client = "hisab" /\ Navigate({"home"})
MasroofiPhoneTabs == client = "masroofi-mobile" /\ Navigate({"home", "more"})
HisabPhoneTabs == client = "hisab-mobile" /\ Navigate({"home", "more"})

(* Masroofi's phone app sends a connected member back to the dashboard.    *)
AlreadyConnected ==
    /\ client = "masroofi-mobile" /\ view = "connect" /\ held # "none"
    /\ view' = "home"
    /\ UNCHANGED <<outside, member, known, held, attempt, sheet, landing, signing, exchanges>>

-----------------------------------------------------------------------------
(* Connecting.  The answer of the creation may be lost.                    *)

CreateConsent(g) ==
    /\ view = "connect" /\ grants[g] = "none"
    /\ grants' = [grants EXCEPT ![g] = "AwaitingAuthorisation"]
    /\ UNCHANGED <<client, member, known, held, landing, signing, exchanges, writes, record,
                   links, cut>>

NoAnswer(g) == CreateConsent(g) /\ UNCHANGED <<view, attempt, sheet>>

(* The web leaves for the bank; a new state replaces the previous one.     *)
BuildConsentRedirectUrl(g) ==
    CreateConsent(g) /\ attempt' = g /\ view' = "bank" /\ UNCHANGED sheet

MasroofiConnect(g) == client = "masroofi" /\ held = "none" /\ BuildConsentRedirectUrl(g)
HisabConnect(g) == client = "hisab" /\ held = "none" /\ BuildConsentRedirectUrl(g)

(* Masroofi's phone app opens the bank's app and keeps its screen.         *)
OpenBankConsent(g) ==
    /\ client = "masroofi-mobile" /\ held = "none"
    /\ CreateConsent(g) /\ attempt' = g
    /\ UNCHANGED <<view, sheet>>

(* Hisab's opens a browser sheet and waits for its result.                 *)
ConnectBank(g) ==
    /\ client = "hisab-mobile" /\ member # "none" /\ sheet = NoSheet
    /\ CreateConsent(g) /\ attempt' = g
    /\ sheet' = [who |-> member, grant |-> g]
    /\ UNCHANGED view

(* At the bank the customer answers, and the bank opens the link.          *)
Decide(g) ==
    /\ grants[g] = "AwaitingAuthorisation"
    /\ \E ok \in BOOLEAN :
          /\ grants' = [grants EXCEPT ![g] = IF ok THEN "Authorised" ELSE "Rejected"]
          /\ links' = links \cup [grant : {g}, ok : {ok}]
    /\ UNCHANGED <<client, deviceVars, signing, exchanges, writes, record, cut>>

-----------------------------------------------------------------------------
(* The link.  A received state is compared with the stored one, which is   *)
(* gone afterwards; a link without a code leaves it.  who is the member a  *)
(* record is written for, "current" when that is decided at the end.       *)

ValidateState(l) == l.ok /\ attempt = l.grant

ExchangeAuthCode(l, who) ==
    /\ exchanges' = IF ValidateState(l)
                    THEN exchanges \cup [grant : {l.grant}, who : {who}, stage : {"sent"}]
                    ELSE exchanges
    /\ attempt' = IF l.ok THEN "none" ELSE attempt

HandleCallback(l) ==
    /\ l \in links
    /\ ExchangeAuthCode(l, "current")
    /\ view' = IF ValidateState(l) THEN "callback" ELSE "failure"
    /\ UNCHANGED <<outside, member, known, held, sheet, landing, signing>>

MasroofiCallback(l) == client = "masroofi" /\ HandleCallback(l)
HisabCallback(l) == client = "hisab" /\ HandleCallback(l)
MasroofiPhoneCallback(l) == client = "masroofi-mobile" /\ HandleCallback(l)
HisabPhoneCallback(l) == client = "hisab-mobile" /\ HandleCallback(l)

(* The sheet hands its link to the connect that waits, or is closed.       *)
SheetReturns ==
    /\ sheet # NoSheet
    /\ \/ \E l \in links : l.grant = sheet.grant /\ ExchangeAuthCode(l, sheet.who)
       \/ UNCHANGED <<exchanges, attempt>>
    /\ sheet' = NoSheet
    /\ UNCHANGED <<outside, member, known, view, held, landing, signing>>

(* The bank exchanges a code once; the request or the answer may be lost.  *)
ExchangeAtBank(e) ==
    /\ e \in exchanges /\ e.stage = "sent"
    /\ \/ /\ grants[e.grant] = "Authorised"
          /\ grants' = [grants EXCEPT ![e.grant] = "Exchanged"]
          /\ \E s \in {"ok", "failed"} : exchanges' = (exchanges \ {e}) \cup {[e EXCEPT !.stage = s]}
       \/ /\ exchanges' = (exchanges \ {e}) \cup {[e EXCEPT !.stage = "failed"]}
          /\ UNCHANGED grants
    /\ UNCHANGED <<client, deviceVars, signing, writes, record, links, cut>>

StoreCredentials(e) ==
    /\ held' = e.grant
    /\ Written(IF e.who = "current" THEN member ELSE e.who, e.grant)
    /\ landing' = TRUE
    /\ view' = IF view = "callback" THEN "success" ELSE view

(* Mutant of Exchanged: the answer's status is not looked at.               *)
ExchangedAnyway(e) ==
    /\ e \in exchanges /\ e.stage \in {"ok", "failed"}
    /\ StoreCredentials(e)
    /\ exchanges' = exchanges \ {e}
    /\ UNCHANGED <<client, member, known, attempt, sheet, signing, record, grants, links, cut>>

Exchanged(e) ==
    /\ e \in exchanges
    /\ \/ e.stage = "ok" /\ StoreCredentials(e)
       \/ /\ e.stage = "failed"
          /\ view' = IF view = "callback" THEN "failure" ELSE view
          /\ UNCHANGED <<held, writes, landing>>
    /\ exchanges' = exchanges \ {e}
    /\ UNCHANGED <<client, member, known, attempt, sheet, signing, record, grants, links, cut>>

(* The success screen's timer opens the dashboard, wherever the customer   *)
(* is by then; an error screen has its buttons.                            *)
OpenDashboard ==
    /\ landing
    /\ landing' = FALSE
    /\ Goto("home", member)
    /\ UNCHANGED <<outside, member, known, held, attempt, sheet, signing, exchanges>>

LeaveFailure ==
    /\ view = "failure"
    /\ \E page \in {"connect", IF OnWeb THEN "home" ELSE "welcome"} : Goto(page, member)
    /\ UNCHANGED <<outside, member, known, held, attempt, sheet, landing, signing, exchanges>>

AggregatorsNext ==
    \/ MasroofiLanding \/ HisabLanding
    \/ MasroofiWelcome \/ MasroofiLogin \/ MasroofiSignup
    \/ HisabWelcome \/ HisabLogin \/ HisabSignup
    \/ RegisterAtBackend \/ LoginAtBackend \/ Refused
    \/ MasroofiSignIn \/ HisabSignIn \/ MasroofiPhoneSignIn \/ HisabPhoneSignIn
    \/ RefreshAuth \/ Gate
    \/ MasroofiSignOut \/ HisabSignOut \/ MasroofiPhoneSignOut \/ HisabPhoneSignOut
    \/ CloseTab
    \/ BankConnectionCard \/ MasroofiPhoneMore \/ HisabPhoneMore
    \/ \E w \in writes : UpdateBank(w)
    \/ MasroofiLayout \/ HisabLayout \/ MasroofiPhoneTabs \/ HisabPhoneTabs
    \/ AlreadyConnected
    \/ \E g \in Grants :
          NoAnswer(g) \/ MasroofiConnect(g) \/ HisabConnect(g) \/ OpenBankConsent(g)
             \/ ConnectBank(g) \/ Decide(g)
    \/ \E l \in links :
          MasroofiCallback(l) \/ HisabCallback(l) \/ MasroofiPhoneCallback(l) \/ HisabPhoneCallback(l)
    \/ SheetReturns
    \/ \E e \in exchanges : ExchangeAtBank(e) \/ Exchanged(e)
    \/ OpenDashboard \/ LeaveFailure

AggregatorsSpec == AggregatorsInit /\ [][AggregatorsNext]_aggregatorVars

-----------------------------------------------------------------------------
(* Properties.                                                             *)

Consents == Grants \cup {"none", Demo}

AggregatorsTypeOK ==
    /\ client \in Clients /\ member \in Members \cup {"none"}
    /\ known \in {"unknown", "in", "out"} /\ view \in Views
    /\ held \in Consents /\ attempt \in Consents /\ landing \in BOOLEAN
    /\ sheet \in [who : Members \cup {"none"}, grant : Consents]
    /\ signing.who \in Members \cup {"none"}
    /\ signing.grant \in Consents
    /\ exchanges \subseteq [grant : Grants, who : Members \cup {"current"},
                            stage : {"sent", "ok", "failed"}]
    /\ writes \subseteq [who : Members, grant : Consents]
    /\ \A m \in Members : record[m] \in Consents \cup {"unregistered"}
    /\ \A g \in Grants : grants[g] \in {"none", "AwaitingAuthorisation", "Authorised", "Rejected",
                                      "Exchanged"}
    /\ links \subseteq [grant : Grants, ok : BOOLEAN]
    /\ cut \subseteq Members

(* Every consent an app holds, on the device, in a record or on its way    *)
(* there, is one the customer authorised and whose code was exchanged, or  *)
(* Masroofi's demo consent: no lost answer, second delivery of a link or   *)
(* abandoned attempt leaves another.                                       *)
OnlyGrantedConsentsAreHeld ==
    \A g \in {held} \cup {record[m] : m \in Members} \cup {w.grant : w \in writes} :
        \/ g \in {"none", "unregistered"}
        \/ g = Demo /\ client = "masroofi-mobile"
        \/ g \in Grants /\ grants[g] = "Exchanged"

(* A record loses its consent only when its member asked to disconnect:    *)
(* signing out, also by closing the tab, keeps the bank connected for the  *)
(* next sign-in.                                                           *)
SignOutKeepsTheLink ==
    [][\A m \in Members : record[m] \in Grants /\ record'[m] = "none" => m \in cut]_aggregatorVars
=============================================================================
