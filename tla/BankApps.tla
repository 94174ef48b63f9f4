------------------------------ MODULE BankApps ------------------------------
(***************************************************************************)
(* BD Online, the bank's own front ends, as one customer uses them: the    *)
(* web site (one browser tab) or the phone app.  Signing in and out, with  *)
(* a password or a Theqa identity; the links that a third party, a dealer  *)
(* or the identity provider opens; the screens, what they fetched and keep *)
(* showing; transfers, revocations, loan consents and signatures sent to   *)
(* the bank, whose answers may be lost.  Meanwhile the bank changes        *)
(* balances, consents and loans behind the screens.                        *)
(*                                                                         *)
(* The web unmounts a page when the customer leaves it.  The phone's tabs  *)
(* stay mounted until the customer signs out, so what they fetched grows   *)
(* old.  Approving a consent is in Checkout; here it is one screen.        *)
(***************************************************************************)
EXTENDS Naturals, FiniteSets

CONSTANTS
    Devices,  \* subset of {"web", "phone"}: what the customer may use
    Matters,  \* sets of matters, one of which the customer has
    Total,    \* the money on the customer's accounts
    Refs      \* bound: the Theqa verifications that may be started

AllMatters == {"money", "consent", "loan", "identity"}

ASSUME BankAppsAssumption ==
    /\ Devices \subseteq {"web", "phone"}
    /\ Matters \subseteq SUBSET AllMatters
    /\ Total \in Nat
    /\ Refs \cap {"none", "password"} = {}

VARIABLES
    device,   \* what this customer uses
    matter,   \* what there is to do: money, a consent, a loan, an identity
    session,  \* the stored user: "none", "password", or a verification
    layout,   \* phone: what the root layout knows and still has to do
    at,       \* the screen shown
    page,     \* every screen's phase and the fact it fetched
    form,     \* the transfer form and the balances it fetched
    param,    \* the link the login or verify screen was given
    want,     \* the link the customer opened and has not seen yet
    finish,   \* phone: the verification whose sign-in is under way
    request,  \* the request that is on its way to the bank or back
    balance,  \* the bank's accounts
    executed, \* transfers executed since the form was last cleared
    consent,  \* the status of the customer's consent
    loan,     \* the status of the loan application
    idp       \* the status of each Theqa verification

bankVars == <<balance, executed, consent, loan, idp>>
routeVars == <<layout, at, param, want>>
vars == <<device, matter, session, routeVars, page, form, finish, request, bankVars>>

Web == device = "web"
Phone == device = "phone"
SignedIn == session # "none"

Accounts == {"current", "savings"}
Public == {"login", "theqa"}
Private == {"home", "transfer", "consents", "consent", "approve", "scan", "offer",
            "verify", "account", "more"}
Screens == Public \cup Private \cup {"lost"}  \* "lost": no route matches the link

(* Where a link leads, and the matter that gives reason for a screen.      *)
Links == {"consent", "loan", "verify"}
Target(l) == [consent |-> "approve", loan |-> "scan", verify |-> "verify"][l]
Concern == [transfer |-> "money", consents |-> "consent", consent |-> "consent",
            approve |-> "consent", scan |-> "loan", offer |-> "loan",
            account |-> "money", theqa |-> "identity", verify |-> "identity"]
Useful(s) == IF s \in DOMAIN Concern THEN Concern[s] \in matter ELSE TRUE

ConsentStatuses == {"none", "AwaitingAuthorisation", "Authorised", "Rejected",
                    "Consumed", "Revoked", "Expired"}
LoanStatuses == {"none", "pending_consent", "qr_expired", "cancelled", "pending_decision",
                 "decided", "declined", "contracted", "disbursed"}
Phases == {"off", "loading", "failed", "ready", "sent", "done", "recorded",
           "starting", "polling", "verified"}

Off == [phase |-> "off", fact |-> "none"]
Fresh == [phase |-> "loading", fact |-> "none"]
NoMoney == [a \in Accounts |-> 0]
NoForm == [cached |-> NoMoney, mode |-> "own", from |-> "none", to |-> "none", amount |-> 0]
Modes == {"own", "beneficiary", "iban"}
NoFinish == [ref |-> "none", stored |-> FALSE]
NoRequest == [op |-> "none", stage |-> "none", from |-> "none", to |-> "none", amount |-> 0]

AtRest == ~layout.due /\ ~layout.checking

Init ==
    /\ device \in Devices
    /\ matter \in Matters
    /\ session \in {"none", "password"}
    /\ at = "home"
    /\ page = [s \in Screens |-> IF s = "home" THEN Fresh ELSE Off]
    /\ layout = [user |-> SignedIn, due |-> Phone, checking |-> FALSE,
                 pending |-> {}, ref |-> "none"]
    /\ form = NoForm
    /\ param = "none" /\ want = "none" /\ finish = NoFinish
    /\ request = NoRequest
    /\ balance = IF "money" \in matter THEN [NoMoney EXCEPT !["current"] = Total] ELSE NoMoney
    /\ executed = 0
    /\ consent = IF "consent" \in matter THEN "AwaitingAuthorisation" ELSE "none"
    /\ loan = IF "loan" \in matter THEN "pending_consent" ELSE "none"
    /\ idp = [r \in Refs |-> "none"]

-----------------------------------------------------------------------------
(* What others do at the bank: another device of the customer, the third   *)
(* party that holds the consent, the sweep, the dealer, the loan service,  *)
(* the identity provider.                                                  *)

frontVars == <<device, matter, session, routeVars, page, form, finish, request>>

(* Mutant of Covered: the bank trusts the balance the client looked at.     *)
Uncovered(a, amount) == TRUE

Covered(a, amount) == amount <= balance[a]

(* Both new balances are computed from the balances read; the target's is  *)
(* written last, also when it is the source.                               *)
Transfer(from, to, amount) ==
    /\ Covered(from, amount)
    /\ balance' = IF from = to
                  THEN [balance EXCEPT ![to] = @ + amount]
                  ELSE [balance EXCEPT ![from] = @ - amount, ![to] = @ + amount]

TransferElsewhere(from, to) ==
    /\ from # to /\ balance[from] > 0
    /\ Transfer(from, to, balance[from])
    /\ UNCHANGED <<frontVars, executed, consent, loan, idp>>

ConsentMoves ==
    /\ \/ consent = "AwaitingAuthorisation" /\ consent' \in {"Authorised", "Rejected", "Expired"}
       \/ consent = "Authorised" /\ consent' \in {"Consumed", "Revoked", "Expired"}
    /\ UNCHANGED <<frontVars, balance, executed, loan, idp>>

LoanMoves ==
    /\ \/ loan = "pending_consent" /\ loan' \in {"qr_expired", "cancelled"}
       \/ loan = "pending_decision" /\ loan' \in {"decided", "declined"}
       \/ loan = "decided" /\ loan' = "cancelled"
    /\ UNCHANGED <<frontVars, balance, executed, consent, idp>>

Disburse ==
    /\ loan = "contracted" /\ loan' = "disbursed"
    /\ UNCHANGED <<frontVars, balance, executed, consent, idp>>

TheqaDecides(r) ==
    /\ idp[r] = "pending"
    /\ \E s \in {"verified", "failed"} : idp' = [idp EXCEPT ![r] = s]
    /\ UNCHANGED <<frontVars, balance, executed, consent, loan>>

-----------------------------------------------------------------------------
(* Going from screen to screen.                                            *)

(* The phone keeps its tabs, and the stack below a route it cannot match;  *)
(* what home, the list and the menu keep is left out.                      *)
Kept == {"transfer", "consent", "scan", "offer", "verify"}
Keeps(x, s) ==
    /\ Phone
    /\ \/ x \in Kept /\ s \in Private \cup {"lost"}
       \/ x = "theqa" /\ (s = "lost" \/ (s = "login" /\ at = "lost"))
Mounted(s) == [x \in Screens |-> IF Keeps(x, s) /\ page[x] # Off THEN page[x]
                                 ELSE IF x = s THEN Fresh ELSE Off]

(* A form lives as long as its screen.                                     *)
FormLives(pages) ==
    IF pages["transfer"] \in {Off, Fresh}
    THEN form' = NoForm /\ executed' = 0
    ELSE UNCHANGED <<form, executed>>

Arrive(s, pages) ==
    /\ at' = s
    /\ page' = pages
    /\ layout' = [layout EXCEPT !.due = Phone, !.checking = Phone]
    /\ FormLives(pages)

Go(s) == Arrive(s, Mounted(s))

(* The customer's own choice: whatever link was open is given up.          *)
Choose(s, pages) ==
    /\ Arrive(s, pages)
    /\ want' = "none" /\ param' = "none"
    /\ UNCHANGED <<device, matter, session, finish, request, balance, consent, loan, idp>>

WebNavigate(s) ==
    /\ Web /\ at \in Private /\ s \in {"home", "transfer", "consents"} \ {at}
    /\ Useful(s)
    /\ Choose(s, Mounted(s))

PhoneNavigate(s) ==
    /\ Phone /\ at \in Private /\ s \in {"home", "transfer", "consents", "more"} \ {at}
    /\ Useful(s)
    /\ Choose(s, Mounted(s))

(* The lists show the consents of one tab; a row opens the detail.         *)
OpenConsent == page[at].phase = "ready" /\ Choose("consent", Mounted("consent"))
WebOpenConsent == Web /\ at = "consents" /\ OpenConsent
PhoneOpenConsent == Phone /\ at = "consents" /\ OpenConsent

PhoneOpenAccount ==
    /\ Phone /\ at = "home" /\ page[at].phase = "ready" /\ Useful("account")
    /\ Choose("account", Mounted("account"))

(* The tile of the home screen opens the scanner's instructions.           *)
OpenScanner ==
    /\ Phone /\ at = "home" /\ Useful("scan")
    /\ Choose("scan", [Mounted("scan") EXCEPT !["scan"] = [Off EXCEPT !.phase = "failed"]])

OpenVerify ==
    /\ Phone /\ at = "more" /\ Useful("verify")
    /\ Choose("verify", [Mounted("verify") EXCEPT !["verify"] = [Off EXCEPT !.phase = "starting"]])

OpenTheqa ==
    /\ Phone /\ at = "login" /\ Useful("theqa")
    /\ Choose("theqa", [Mounted("theqa") EXCEPT !["theqa"] = [Off EXCEPT !.phase = "starting"]])

LeaveTheqa ==
    /\ at = "theqa" /\ page[at].phase = "failed"
    /\ Choose("login", Mounted("login"))

SignOut ==
    /\ SignedIn /\ session' = "none"
    /\ Go("login") /\ want' = "none" /\ param' = "none"
    /\ UNCHANGED <<device, matter, finish, request, balance, consent, loan, idp>>

WebSignOut == Web /\ at \in Private /\ SignOut
PhoneSignOut == Phone /\ at = "more" /\ SignOut

-----------------------------------------------------------------------------
(* The phone's root layout.                                                *)

(* The layout re-reads the stored user after every change of screen; its   *)
(* routing effect has by then run with the user it knew.                   *)
CheckAuth ==
    /\ layout.checking /\ ~layout.due
    /\ layout' = [layout EXCEPT !.user = SignedIn, !.checking = FALSE,
                               !.due = layout.user # SignedIn]
    /\ UNCHANGED <<device, matter, session, at, param, want, page, form, finish, request, bankVars>>

(* A link opens the app: the router shows the link's own route, if it has  *)
(* one, and the layout's listener remembers the link.                      *)
LandOn(l) == IF l = "verify" THEN "lost" ELSE Target(l)

OpenLink(l, r) ==
    /\ Phone
    /\ layout' = [layout EXCEPT !.pending = @ \cup {l}, !.due = TRUE, !.checking = TRUE,
                               !.ref = IF l = "verify" THEN r ELSE @]
    /\ want' = l
    /\ at' = LandOn(l)
    /\ param' = IF l = "consent" THEN l ELSE "none"
    /\ \E pages \in {Mounted(LandOn(l)), [Mounted(LandOn(l)) EXCEPT !["theqa"] = Off]} :
         /\ page' = IF l = "loan" /\ pages["scan"].phase = "failed"
                    THEN [pages EXCEPT !["scan"] = Fresh] ELSE pages
         /\ FormLives(pages)
    /\ UNCHANGED <<device, matter, session, finish, request, balance, consent, loan, idp>>

OpenConsentLink == consent # "none" /\ OpenLink("consent", "none")
OpenLoanLink == loan # "none" /\ OpenLink("loan", "none")
OpenVerifyLink(r) == idp[r] \in {"verified", "failed"} /\ OpenLink("verify", r)

Rest == UNCHANGED <<device, matter, session, want, finish, request, balance, consent, loan, idp>>

(* One run of the effect: to screen s with the parameter p, link l served.  *)
RouteTo(s, p, l) ==
    /\ param' = p
    /\ IF s = at
       THEN /\ layout' = [layout EXCEPT !.due = FALSE, !.pending = @ \ {l}]
            /\ UNCHANGED <<at, page, form, executed>>
       ELSE LET pages == Mounted(s)
            IN /\ at' = s
               /\ page' = IF s # "verify" THEN pages
                          ELSE [pages EXCEPT ![s] =
                                  [phase |-> IF idp[layout.ref] = "failed" THEN "failed" ELSE "polling",
                                   fact |-> layout.ref]]
               /\ layout' = [layout EXCEPT !.due = TRUE, !.checking = TRUE, !.pending = @ \ {l}]
               /\ FormLives(pages)
    /\ Rest

HasConsent == "consent" \in layout.pending \/ (param = "consent" /\ at \in {"login", "approve"})
ConsentDue == HasConsent /\ at # "approve"
VerifyDue == "verify" \in layout.pending /\ layout.user /\ at # "verify"
LoanDue == "loan" \in layout.pending /\ at # "scan"

HonourConsent ==
    /\ layout.due /\ ConsentDue
    /\ RouteTo(IF layout.user THEN "approve" ELSE "login", "consent", "consent")

(* Mutant of HonourVerify: the link is cleared and not routed.              *)
ForgetVerify ==
    /\ layout.due /\ ~ConsentDue /\ VerifyDue
    /\ RouteTo(at, param, "verify")

HonourVerify ==
    /\ layout.due /\ ~ConsentDue /\ VerifyDue
    /\ RouteTo("verify", "none", "verify")

HonourLoan ==
    /\ layout.due /\ ~ConsentDue /\ ~VerifyDue /\ LoanDue
    /\ RouteTo(IF layout.user THEN "scan" ELSE "login", "loan", "loan")

(* Mutant of Gate: the gate lets a screen stay that nobody is signed in for. *)
OpenGate ==
    /\ layout.due /\ ~ConsentDue /\ ~VerifyDue /\ ~LoanDue
    /\ RouteTo(IF layout.user /\ at \notin Private THEN "home" ELSE at, "none", "none")

Gate ==
    /\ layout.due /\ ~ConsentDue /\ ~VerifyDue /\ ~LoanDue
    /\ IF ~layout.user /\ at \notin Public THEN RouteTo("login", "none", "none")
       ELSE IF layout.user /\ at \notin Private THEN RouteTo("home", "none", "none")
       ELSE RouteTo(at, param, "none")

-----------------------------------------------------------------------------
(* Signing in.                                                             *)

Store(user) == session' = user

SignInTo(s) ==
    /\ at = "login"
    /\ Store("password")
    /\ Go(s)
    /\ param' = IF s = "approve" THEN param ELSE "none"
    /\ UNCHANGED <<device, matter, want, finish, request, balance, consent, loan, idp>>

(* The site's login knows of consents only.                                *)
WebLogin ==
    /\ Web /\ page["login"].phase = "ready"
    /\ SignInTo(IF param = "consent" THEN "approve" ELSE "home")

PhoneLogin ==
    /\ Phone
    /\ SignInTo(IF param \in {"consent", "loan"} THEN Target(param) ELSE "home")

(* A verification is started for the login or the verify screen.           *)
StartVerification(s) ==
    /\ at = s /\ page[s].phase = "starting"
    /\ \E r \in Refs :
         /\ idp[r] = "none"
         /\ idp' = [idp EXCEPT ![r] = "pending"]
         /\ page' = [page EXCEPT ![s] = [phase |-> IF s = "theqa" THEN "polling" ELSE "ready",
                                        fact |-> r]]
    /\ UNCHANGED <<device, matter, session, routeVars, form, finish, request, balance,
                   executed, consent, loan>>

(* The mobile screens, which start a verification when they are opened.    *)
InitiateTheqa == StartVerification("theqa")
InitiateVerify == SignedIn /\ StartVerification("verify")

StartFails(s) ==
    /\ s \in {"theqa", "verify"} /\ at = s /\ page[s].phase = "starting"
    /\ page' = [page EXCEPT ![s].phase = "failed"]
    /\ UNCHANGED <<device, matter, session, routeVars, form, finish, request, bankVars>>

TryAgain(s) ==
    /\ s \in {"theqa", "verify"} /\ at = s /\ page[s].phase = "failed"
    /\ page' = [page EXCEPT ![s] = [Off EXCEPT !.phase = "starting"]]
    /\ UNCHANGED <<device, matter, session, routeVars, form, finish, request, bankVars>>

PollVars == <<device, matter, session, routeVars, form, request, bankVars>>

(* Mutant of PollTheqa: any answer that is not a failure signs in.          *)
PollCarelessly ==
    /\ page["theqa"].phase = "polling" /\ finish = NoFinish
    /\ idp[page["theqa"].fact] # "failed"
    /\ finish' = [NoFinish EXCEPT !.ref = page["theqa"].fact]
    /\ page' = [page EXCEPT !["theqa"].phase = "sent"]
    /\ UNCHANGED PollVars

PollTheqa ==
    /\ page["theqa"].phase = "polling" /\ finish = NoFinish
    /\ idp[page["theqa"].fact] = "verified"
    /\ finish' = [NoFinish EXCEPT !.ref = page["theqa"].fact]
    /\ page' = [page EXCEPT !["theqa"].phase = "sent"]
    /\ UNCHANGED PollVars

(* The verification failed, or an answer of a poll was lost.               *)
TheqaFails ==
    /\ page["theqa"].phase = "polling"
    /\ page' = [page EXCEPT !["theqa"].phase = "failed"]
    /\ UNCHANGED <<PollVars, finish>>

(* The bank's sign-in answers and the user is stored, whatever screen is   *)
(* shown by then; a moment later the app goes home.                        *)
TheqaSignsIn ==
    /\ finish.ref # "none" /\ ~finish.stored
    /\ \/ /\ Store(finish.ref)
          /\ finish' = [finish EXCEPT !.stored = TRUE]
          /\ page' = [page EXCEPT !["theqa"].phase = IF @ = "sent" THEN "verified" ELSE @]
       \/ /\ finish' = NoFinish
          /\ page' = [page EXCEPT !["theqa"].phase = IF @ = "sent" THEN "failed" ELSE @]
          /\ UNCHANGED session
    /\ UNCHANGED <<device, matter, routeVars, form, request, bankVars>>

TheqaGoesHome ==
    /\ finish.stored
    /\ finish' = NoFinish
    /\ Go("home") /\ param' = "none"
    /\ UNCHANGED <<device, matter, session, want, request, balance, consent, loan, idp>>

PollVerify ==
    /\ page["verify"].phase = "polling"
    /\ \/ /\ idp[page["verify"].fact] = "verified"
          /\ page' = [page EXCEPT !["verify"].phase = "verified"]
       \/ page' = [page EXCEPT !["verify"].phase = "failed"]
    /\ UNCHANGED <<PollVars, finish>>

-----------------------------------------------------------------------------
(* Opening a screen: what it fetches, and where it sends a stranger.       *)

Shown == UNCHANGED <<device, matter, session, routeVars, form, finish, request, bankVars>>
Show(s, phase, fact) == page' = [page EXCEPT ![s] = [phase |-> phase, fact |-> fact]]
Loading(s) == at = s /\ page[s].phase = "loading"
Failing(s) == Show(s, "failed", "none")

(* The site's pages send a stranger to the login, some with a parameter.   *)
Stranger(l) ==
    /\ Web /\ ~SignedIn
    /\ Go("login") /\ param' = l
    /\ UNCHANGED <<device, matter, session, want, finish, request, balance, consent, loan, idp>>

(* The site's address bar: a third party's redirect, a dealer's QR code, a *)
(* bookmark of a consent or of an offer, the site itself.                  *)
OpenAddress(s, l) ==
    /\ Web /\ Useful(s)
    /\ Arrive(s, [Mounted(s) EXCEPT ![s] = Fresh])
    /\ param' = IF s = "approve" THEN "consent" ELSE "none"
    /\ want' = l
    /\ UNCHANGED <<device, matter, session, finish, request, balance, consent, loan, idp>>

OpenWeb == \/ OpenAddress("approve", "consent")
           \/ OpenAddress("scan", "loan")
           \/ OpenAddress("consent", "none")
           \/ OpenAddress("offer", "none")
           \/ OpenAddress("login", "none")

WebEnter ==
    /\ Web /\ Loading("login")
    /\ IF ~SignedIn THEN Show("login", "ready", "none") /\ Shown
       ELSE /\ Go(IF param = "consent" THEN "approve" ELSE "home")
            /\ param' = IF param = "consent" THEN param ELSE "none"
            /\ UNCHANGED <<device, matter, session, want, finish, request, balance, consent, loan, idp>>

WebHome ==
    /\ Web /\ Loading("home")
    /\ \/ Stranger("none")
       \/ SignedIn /\ Show("home", "ready", "none") /\ Shown

WebTransfer ==
    /\ Web /\ Loading("transfer")
    /\ \/ Stranger("none")
       \/ /\ SignedIn /\ Show("transfer", "ready", "none")
          /\ \E money \in {balance, NoMoney} : form' = [form EXCEPT !.cached = money]
          /\ UNCHANGED <<device, matter, session, routeVars, finish, request, bankVars>>

WebConsents ==
    /\ Web /\ Loading("consents")
    /\ \/ Stranger("none")
       \/ SignedIn /\ (Show("consents", "ready", "none") \/ Failing("consents")) /\ Shown

(* The detail asks nobody to sign in.                                      *)
WebConsent ==
    /\ Web /\ Loading("consent")
    /\ \/ Show("consent", "ready", consent) /\ Shown
       \/ Choose("consents", Mounted("consents"))

WebApprove ==
    /\ Web /\ Loading("approve")
    /\ \/ Stranger("consent")
       \/ SignedIn /\ Show("approve", "ready", "none") /\ Shown

WebScan ==
    /\ Web /\ Loading("scan")
    /\ \/ Stranger("loan")
       \/ SignedIn /\ (Show("scan", "ready", loan) \/ Failing("scan")) /\ Shown

WebOffer == Web /\ at = "offer" /\ Stranger("none")

(* The phone's screens leave strangers to the layout; the transfer screen  *)
(* of a stranger never stops loading.                                      *)
PhoneHome ==
    /\ Phone /\ at \in {"home", "more", "approve"} /\ Loading(at)
    /\ Show(at, "ready", "none") /\ Shown

PhoneAccount ==
    /\ Phone /\ Loading("account") /\ SignedIn
    /\ Show("account", "ready", "none") /\ Shown

PhoneTransfer ==
    /\ Phone /\ Loading("transfer") /\ SignedIn
    /\ Show("transfer", "ready", "none")
    /\ \E money \in {balance, NoMoney} : form' = [form EXCEPT !.cached = money]
    /\ UNCHANGED <<device, matter, session, routeVars, finish, request, bankVars>>

PhoneConsents ==
    /\ Phone /\ Loading("consents")
    /\ Show("consents", "ready", "none") /\ Shown

PhoneConsent ==
    /\ Phone /\ Loading("consent")
    /\ (Show("consent", "ready", consent) \/ Failing("consent")) /\ Shown

PhoneScan ==
    /\ Phone /\ Loading("scan")
    /\ (Show("scan", "ready", loan) \/ Failing("scan")) /\ Shown

Load ==
    \/ WebEnter \/ WebHome \/ WebTransfer \/ WebConsents \/ WebConsent \/ WebApprove
    \/ WebScan \/ WebOffer
    \/ PhoneHome \/ PhoneAccount \/ PhoneTransfer \/ PhoneConsents \/ PhoneConsent \/ PhoneScan

-----------------------------------------------------------------------------
(* Requests to the bank.                                                   *)

Ask(s, r) ==
    /\ request = NoRequest
    /\ request' = r
    /\ page' = [page EXCEPT ![s].phase = "sent"]
    /\ UNCHANGED <<device, matter, session, routeVars, form, finish, bankVars>>
Simple(op) == [NoRequest EXCEPT !.op = op, !.stage = "sent"]

Carried(op) == request.op = op /\ request.stage = "sent"
Answered == request' = [request EXCEPT !.stage = "executed"]
Refused == request' = [request EXCEPT !.stage = "refused"]
Waiting(s) == page[s].phase = "sent"

(* The transfer form.  Only what the offered controls can set.             *)
Editing == at = "transfer" /\ page[at].phase = "ready"
Edit(f) ==
    /\ Editing /\ form' = f
    /\ UNCHANGED <<device, matter, session, routeVars, page, finish, request, bankVars>>

PhoneMode(m) == Phone /\ Edit([form EXCEPT !.mode = m, !.to = IF m = "own" THEN @ ELSE "none"])
PhoneFrom(a) == Phone /\ Edit([form EXCEPT !.from = a, !.to = IF @ = a THEN "none" ELSE @])
PhoneTo(a) == Phone /\ form.mode = "own" /\ a # form.from /\ Edit([form EXCEPT !.to = a])
WebMode(m) == Web /\ Edit([form EXCEPT !.mode = m])
WebFrom(a) == Web /\ Edit([form EXCEPT !.from = a])
WebTo(a) == Web /\ form.mode = "own" /\ form.from \notin {"none", a} /\ Edit([form EXCEPT !.to = a])
SetAmount(n) == Edit([form EXCEPT !.amount = n])

(* Mutant of CanSubmit: the target may be the source.                       *)
CanSubmitAny ==
    /\ form.from # "none"
    /\ form.amount > 0 /\ form.amount <= form.cached[form.from]
    /\ form.mode = "own" => form.to # "none"

CanSubmit ==
    /\ form.from # "none"
    /\ form.amount > 0 /\ form.amount <= form.cached[form.from]
    /\ form.mode = "own" => form.to \notin {"none", form.from}

(* The phone's form asks for the same.                                     *)
PhoneCanSubmit == CanSubmit

(* To a beneficiary or an IBAN nothing is sent: the form records a success. *)
SubmitTransfer ==
    IF form.mode = "own"
    THEN Ask("transfer", [op |-> "transfer", stage |-> "sent", from |-> form.from,
                          to |-> form.to, amount |-> form.amount])
    ELSE Show("transfer", "recorded", "none") /\ Shown

WebSubmit == Web /\ Editing /\ CanSubmit /\ SubmitTransfer
PhoneSubmit == Phone /\ Editing /\ PhoneCanSubmit /\ SubmitTransfer

BankTransfers ==
    /\ Carried("transfer")
    /\ \/ /\ Transfer(request.from, request.to, request.amount)
          /\ executed' = IF Waiting("transfer") THEN IF executed = 2 THEN 2 ELSE executed + 1
                         ELSE executed
          /\ Answered
       \/ ~Covered(request.from, request.amount) /\ Refused /\ UNCHANGED <<balance, executed>>
    /\ UNCHANGED <<device, matter, session, routeVars, page, form, finish, consent, loan, idp>>

TransferBack == request.op = "transfer" /\ request.stage # "sent" /\ request' = NoRequest
TransferShows(phase) == page' = [page EXCEPT !["transfer"].phase = IF @ = "sent" THEN phase ELSE @]

(* Mutant of TransferOutcomes: an answer that was lost counts as success.   *)
AnyAnswerIsSuccess == {"done"}

(* Any answer may be lost; the form then stays for another try.            *)
TransferOutcomes == {"ready"} \cup IF request.stage = "executed" THEN {"done"} ELSE {}

(* The site fetches the accounts again after a success, the phone does not. *)
WebTransferAnswered ==
    /\ Web /\ TransferBack
    /\ \E phase \in TransferOutcomes :
         /\ TransferShows(phase)
         /\ \E money \in IF phase = "done" /\ Waiting("transfer")
                         THEN {balance, NoMoney} ELSE {form.cached} :
              form' = [form EXCEPT !.cached = money]
    /\ UNCHANGED <<device, matter, session, routeVars, finish, bankVars>>

PhoneTransferAnswered ==
    /\ Phone /\ TransferBack
    /\ \E phase \in TransferOutcomes : TransferShows(phase)
    /\ UNCHANGED <<device, matter, session, routeVars, form, finish, bankVars>>

(* "New transfer" on the success screen clears the form.                   *)
NewTransfer(money) ==
    /\ at = "transfer" /\ page[at].phase \in {"done", "recorded"}
    /\ page' = [page EXCEPT ![at].phase = "ready"]
    /\ form' = [NoForm EXCEPT !.cached = money]
    /\ executed' = 0
    /\ UNCHANGED <<device, matter, session, routeVars, finish, request, balance, consent, loan, idp>>

WebNewTransfer == Web /\ \E money \in {balance, NoMoney} : NewTransfer(money)
PhoneNewTransfer == Phone /\ NewTransfer(form.cached)

(* Revoking a consent, from the detail as it was fetched.                  *)
RevokeOffered ==
    at = "consent" /\ page[at].phase = "ready" /\ page[at].fact = "Authorised"
WebRevokeOffered == Web /\ RevokeOffered
PhoneRevokeOffered == Phone /\ RevokeOffered

WebRevoke == WebRevokeOffered /\ Ask("consent", Simple("revoke"))
PhoneRevoke == PhoneRevokeOffered /\ Ask("consent", Simple("revoke"))

BankRevokes ==
    /\ Carried("revoke")
    /\ \/ consent = "Authorised" /\ consent' = "Revoked" /\ Answered
       \/ consent # "Authorised" /\ UNCHANGED consent /\ Refused
    /\ UNCHANGED <<device, matter, session, routeVars, page, form, finish, balance, executed, loan, idp>>

RevokeBack == request.op = "revoke" /\ request.stage # "sent" /\ request' = NoRequest
RevokeShows(facts) ==
    IF Waiting("consent") THEN \E fact \in facts : Show("consent", "ready", fact)
    ELSE UNCHANGED page

(* Mutant of RevokeOutcomes: the screen shows what was asked for.           *)
RevokedAnyway(facts) == {"Revoked"}

(* The answer is the revoked consent; a refusal, or an answer that is lost, *)
(* leaves what was fetched.                                                 *)
RevokeOutcomes(facts) ==
    {page["consent"].fact} \cup IF request.stage = "executed" THEN facts ELSE {}

WebRevokeAnswered ==
    /\ Web /\ RevokeBack
    /\ RevokeShows(RevokeOutcomes({"Revoked"}))
    /\ UNCHANGED <<device, matter, session, routeVars, form, finish, bankVars>>

(* The phone then fetches the consent again.                               *)
PhoneRevokeAnswered ==
    /\ Phone /\ RevokeBack
    /\ RevokeShows(RevokeOutcomes({"Revoked", consent}))
    /\ UNCHANGED <<device, matter, session, routeVars, form, finish, bankVars>>

(* Consenting to a loan, from the scanned application.                     *)
ScanOffered ==
    at = "scan" /\ page[at].phase = "ready" /\ page[at].fact \notin {"none", "qr_expired"}
WebScanOffered == Web /\ ScanOffered
PhoneScanOffered == Phone /\ ScanOffered

WebScanApprove == SignedIn /\ WebScanOffered /\ Ask("scan", Simple("loan-consent"))
PhoneScanApprove == PhoneScanOffered /\ Ask("scan", Simple("loan-consent"))

(* The loan service does not look at the QR code's expiry here.            *)
BankConsentsToLoan ==
    /\ Carried("loan-consent")
    /\ \/ /\ loan \in {"pending_consent", "qr_expired"}
          /\ loan' = "pending_decision" /\ Answered
       \/ /\ loan \notin {"pending_consent", "qr_expired"}
          /\ UNCHANGED loan /\ Refused
    /\ UNCHANGED <<device, matter, session, routeVars, page, form, finish, balance, executed, consent, idp>>

(* On to the offer; or back to the screen, for another try that the loan   *)
(* service refuses if the first one was carried out.                       *)
LoanConsentAnswered ==
    /\ request.op = "loan-consent" /\ request.stage # "sent"
    /\ request' = NoRequest
    /\ \/ /\ request.stage = "executed" /\ Waiting("scan") /\ at = "scan"
          /\ Go("offer") /\ param' = "none"
       \/ /\ page' = [page EXCEPT !["scan"].phase = IF @ = "sent" THEN "ready" ELSE @]
          /\ UNCHANGED <<layout, at, param, form, executed>>
    /\ UNCHANGED <<device, matter, session, want, finish, balance, consent, loan, idp>>

WebLoanConsentAnswered == Web /\ LoanConsentAnswered
PhoneLoanConsentAnswered == Phone /\ LoanConsentAnswered

(* The offer screen polls for as long as it is mounted.                    *)
OfferOpen == page["offer"].phase # "off"

(* Mutant of PollOffer: the polling ends with the first answer.             *)
PollOnce ==
    /\ page["offer"].phase = "loading"
    /\ Show("offer", "ready", loan) /\ Shown

PollOffer ==
    /\ OfferOpen /\ page["offer"].fact # loan
    /\ page' = [page EXCEPT !["offer"] = [phase |-> IF @.phase = "sent" THEN @.phase ELSE "ready",
                                         fact |-> loan]]
    /\ Shown

WebPollOffer == Web /\ PollOffer
PhonePollOffer == Phone /\ PollOffer

OfferFails == Loading("offer") /\ Failing("offer") /\ Shown

(* The offer is what the other views leave: also a cancelled application.   *)
SignOffered ==
    /\ at = "offer" /\ page[at].phase = "ready"
    /\ page[at].fact \in {"decided", "contracted", "cancelled"}

WebSignOffered == Web /\ SignOffered
PhoneSignOffered == Phone /\ SignOffered

WebSign == WebSignOffered /\ Ask("offer", Simple("sign"))
PhoneSign == PhoneSignOffered /\ Ask("offer", Simple("sign"))

BankSigns ==
    /\ Carried("sign")
    /\ \/ loan = "decided" /\ loan' = "contracted" /\ Answered
       \/ loan # "decided" /\ UNCHANGED loan /\ Refused
    /\ UNCHANGED <<device, matter, session, routeVars, page, form, finish, balance, executed, consent, idp>>

(* After a good answer the button stays busy until the poll ends the view.  *)
SignAnswered ==
    /\ request.op = "sign" /\ request.stage # "sent"
    /\ request' = NoRequest
    /\ \/ request.stage = "executed" /\ UNCHANGED page
       \/ page' = [page EXCEPT !["offer"].phase = IF @ = "sent" THEN "ready" ELSE @]
    /\ UNCHANGED <<device, matter, session, routeVars, form, finish, bankVars>>

WebSignAnswered == Web /\ SignAnswered
PhoneSignAnswered == Phone /\ SignAnswered

-----------------------------------------------------------------------------
Others ==
    \/ \E a, b \in Accounts : TransferElsewhere(a, b)
    \/ ConsentMoves \/ LoanMoves
    \/ \E r \in Refs : TheqaDecides(r)

Moves ==
    \/ \E s \in Screens : WebNavigate(s) \/ PhoneNavigate(s)
    \/ WebOpenConsent \/ PhoneOpenConsent \/ PhoneOpenAccount \/ OpenScanner \/ OpenVerify \/ OpenTheqa \/ LeaveTheqa
    \/ WebSignOut \/ PhoneSignOut
    \/ OpenConsentLink \/ OpenLoanLink \/ (\E r \in Refs : OpenVerifyLink(r)) \/ OpenWeb

Layout == CheckAuth \/ HonourConsent \/ HonourVerify \/ HonourLoan \/ Gate

SignIn ==
    \/ WebLogin \/ PhoneLogin \/ InitiateTheqa \/ InitiateVerify
    \/ (\E s \in {"theqa", "verify"} : StartFails(s) \/ TryAgain(s))
    \/ PollTheqa \/ TheqaFails \/ TheqaSignsIn \/ TheqaGoesHome \/ PollVerify

Controls ==
    \/ \E m \in Modes : WebMode(m) \/ PhoneMode(m)
    \/ \E a \in Accounts : WebFrom(a) \/ PhoneFrom(a) \/ WebTo(a) \/ PhoneTo(a)
    \/ \E n \in 1..Total : SetAmount(n)
    \/ WebSubmit \/ PhoneSubmit \/ WebNewTransfer \/ PhoneNewTransfer
    \/ WebRevoke \/ PhoneRevoke \/ WebScanApprove \/ PhoneScanApprove
    \/ WebSign \/ PhoneSign

Bank == BankTransfers \/ BankRevokes \/ BankConsentsToLoan \/ BankSigns
Answers ==
    \/ WebTransferAnswered \/ PhoneTransferAnswered
    \/ WebRevokeAnswered \/ PhoneRevokeAnswered
    \/ WebLoanConsentAnswered \/ PhoneLoanConsentAnswered
    \/ WebSignAnswered \/ PhoneSignAnswered
    \/ WebPollOffer \/ PhonePollOffer \/ OfferFails

Next == Others \/ Disburse \/ Moves \/ Layout \/ SignIn \/ Load \/ Controls \/ Bank \/ Answers

Spec == Init /\ [][Next]_vars

(* The event loop runs effects, and the network answers polls in the end.   *)
FairSpec == Spec /\ WF_vars(Layout) /\ WF_vars(PollOffer) /\ WF_vars(Load)

-----------------------------------------------------------------------------
Pages == [phase : Phases, fact : ConsentStatuses \cup LoanStatuses \cup Refs]

(* Every variable has its type: in particular no account goes below zero,   *)
(* although the forms compare amounts with balances fetched long ago.       *)
TypeOK ==
    /\ device \in Devices /\ matter \in Matters
    /\ session \in {"none", "password"} \cup Refs
    /\ layout \in [user : BOOLEAN, due : BOOLEAN, checking : BOOLEAN,
                   pending : SUBSET Links, ref : Refs \cup {"none"}]
    /\ at \in Screens
    /\ page \in [Screens -> Pages]
    /\ form \in [cached : [Accounts -> 0..Total], mode : Modes,
                 from : Accounts \cup {"none"}, to : Accounts \cup {"none"}, amount : 0..Total]
    /\ {param, want} \subseteq Links \cup {"none"}
    /\ finish \in [ref : Refs \cup {"none"}, stored : BOOLEAN]
    /\ request \in [op : {"none", "transfer", "revoke", "loan-consent", "sign"},
                    stage : {"none", "sent", "executed", "refused"},
                    from : Accounts \cup {"none"}, to : Accounts \cup {"none"}, amount : 0..Total]
    /\ balance \in [Accounts -> 0..Total]
    /\ executed \in 0..2
    /\ consent \in ConsentStatuses /\ loan \in LoanStatuses
    /\ idp \in [Refs -> {"none", "pending", "verified", "failed"}]

(* Transfers move money and make none.  The bank would make some for a      *)
(* transfer from an account to itself; the forms never send one, whatever   *)
(* the order in which the two accounts are chosen and chosen again.         *)
MoneyIsConserved ==
    balance["current"] + balance["savings"] = IF "money" \in matter THEN Total ELSE 0

(* What a screen announces as final is what the bank has done: a transfer   *)
(* between own accounts, a revocation, a payout, a verified identity.       *)
FinalScreensAreTrue ==
    /\ page["transfer"].phase = "done" => executed > 0
    /\ page["consent"].fact \in {"Rejected", "Consumed", "Revoked", "Expired"}
          => consent = page["consent"].fact
    /\ page["offer"].fact = "disbursed" => loan = "disbursed"
    /\ page["verify"].phase = "verified" => idp[page["verify"].fact] = "verified"

(* Nobody has a Theqa session whose verification the provider has not       *)
(* confirmed, however polls, retries and the return link interleave.        *)
TheqaSessionIsVerified == session \in Refs => idp[session] = "verified"

(* Once the layout has settled, a private screen on the phone belongs to a  *)
(* signed-in customer; on the site every page that has loaded does, but     *)
(* the consent detail, which asks nobody.                                   *)
ScreensNeedASession ==
    \/ at \notin Private \/ SignedIn
    \/ Phone /\ ~AtRest
    \/ Web /\ (page[at].phase = "loading" \/ at \in {"consent", "offer"})

(* A link that is waiting in the layout while somebody is signed in gets    *)
(* its screen.                                                              *)
PendingLinksAreServed ==
    \A l \in Links :
        l \in layout.pending /\ layout.user ~> at = Target(l) \/ ~layout.user

(* An offer screen that stays open shows the payout once it has happened.   *)
PayoutIsShown ==
    OfferOpen /\ loan = "disbursed" ~> ~OfferOpen \/ page["offer"].fact = "disbursed"

(* Header of the site's scan page: "Require auth (redirect to login         *)
(* preserving params)"; header of the phone's layout: "redirected to /login *)
(* (preserving any deep-link consent params)".  So a customer who had to    *)
(* sign in for a link does not end at home instead.                         *)
LoginKeepsTheLink == at = "home" /\ AtRest /\ SignedIn => want = "none"
=============================================================================
