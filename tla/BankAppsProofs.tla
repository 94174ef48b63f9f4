--------------------------- MODULE BankAppsProofs ---------------------------
(***************************************************************************)
(* BD Online: transfers make no money, final screens are true, sessions    *)
(* verified and private screens signed in for, for every combination of    *)
(* matters at once and any number of verifications.                        *)
(*                                                                         *)
(* Every one of these is about two places that are written at different    *)
(* times.  The invariant says what the slower one carries meanwhile: a     *)
(* request what the form was allowed to send and what its answer stands    *)
(* for, a poll and a link the verification they were given, the phone's    *)
(* layout what it knew of the session when it last looked.                 *)
(***************************************************************************)
EXTENDS BankApps, TLAPS

Ended == {"Rejected", "Consumed", "Revoked", "Expired"}

(* What a request may be sent with, and what its answer means.             *)
RequestsAreSound ==
    /\ request.op = "transfer" => /\ request.from \in Accounts /\ request.to \in Accounts
                                  /\ request.from # request.to
    /\ request.op = "revoke" /\ request.stage = "executed" => consent = "Revoked"

(* What the page p of the screen x may show.                               *)
IsTrue(x, p) ==
    /\ x = "transfer" =>
          /\ p.phase = "done" => executed > 0
          /\ p.phase = "sent" /\ request.op = "transfer" /\ request.stage = "executed" => executed > 0
    /\ x = "consent" => (p.fact \in Ended => consent = p.fact)
    /\ x = "offer" => (p.fact = "disbursed" => loan = "disbursed")
    /\ x = "verify" => /\ p.phase \in {"polling", "verified"} => p.fact \in Refs
                       /\ p.phase = "verified" => idp[p.fact] = "verified"
    /\ x = "theqa" => (p.phase = "polling" => p.fact \in Refs)

PagesAreTrue == \A x \in Screens : IsTrue(x, page[x])

(* A link, a sign-in and a session are those of a verification.            *)
VerificationsAreReal ==
    /\ "verify" \in layout.pending => layout.ref \in Refs
    /\ finish.ref # "none" => finish.ref \in Refs /\ idp[finish.ref] = "verified"
    /\ TheqaSessionIsVerified

(* The phone's layout has looked since the customer signed out, or will;   *)
(* the site has no layout to wait for.                                     *)
LayoutKnows ==
    /\ Web => ~layout.due /\ ~layout.checking
    /\ Phone /\ ~layout.checking /\ ~SignedIn => ~layout.user
    /\ Phone /\ ~layout.due /\ at \in Private => layout.user \/ SignedIn
    /\ Web /\ at \in Private =>
          SignedIn \/ page[at].phase = "loading" \/ at \in {"consent", "offer"}

BankInv == TypeOK /\ MoneyIsConserved /\ RequestsAreSound /\ PagesAreTrue /\ VerificationsAreReal /\ LayoutKnows

LayoutType == [user : BOOLEAN, due : BOOLEAN, checking : BOOLEAN,
               pending : SUBSET Links, ref : Refs \cup {"none"}]
FormType == [cached : [Accounts -> 0..Total], mode : Modes,
             from : Accounts \cup {"none"}, to : Accounts \cup {"none"}, amount : 0..Total]
FinishType == [ref : Refs \cup {"none"}, stored : BOOLEAN]
RequestType == [op : {"none", "transfer", "revoke", "loan-consent", "sign"},
                stage : {"none", "sent", "executed", "refused"},
                from : Accounts \cup {"none"}, to : Accounts \cup {"none"}, amount : 0..Total]
IdpType == [Refs -> {"none", "pending", "verified", "failed"}]

-----------------------------------------------------------------------------
(* The values the program starts from, and resets to.                      *)

LEMMA NullValues ==
    /\ Total \in Nat /\ 0 \in 0..Total
    /\ NoMoney \in [Accounts -> 0..Total]
    /\ NoForm \in FormType
    /\ NoRequest \in RequestType /\ NoRequest.op = "none" /\ NoRequest.stage = "none"
    /\ NoFinish \in FinishType /\ NoFinish.ref = "none" /\ ~NoFinish.stored
    /\ {Off, Fresh} \subseteq Pages
    /\ Off.phase = "off" /\ Off.fact = "none" /\ Fresh.phase = "loading" /\ Fresh.fact = "none"
<1>1. Total \in Nat /\ 0 \in 0..Total
  BY BankAppsAssumption
<1>2. NoMoney \in [Accounts -> 0..Total]
  BY <1>1 DEF NoMoney
<1>3. NoForm \in FormType
  BY <1>1, <1>2 DEF NoForm, FormType, Modes
<1>4. NoRequest \in RequestType /\ NoRequest.op = "none" /\ NoRequest.stage = "none"
  BY <1>1 DEF NoRequest, RequestType
<1>5. NoFinish \in FinishType /\ NoFinish.ref = "none" /\ ~NoFinish.stored
  BY DEF NoFinish, FinishType
<1>6. /\ {Off, Fresh} \subseteq Pages
      /\ Off.phase = "off" /\ Off.fact = "none" /\ Fresh.phase = "loading" /\ Fresh.fact = "none"
  BY DEF Off, Fresh, Pages, Phases, ConsentStatuses
<1> QED
  BY <1>1, <1>2, <1>3, <1>4, <1>5, <1>6

(* The type invariant in the terms of the lemmas below.                    *)
Typed ==
    /\ device \in {"web", "phone"} /\ device \in Devices /\ matter \in Matters
    /\ session \in {"none", "password"} \cup Refs
    /\ layout \in LayoutType /\ at \in Screens /\ page \in [Screens -> Pages]
    /\ form \in FormType
    /\ param \in Links \cup {"none"} /\ want \in Links \cup {"none"}
    /\ finish \in FinishType /\ request \in RequestType
    /\ balance \in [Accounts -> 0..Total] /\ executed \in 0..2
    /\ consent \in ConsentStatuses /\ loan \in LoanStatuses /\ idp \in IdpType

LEMMA TypedIsTypeOK == Typed <=> TypeOK
  BY BankAppsAssumption DEF Typed, TypeOK, LayoutType, FormType, FinishType, RequestType, IdpType

LEMMA BankInitially == Init => BankInv
<1> SUFFICES ASSUME Init PROVE BankInv
  OBVIOUS
<1>1. device \in {"web", "phone"}
  BY BankAppsAssumption DEF Init
<1>2. \A s \in Screens : page[s] \in {Off, Fresh}
  BY DEF Init
<1>3. layout \in LayoutType /\ layout.user = SignedIn /\ layout.due = Phone /\ ~layout.checking
      /\ layout.pending = {}
  BY DEF Init, LayoutType, SignedIn, Phone
<1>4. balance \in [Accounts -> 0..Total] /\ MoneyIsConserved
  <2>1. CASE "money" \in matter
    <3>1. balance = [NoMoney EXCEPT !["current"] = Total]
      BY <2>1 DEF Init
    <3> QED
      BY <2>1, <3>1, NullValues DEF NoMoney, Accounts, MoneyIsConserved
  <2>2. CASE "money" \notin matter
    <3>1. balance = NoMoney
      BY <2>2 DEF Init
    <3> QED
      BY <2>2, <3>1, NullValues DEF NoMoney, Accounts, MoneyIsConserved
  <2> QED
    BY <2>1, <2>2
<1>5. page \in [Screens -> Pages]
  BY <1>2, NullValues DEF Init
<1>6. /\ consent \in ConsentStatuses /\ loan \in LoanStatuses /\ idp \in IdpType /\ executed \in 0..2
      /\ at \in Screens /\ param \in Links \cup {"none"} /\ want \in Links \cup {"none"}
      /\ session \in {"none", "password"}
  BY DEF Init, ConsentStatuses, LoanStatuses, IdpType, Screens, Private
<1>7. Typed
  BY <1>1, <1>3, <1>4, <1>5, <1>6, NullValues DEF Typed, Init
<1>8. RequestsAreSound
  BY NullValues DEF Init, RequestsAreSound
<1>9. PagesAreTrue
  BY <1>2, NullValues DEF PagesAreTrue, IsTrue, Ended
<1>10. VerificationsAreReal
  BY <1>3, <1>6, NullValues, BankAppsAssumption
     DEF Init, VerificationsAreReal, TheqaSessionIsVerified
<1>11. LayoutKnows
  <2>1. page["home"] = Fresh /\ at = "home"
    BY DEF Init, Screens, Private
  <2> QED
    BY <1>1, <1>3, <2>1, NullValues DEF LayoutKnows, Web, Phone
<1> QED
  BY <1>4, <1>7, <1>8, <1>9, <1>10, <1>11, TypedIsTypeOK DEF BankInv

-----------------------------------------------------------------------------
(* What a step may do to the truth of a page.  At the bank, what has ended *)
(* stays as it ended.                                                      *)

EndsStay ==
    /\ consent \in Ended => consent' = consent
    /\ loan = "disbursed" => loan' = "disbursed"
    /\ \A r \in Refs : idp[r] = "verified" => idp'[r] = "verified"

LEMMA TruthStays ==
    ASSUME EndsStay, NEW x, x # "transfer", NEW p, IsTrue(x, p)
    PROVE  IsTrue(x, p)'
  BY DEF EndsStay, IsTrue

LEMMA TransferStaysTrue ==
    ASSUME NEW p, IsTrue("transfer", p),
           \/ executed' > 0
           \/ executed' = executed /\ (request' = request \/ request'.stage # "executed")
    PROVE  IsTrue("transfer", p)'
  BY DEF IsTrue

(* A page without a fact that announces nothing.                           *)
Blank(p) == p.fact = "none" /\ p.phase \in {"off", "loading", "failed", "starting"}

LEMMA BlankIsTrue == ASSUME NEW x, NEW p, Blank(p) PROVE IsTrue(x, p)'
  BY DEF IsTrue, Blank, Ended

(* The bank, or somebody else there, moves; the screens do not.            *)
LEMMA BankSideStep ==
    ASSUME BankInv, UNCHANGED <<device, matter, session, layout, at, param, want, page, form, finish>>,
           request' \in RequestType, RequestsAreSound',
           balance' \in [Accounts -> 0..Total], MoneyIsConserved', executed' \in 0..2,
           consent' \in ConsentStatuses, loan' \in LoanStatuses, idp' \in IdpType, EndsStay,
           IsTrue("transfer", page["transfer"])'
    PROVE  BankInv'
<1>0. Typed /\ PagesAreTrue /\ VerificationsAreReal /\ LayoutKnows
  BY TypedIsTypeOK DEF BankInv
<1>1. Typed'
  BY <1>0 DEF Typed
<1>2. TypeOK'
  BY <1>1, TypedIsTypeOK, PTL
<1>3. PagesAreTrue'
  BY <1>0, TruthStays DEF PagesAreTrue
<1>4. VerificationsAreReal'
  BY <1>0 DEF VerificationsAreReal, TheqaSessionIsVerified, EndsStay
<1>5. LayoutKnows'
  BY <1>0 DEF LayoutKnows, Web, Phone, SignedIn
<1> QED
  BY <1>2, <1>3, <1>4, <1>5 DEF BankInv

(* One page changes where it stands, with the form or a request: what it   *)
(* then shows is true, and on the site somebody is signed in for it.       *)
LEMMA PageStep ==
    ASSUME BankInv, NEW x \in Screens, page' \in [Screens -> Pages],
           \A y \in Screens \ {x} : page'[y] = page[y], IsTrue(x, page[x])',
           UNCHANGED <<device, matter, layout, at, param, want, balance, consent, loan>>,
           session' = session \/ (session' \in Refs /\ idp[session'] = "verified"),
           form' \in FormType,
           finish' \in FinishType,
           finish'.ref # "none" => finish'.ref \in Refs /\ idp[finish'.ref] = "verified",
           executed' \in 0..2, executed' = executed \/ x = "transfer",
           request' = request \/ (request' \in RequestType /\ request'.stage # "executed"),
           RequestsAreSound',
           idp' \in IdpType, \A r \in Refs : idp[r] = "verified" => idp'[r] = "verified",
           \/ Phone \/ at \notin Private \/ SignedIn \/ x # at
           \/ page'[x].phase = "loading" \/ page[x].phase # "loading" \/ at \in {"consent", "offer"}
    PROVE  BankInv'
<1>0. Typed /\ MoneyIsConserved /\ PagesAreTrue /\ VerificationsAreReal /\ LayoutKnows
  BY TypedIsTypeOK DEF BankInv
<1>1. Typed'
  BY <1>0 DEF Typed
<1>2. TypeOK'
  BY <1>1, TypedIsTypeOK, PTL
<1>3. PagesAreTrue'
  <2>1. EndsStay
    BY DEF EndsStay
  <2>2. ASSUME NEW y \in Screens PROVE IsTrue(y, page[y])'
    <3>1. CASE y = x
      BY <3>1
    <3>2. CASE y # x /\ y # "transfer"
      BY <3>2, <2>1, <1>0, TruthStays DEF PagesAreTrue
    <3>3. CASE y # x /\ y = "transfer"
      BY <3>3, <1>0, TransferStaysTrue DEF PagesAreTrue
    <3> QED
      BY <3>1, <3>2, <3>3
  <2> QED
    BY <2>2 DEF PagesAreTrue
<1>4. VerificationsAreReal'
  BY <1>0 DEF VerificationsAreReal, TheqaSessionIsVerified
<1>5. SignedIn => SignedIn'
  BY BankAppsAssumption DEF SignedIn
<1>6. LayoutKnows'
  BY <1>0, <1>5 DEF LayoutKnows, Web, Phone, Typed
<1>7. MoneyIsConserved'
  BY <1>0 DEF MoneyIsConserved
<1> QED
  BY <1>2, <1>3, <1>4, <1>6, <1>7 DEF BankInv

(* What a step that changes one page finds.                                *)
LEMMA StateHas ==
    ASSUME BankInv
    PROVE  /\ Typed /\ RequestsAreSound
           /\ form \in FormType /\ finish \in FinishType /\ executed \in 0..2 /\ idp \in IdpType
           /\ finish.ref # "none" => finish.ref \in Refs /\ idp[finish.ref] = "verified"
           /\ page \in [Screens -> Pages]
           /\ \A x \in Screens : IsTrue(x, page[x])
  BY TypedIsTypeOK DEF BankInv, Typed, VerificationsAreReal, PagesAreTrue

LEMMA PhaseMoves ==
    ASSUME Typed, NEW x \in Screens, NEW ph \in Phases, page' = [page EXCEPT ![x].phase = ph]
    PROVE  /\ page' \in [Screens -> Pages] /\ \A y \in Screens \ {x} : page'[y] = page[y]
           /\ page'[x].phase = ph /\ page'[x].fact = page[x].fact
  BY DEF Typed, Pages

LEMMA FactMoves ==
    ASSUME Typed, NEW x \in Screens, NEW p \in Pages, page' = [page EXCEPT ![x] = p]
    PROVE  /\ page' \in [Screens -> Pages] /\ \A y \in Screens \ {x} : page'[y] = page[y]
           /\ page'[x] = p
  BY DEF Typed

(* A screen shows what it fetched, or that it could not.                   *)
LEMMA ShowStep ==
    ASSUME BankInv, NEW x \in Screens, NEW ph \in {"ready", "failed"}, NEW fact,
           Show(x, ph, fact),
           UNCHANGED <<device, matter, session, routeVars, finish, request, bankVars>>,
           form' \in FormType,
           fact \in {"none"} \/ (x = "consent" /\ fact = consent) \/ (x \in {"scan", "offer"} /\ fact = loan),
           Phone \/ at \notin Private \/ SignedIn \/ x # at \/ at \in {"consent", "offer"}
              \/ page[x].phase # "loading"
    PROVE  BankInv'
<1>0. Typed /\ RequestsAreSound /\ form \in FormType /\ finish \in FinishType /\ executed \in 0..2
      /\ idp \in IdpType /\ (finish.ref # "none" => finish.ref \in Refs /\ idp[finish.ref] = "verified")
  BY StateHas
<1> DEFINE p == [phase |-> ph, fact |-> fact]
<1>1. p \in Pages /\ p.phase = ph /\ p.fact = fact
  BY <1>0 DEF Pages, Phases, ConsentStatuses, LoanStatuses, Typed
<1>2. page' = [page EXCEPT ![x] = p]
  BY DEF Show
<1> HIDE DEF p
<1>3. /\ page' \in [Screens -> Pages] /\ \A y \in Screens \ {x} : page'[y] = page[y]
      /\ page'[x].phase = ph /\ page'[x].fact = fact
  BY <1>0, <1>1, <1>2, FactMoves
<1>4. IsTrue(x, page[x])'
  BY <1>3 DEF IsTrue, Ended, bankVars
<1>5. RequestsAreSound'
  BY <1>0 DEF RequestsAreSound, bankVars
<1> QED
  BY <1>0, <1>3, <1>4, <1>5, PageStep DEF routeVars, bankVars

-----------------------------------------------------------------------------
(* Going from screen to screen.                                            *)

LEMMA LinksLead ==
    /\ \A l \in Links : Target(l) \in Private /\ Target(l) \in Screens
    /\ \A l \in Links : LandOn(l) \in Screens
<1>1. \A l \in Links : Target(l) \in {"approve", "scan", "verify"}
  BY DEF Links, Target
<1> QED
  BY <1>1 DEF Private, Screens, LandOn

(* A screen that is opened shows what it kept, or nothing yet.             *)
LEMMA MountedPages ==
    ASSUME Typed, NEW s \in Screens
    PROVE  /\ Mounted(s) \in [Screens -> Pages]
           /\ \A x \in Screens : Mounted(s)[x] \in {page[x], Off, Fresh}
           /\ Web => Mounted(s)[s] = Fresh
           /\ Mounted(s)["transfer"] \in {page["transfer"], Off, Fresh}
<1>1. \A x \in Screens : Mounted(s)[x] \in {page[x], Off, Fresh}
  BY DEF Mounted
<1>2. Mounted(s) \in [Screens -> Pages]
  BY NullValues DEF Mounted, Typed
<1>3. Web => Mounted(s)[s] = Fresh
  BY DEF Mounted, Keeps, Web, Phone
<1>4. "transfer" \in Screens
  BY DEF Screens, Private
<1> QED
  BY <1>1, <1>2, <1>3, <1>4

(* What the pages may be after a screen was opened: nothing new is         *)
(* announced, and the form is still the transfer screen's.                 *)
Opened(pages) ==
    /\ pages \in [Screens -> Pages]
    /\ \A x \in Screens : pages[x] = page[x] \/ Blank(pages[x])
    /\ pages["transfer"] \in {page["transfer"], Off, Fresh}

LEMMA MountedIsOpened == ASSUME Typed, NEW s \in Screens PROVE Opened(Mounted(s))
<1>1. Blank(Off) /\ Blank(Fresh)
  BY NullValues DEF Blank
<1> QED
  BY <1>1, MountedPages DEF Opened

LEMMA OpenedExcept ==
    ASSUME NEW pages, Opened(pages), NEW x \in Screens, x # "transfer", NEW p \in Pages, Blank(p)
    PROVE  /\ Opened([pages EXCEPT ![x] = p])
           /\ [pages EXCEPT ![x] = p][x] = p
           /\ \A y \in Screens \ {x} : [pages EXCEPT ![x] = p][y] = pages[y]
<1>1. "transfer" \in Screens
  BY DEF Screens, Private
<1> QED
  BY <1>1 DEF Opened

LEMMA OpenedIsTrue ==
    ASSUME Typed, PagesAreTrue, NEW pages, Opened(pages), page' = pages, FormLives(pages), EndsStay,
           request' \in {request, NoRequest}
    PROVE  PagesAreTrue' /\ form' \in FormType /\ executed' \in 0..2
<1>1. form' \in FormType /\ executed' \in 0..2
  BY NullValues DEF FormLives, Typed
<1>2. "transfer" \in Screens
  BY DEF Screens, Private
<1>3. IsTrue("transfer", page["transfer"])'
  <2>1. CASE pages["transfer"] \in {Off, Fresh}
    BY <2>1, NullValues DEF IsTrue
  <2>2. CASE pages["transfer"] \notin {Off, Fresh}
    <3>1. page'["transfer"] = page["transfer"] /\ executed' = executed
      BY <2>2 DEF Opened, FormLives
    <3>2. request' = request \/ request'.stage # "executed"
      BY NullValues
    <3> QED
      BY <1>2, <3>1, <3>2, TransferStaysTrue DEF PagesAreTrue
  <2> QED
    BY <2>1, <2>2
<1>4. ASSUME NEW x \in Screens, x # "transfer" PROVE IsTrue(x, page[x])'
  <2>1. CASE page'[x] = page[x]
    BY <1>4, <2>1, TruthStays DEF PagesAreTrue
  <2>2. CASE Blank(page'[x])
    BY <2>2, BlankIsTrue
  <2> QED
    BY <2>1, <2>2 DEF Opened
<1> QED
  BY <1>1, <1>3, <1>4 DEF PagesAreTrue

(* Arriving: the phone's layout will look again, the site's page starts.   *)
LEMMA ArriveStep ==
    ASSUME BankInv, NEW s \in Screens, NEW pages, Opened(pages), Arrive(s, pages),
           UNCHANGED <<device, matter, balance, consent, loan, idp>>,
           session' \in {session, "none", "password"},
           param' \in Links \cup {"none"}, want' \in Links \cup {"none"},
           finish' \in {finish, NoFinish}, request' \in {request, NoRequest},
           Phone \/ s \notin Private \/ pages[s] = Fresh
    PROVE  BankInv'
<1>0. Typed /\ MoneyIsConserved /\ RequestsAreSound /\ PagesAreTrue /\ VerificationsAreReal /\ LayoutKnows
  BY TypedIsTypeOK DEF BankInv
<1>1. EndsStay
  BY DEF EndsStay
<1>2. page' = pages /\ at' = s /\ FormLives(pages)
  BY DEF Arrive
<1>3. PagesAreTrue' /\ form' \in FormType /\ executed' \in 0..2
  BY <1>0, <1>1, <1>2, OpenedIsTrue
<1>4. /\ layout' \in LayoutType /\ layout'.due = Phone /\ layout'.checking = Phone
      /\ layout'.user = layout.user /\ layout'.pending = layout.pending /\ layout'.ref = layout.ref
  BY <1>0 DEF Arrive, LayoutType, Typed, Phone
<1>5. Typed'
  BY <1>0, <1>2, <1>3, <1>4, NullValues DEF Typed, Opened
<1>6. TypeOK'
  BY <1>5, TypedIsTypeOK, PTL
<1>7. VerificationsAreReal'
  BY <1>0, <1>4, NullValues, BankAppsAssumption DEF VerificationsAreReal, TheqaSessionIsVerified
<1>8. LayoutKnows'
  BY <1>0, <1>2, <1>4, NullValues DEF LayoutKnows, Web, Phone, Typed
<1>9. RequestsAreSound'
  BY <1>0, NullValues DEF RequestsAreSound
<1>10. MoneyIsConserved'
  BY <1>0 DEF MoneyIsConserved
<1> QED
  BY <1>3, <1>6, <1>7, <1>8, <1>9, <1>10 DEF BankInv

LEMMA GoStep ==
    ASSUME BankInv, NEW s \in Screens, Go(s),
           UNCHANGED <<device, matter, balance, consent, loan, idp>>,
           session' \in {session, "none", "password"},
           param' \in Links \cup {"none"}, want' \in Links \cup {"none"},
           finish' \in {finish, NoFinish}, request' \in {request, NoRequest}
    PROVE  BankInv'
<1>0. Typed
  BY TypedIsTypeOK DEF BankInv
<1>1. Opened(Mounted(s)) /\ (Phone \/ Mounted(s)[s] = Fresh)
  BY <1>0, MountedIsOpened, MountedPages DEF Typed, Web, Phone
<1> QED
  BY <1>1, ArriveStep DEF Go

LEMMA ChooseStep ==
    ASSUME BankInv, NEW s \in Screens, NEW pages, Opened(pages), Choose(s, pages),
           Phone \/ s \notin Private \/ pages[s] = Fresh
    PROVE  BankInv'
  BY ArriveStep DEF Choose

(* The customer's own moves.                                               *)
LEMMA NavigateStep ==
    ASSUME BankInv,
           \/ \E s \in Screens : WebNavigate(s) \/ PhoneNavigate(s)
           \/ WebOpenConsent \/ PhoneOpenConsent \/ PhoneOpenAccount \/ LeaveTheqa
    PROVE  BankInv'
<1>0. Typed
  BY TypedIsTypeOK DEF BankInv
<1>1. ASSUME NEW s \in Screens, Choose(s, Mounted(s)) PROVE BankInv'
  <2>1. Opened(Mounted(s)) /\ (Phone \/ Mounted(s)[s] = Fresh)
    BY <1>0, MountedIsOpened, MountedPages DEF Typed, Web, Phone
  <2> QED
    BY <1>1, <2>1, ChooseStep
<1>2. {"consent", "account", "login"} \subseteq Screens
  BY DEF Screens, Private, Public
<1> QED
  BY <1>1, <1>2 DEF WebNavigate, PhoneNavigate, WebOpenConsent, PhoneOpenConsent, OpenConsent,
     PhoneOpenAccount, LeaveTheqa

LEMMA OpenScreenStep ==
    ASSUME BankInv, OpenScanner \/ OpenVerify \/ OpenTheqa
    PROVE  BankInv'
<1>0. Typed
  BY TypedIsTypeOK DEF BankInv
<1>1. ASSUME NEW s \in {"scan", "verify", "theqa"}, NEW phase \in {"failed", "starting"}, Phone,
             Choose(s, [Mounted(s) EXCEPT ![s] = [Off EXCEPT !.phase = phase]])
      PROVE  BankInv'
  <2> DEFINE p == [Off EXCEPT !.phase = phase]
  <2>1. p \in Pages /\ Blank(p)
    BY DEF Off, Pages, Blank, Phases, ConsentStatuses
  <2>2. s \in Screens /\ s # "transfer"
    BY DEF Screens, Private, Public
  <2>3. Choose(s, [Mounted(s) EXCEPT ![s] = p])
    BY <1>1
  <2> HIDE DEF p
  <2>4. Opened([Mounted(s) EXCEPT ![s] = p])
    BY <1>0, <2>1, <2>2, MountedIsOpened, OpenedExcept
  <2> QED
    BY <1>1, <2>2, <2>3, <2>4, ChooseStep
<1> QED
  BY <1>1 DEF OpenScanner, OpenVerify, OpenTheqa

LEMMA SignOutStep == ASSUME BankInv, WebSignOut \/ PhoneSignOut PROVE BankInv'
<1>1. "login" \in Screens
  BY DEF Screens, Public
<1> QED
  BY <1>1, GoStep DEF WebSignOut, PhoneSignOut, SignOut

(* The address bar starts the page afresh.                                 *)
LEMMA OpenWebStep == ASSUME BankInv, OpenWeb PROVE BankInv'
<1>0. Typed
  BY TypedIsTypeOK DEF BankInv
<1>1. ASSUME NEW s \in {"approve", "scan", "consent", "offer", "login"},
             NEW l \in Links \cup {"none"}, OpenAddress(s, l)
      PROVE  BankInv'
  <2>1. s \in Screens /\ s # "transfer" /\ Fresh \in Pages /\ Blank(Fresh)
    BY NullValues DEF Screens, Private, Public, Blank
  <2>2. LET pages == [Mounted(s) EXCEPT ![s] = Fresh] IN Opened(pages) /\ pages[s] = Fresh
    BY <1>0, <2>1, MountedIsOpened, OpenedExcept
  <2>3. param' \in Links \cup {"none"}
    BY <1>1 DEF OpenAddress, Links
  <2> QED
    BY <1>1, <2>1, <2>2, <2>3, ArriveStep DEF OpenAddress
<1> QED
  BY <1>1 DEF OpenWeb, Links

-----------------------------------------------------------------------------
(* The phone's root layout.                                                *)

LEMMA CheckAuthStep == ASSUME BankInv, CheckAuth PROVE BankInv'
<1>0. Typed /\ MoneyIsConserved /\ RequestsAreSound /\ PagesAreTrue /\ VerificationsAreReal /\ LayoutKnows
  BY TypedIsTypeOK DEF BankInv
<1>1. /\ layout.checking /\ ~layout.due
      /\ UNCHANGED <<device, matter, session, at, param, want, page, form, finish, request, balance,
                     executed, consent, loan, idp>>
  BY DEF CheckAuth, bankVars
<1>2. /\ layout' \in LayoutType /\ layout'.user = SignedIn /\ ~layout'.checking
      /\ layout'.due = (layout.user # SignedIn) /\ layout'.pending = layout.pending
      /\ layout'.ref = layout.ref
  BY <1>0 DEF CheckAuth, LayoutType, Typed, SignedIn
<1>3. Typed'
  BY <1>0, <1>1, <1>2 DEF Typed
<1>4. TypeOK'
  BY <1>3, TypedIsTypeOK, PTL
<1>5. PagesAreTrue'
  BY <1>0, <1>1 DEF PagesAreTrue, IsTrue
<1>6. VerificationsAreReal'
  BY <1>0, <1>1, <1>2 DEF VerificationsAreReal, TheqaSessionIsVerified
<1>7. LayoutKnows'
  <2>1. Phone /\ ~Web
    BY <1>0, <1>1 DEF LayoutKnows, Web, Phone, Typed
  <2> QED
    BY <1>0, <1>1, <1>2, <2>1 DEF LayoutKnows, Web, Phone, SignedIn
<1>8. RequestsAreSound' /\ MoneyIsConserved'
  BY <1>0, <1>1 DEF RequestsAreSound, MoneyIsConserved
<1> QED
  BY <1>4, <1>5, <1>6, <1>7, <1>8 DEF BankInv

(* A link lands on the phone.                                              *)
LEMMA OpenLinkStep ==
    ASSUME BankInv, NEW l \in Links, NEW r \in Refs \cup {"none"}, l = "verify" => r \in Refs, OpenLink(l, r)
    PROVE  BankInv'
<1>0. Typed /\ MoneyIsConserved /\ RequestsAreSound /\ PagesAreTrue /\ VerificationsAreReal /\ LayoutKnows
  BY TypedIsTypeOK DEF BankInv
<1>1. /\ Phone /\ ~Web /\ want' = l /\ at' = LandOn(l) /\ LandOn(l) \in Screens
      /\ param' \in Links \cup {"none"}
      /\ UNCHANGED <<device, matter, session, finish, request, balance, consent, loan, idp>>
  BY LinksLead DEF OpenLink, Web, Phone
<1>2. /\ layout' \in LayoutType /\ layout'.due /\ layout'.checking /\ layout'.user = layout.user
      /\ layout'.pending = layout.pending \cup {l}
      /\ layout'.ref = IF l = "verify" THEN r ELSE layout.ref
  BY <1>0 DEF OpenLink, LayoutType, Typed
<1> PICK pages \in {Mounted(LandOn(l)), [Mounted(LandOn(l)) EXCEPT !["theqa"] = Off]} :
       /\ page' = IF l = "loan" /\ pages["scan"].phase = "failed"
                  THEN [pages EXCEPT !["scan"] = Fresh] ELSE pages
       /\ FormLives(pages)
  BY DEF OpenLink
<1>3. {"theqa", "scan", "transfer"} \subseteq Screens /\ {Off, Fresh} \subseteq Pages /\ Blank(Off) /\ Blank(Fresh)
  BY NullValues DEF Screens, Private, Public, Blank
<1>4. Opened(pages)
  BY <1>0, <1>1, <1>3, MountedIsOpened, OpenedExcept
<1>5. Opened(page') /\ page'["transfer"] = pages["transfer"]
  BY <1>3, <1>4, OpenedExcept
<1>6. FormLives(page')
  BY <1>5 DEF FormLives
<1>7. EndsStay
  BY <1>1 DEF EndsStay
<1>8. PagesAreTrue' /\ form' \in FormType /\ executed' \in 0..2
  BY <1>0, <1>1, <1>5, <1>6, <1>7, OpenedIsTrue
<1>9. Typed'
  BY <1>0, <1>1, <1>2, <1>5, <1>8 DEF Typed, Opened
<1>10. TypeOK'
  BY <1>9, TypedIsTypeOK, PTL
<1>11. VerificationsAreReal'
  BY <1>0, <1>1, <1>2 DEF VerificationsAreReal, TheqaSessionIsVerified
<1>12. LayoutKnows'
  BY <1>0, <1>1, <1>2 DEF LayoutKnows, Web, Phone
<1>13. RequestsAreSound' /\ MoneyIsConserved'
  BY <1>0, <1>1 DEF RequestsAreSound, MoneyIsConserved
<1> QED
  BY <1>8, <1>10, <1>11, <1>12, <1>13 DEF BankInv

(* One run of the routing effect: it stays only where the customer may be. *)
LEMMA RouteStep ==
    ASSUME BankInv, NEW s \in Screens, NEW p \in Links \cup {"none"}, NEW l \in Links \cup {"none"},
           layout.due, RouteTo(s, p, l),
           s = "verify" /\ s # at => layout.ref \in Refs,
           s = at => s \notin Private \/ layout.user
    PROVE  BankInv'
<1>0. Typed /\ MoneyIsConserved /\ RequestsAreSound /\ PagesAreTrue /\ VerificationsAreReal /\ LayoutKnows
  BY TypedIsTypeOK DEF BankInv
<1>1. /\ Phone /\ ~Web /\ param' = p
      /\ UNCHANGED <<device, matter, session, want, finish, request, balance, consent, loan, idp>>
  BY <1>0 DEF RouteTo, Rest, LayoutKnows, Web, Phone, Typed
<1>2. /\ layout' \in LayoutType /\ layout'.user = layout.user /\ layout'.ref = layout.ref
      /\ layout'.pending \subseteq layout.pending
      /\ at' = s
      /\ \/ s = at /\ ~layout'.due /\ layout'.checking = layout.checking
         \/ s # at /\ layout'.due /\ layout'.checking
  <2>1. layout \in LayoutType
    BY <1>0 DEF Typed
  <2>2. CASE s = at
    <3>1. layout' = [layout EXCEPT !.due = FALSE, !.pending = @ \ {l}] /\ at' = s
      BY <2>2 DEF RouteTo
    <3> QED
      BY <2>1, <2>2, <3>1 DEF LayoutType
  <2>3. CASE s # at
    <3>1. layout' = [layout EXCEPT !.due = TRUE, !.checking = TRUE, !.pending = @ \ {l}] /\ at' = s
      BY <2>3 DEF RouteTo
    <3> QED
      BY <2>1, <2>3, <3>1 DEF LayoutType
  <2> QED
    BY <2>2, <2>3
<1>3. EndsStay
  BY <1>1 DEF EndsStay
<1>4. page' \in [Screens -> Pages] /\ PagesAreTrue' /\ form' \in FormType /\ executed' \in 0..2
  <2>1. CASE s = at
    <3>1. UNCHANGED <<page, form, executed>>
      BY <2>1 DEF RouteTo
    <3> QED
      BY <3>1, <1>0, <1>1 DEF Typed, PagesAreTrue, IsTrue
  <2>2. CASE s # at /\ s # "verify"
    <3>1. page' = Mounted(s) /\ FormLives(Mounted(s)) /\ Opened(Mounted(s))
      BY <2>2, <1>0, MountedIsOpened DEF RouteTo
    <3> QED
      BY <3>1, <1>0, <1>1, <1>3, OpenedIsTrue DEF Opened
  <2>3. CASE s # at /\ s = "verify"
    <3> DEFINE q == [phase |-> IF idp[layout.ref] = "failed" THEN "failed" ELSE "polling",
                     fact |-> layout.ref]
    <3>1. q \in Pages /\ q.phase \in {"failed", "polling"} /\ q.fact \in Refs
      BY <2>3 DEF Pages, Phases
    <3>2. page' = [Mounted(s) EXCEPT ![s] = q] /\ FormLives(Mounted(s)) /\ Opened(Mounted(s))
      BY <2>3, <1>0, MountedIsOpened DEF RouteTo
    <3> HIDE DEF q
    <3>3. "transfer" \in Screens /\ s # "transfer"
      BY <2>3 DEF Screens, Private
    <3>4. /\ page' \in [Screens -> Pages] /\ page'[s] = q
          /\ \A x \in Screens \ {s} : page'[x] = Mounted(s)[x]
      BY <3>1, <3>2 DEF Opened
    <3>5. form' \in FormType /\ executed' \in 0..2
      BY <3>2, <1>0, NullValues DEF FormLives, Typed
    <3>6. IsTrue("transfer", page["transfer"])'
      <4>1. CASE Mounted(s)["transfer"] \in {Off, Fresh}
        <5>1. page'["transfer"] \in {Off, Fresh}
          BY <4>1, <3>3, <3>4
        <5> QED
          BY <5>1, NullValues DEF IsTrue
      <4>2. CASE Mounted(s)["transfer"] \notin {Off, Fresh}
        <5>1. page'["transfer"] = page["transfer"] /\ executed' = executed /\ request' = request
          BY <4>2, <3>2, <3>3, <3>4, <1>1 DEF Opened, FormLives
        <5> QED
          BY <5>1, <3>3, <1>0, TransferStaysTrue DEF PagesAreTrue
      <4> QED
        BY <4>1, <4>2
    <3>7. ASSUME NEW x \in Screens, x # "transfer" PROVE IsTrue(x, page[x])'
      <4>1. CASE x = s
        BY <4>1, <2>3, <3>1, <3>4 DEF IsTrue
      <4>2. CASE x # s /\ page'[x] = page[x]
        BY <3>7, <4>2, <1>0, <1>3, TruthStays DEF PagesAreTrue
      <4>3. CASE x # s /\ Blank(page'[x])
        BY <4>3, BlankIsTrue
      <4> QED
        BY <3>2, <3>4, <4>1, <4>2, <4>3 DEF Opened
    <3> QED
      BY <3>4, <3>5, <3>6, <3>7 DEF PagesAreTrue
  <2> QED
    BY <2>1, <2>2, <2>3
<1>5. Typed'
  BY <1>0, <1>1, <1>2, <1>4 DEF Typed
<1>6. TypeOK'
  BY <1>5, TypedIsTypeOK, PTL
<1>7. VerificationsAreReal'
  BY <1>0, <1>1, <1>2 DEF VerificationsAreReal, TheqaSessionIsVerified
<1>8. LayoutKnows'
  BY <1>0, <1>1, <1>2 DEF LayoutKnows, Web, Phone, SignedIn
<1>9. RequestsAreSound' /\ MoneyIsConserved'
  BY <1>0, <1>1 DEF RequestsAreSound, MoneyIsConserved
<1> QED
  BY <1>4, <1>6, <1>7, <1>8, <1>9 DEF BankInv

LEMMA LayoutStep == ASSUME BankInv, Layout PROVE BankInv'
<1>0. Typed /\ VerificationsAreReal
  BY TypedIsTypeOK DEF BankInv
<1>1. /\ {"approve", "login", "verify", "scan", "home"} \subseteq Screens
      /\ "login" \notin Private /\ "consent" \in Links /\ "verify" \in Links /\ "loan" \in Links
  BY DEF Screens, Private, Public, Links
<1>2. at \in Screens /\ param \in Links \cup {"none"}
  BY <1>0 DEF Typed
<1>3. CASE HonourConsent
  BY <1>1, <1>3, RouteStep DEF HonourConsent, ConsentDue
<1>4. CASE HonourVerify
  <2>1. layout.ref \in Refs /\ at # "verify"
    BY <1>0, <1>4 DEF HonourVerify, VerifyDue, VerificationsAreReal
  <2> QED
    BY <1>1, <1>4, <2>1, RouteStep DEF HonourVerify
<1>5. CASE HonourLoan
  BY <1>1, <1>5, RouteStep DEF HonourLoan, LoanDue
<1>6. CASE Gate
  <2>1. CASE ~layout.user /\ at \notin Public /\ RouteTo("login", "none", "none")
    BY <1>1, <1>6, <2>1, RouteStep DEF Gate
  <2>2. CASE layout.user /\ at \notin Private /\ RouteTo("home", "none", "none")
    BY <1>1, <1>6, <2>2, RouteStep DEF Gate
  <2>3. CASE /\ layout.user \/ at \in Public
             /\ ~layout.user \/ at \in Private
             /\ RouteTo(at, param, "none")
    <3>1. at \notin Private \/ layout.user
      BY <2>3 DEF Public, Private
    <3> QED
      BY <1>2, <1>6, <2>3, <3>1, RouteStep DEF Gate
  <2> QED
    BY <1>6, <2>1, <2>2, <2>3 DEF Gate
<1> QED
  BY <1>3, <1>4, <1>5, <1>6, CheckAuthStep DEF Layout

-----------------------------------------------------------------------------
(* At the bank.                                                            *)

LEMMA MoneyMoves ==
    ASSUME Typed, MoneyIsConserved, matter' = matter,
           NEW from \in Accounts, NEW to \in Accounts, from # to, NEW amount \in Nat,
           Transfer(from, to, amount)
    PROVE  balance' \in [Accounts -> 0..Total] /\ MoneyIsConserved'
<1>1. /\ balance' = [balance EXCEPT ![from] = @ - amount, ![to] = @ + amount]
      /\ amount <= balance[from]
  BY DEF Transfer, Covered
<1>2. /\ balance \in [Accounts -> 0..Total] /\ Total \in Nat
      /\ balance["current"] + balance["savings"] <= Total
  BY NullValues DEF Typed, MoneyIsConserved
<1>3. CASE from = "current" /\ to = "savings"
  <2>1. /\ balance'["current"] = balance["current"] - amount
        /\ balance'["savings"] = balance["savings"] + amount
    BY <1>1, <1>2, <1>3 DEF Accounts
  <2>2. balance' \in [Accounts -> 0..Total]
    BY <1>1, <1>2, <1>3 DEF Accounts
  <2> QED
    BY <1>2, <2>1, <2>2 DEF MoneyIsConserved, Accounts
<1>4. CASE from = "savings" /\ to = "current"
  <2>1. /\ balance'["current"] = balance["current"] + amount
        /\ balance'["savings"] = balance["savings"] - amount
    BY <1>1, <1>2, <1>4 DEF Accounts
  <2>2. balance' \in [Accounts -> 0..Total]
    BY <1>1, <1>2, <1>4 DEF Accounts
  <2> QED
    BY <1>2, <2>1, <2>2 DEF MoneyIsConserved, Accounts
<1> QED
  BY <1>3, <1>4 DEF Accounts

LEMMA OthersStep == ASSUME BankInv, Others \/ Disburse PROVE BankInv'
<1>0. /\ Typed /\ MoneyIsConserved /\ RequestsAreSound
      /\ request \in RequestType /\ balance \in [Accounts -> 0..Total] /\ executed \in 0..2
      /\ consent \in ConsentStatuses /\ loan \in LoanStatuses /\ idp \in IdpType
      /\ IsTrue("transfer", page["transfer"])
  BY TypedIsTypeOK DEF BankInv, Typed, PagesAreTrue, Screens, Private
<1>1. ASSUME NEW a \in Accounts, NEW b \in Accounts, TransferElsewhere(a, b) PROVE BankInv'
  <2>1. balance[a] \in Nat
    BY <1>0, NullValues
  <2>2. balance' \in [Accounts -> 0..Total] /\ MoneyIsConserved'
    BY <1>0, <1>1, <2>1, MoneyMoves DEF TransferElsewhere, frontVars
  <2>3. EndsStay /\ RequestsAreSound' /\ IsTrue("transfer", page["transfer"])'
    BY <1>0, <1>1 DEF TransferElsewhere, frontVars, EndsStay, RequestsAreSound, IsTrue
  <2> QED
    BY <1>0, <1>1, <2>2, <2>3, BankSideStep DEF TransferElsewhere, frontVars, routeVars
<1>2. ASSUME UNCHANGED <<frontVars, balance, executed>>, EndsStay,
             consent' \in ConsentStatuses, loan' \in LoanStatuses, idp' \in IdpType,
             consent = "Revoked" => consent' = "Revoked"
      PROVE  BankInv'
  <2>1. MoneyIsConserved' /\ RequestsAreSound' /\ IsTrue("transfer", page["transfer"])'
    BY <1>0, <1>2 DEF frontVars, MoneyIsConserved, RequestsAreSound, IsTrue
  <2> QED
    BY <1>0, <1>2, <2>1, BankSideStep DEF frontVars, routeVars
<1>3. CASE ConsentMoves
  BY <1>0, <1>2, <1>3 DEF ConsentMoves, EndsStay, Ended, ConsentStatuses
<1>4. CASE LoanMoves
  BY <1>0, <1>2, <1>4 DEF LoanMoves, EndsStay, LoanStatuses
<1>5. CASE Disburse
  BY <1>0, <1>2, <1>5 DEF Disburse, EndsStay, LoanStatuses
<1>6. ASSUME NEW r \in Refs, TheqaDecides(r) PROVE BankInv'
  BY <1>0, <1>2, <1>6 DEF TheqaDecides, EndsStay, IdpType
<1> QED
  BY <1>1, <1>3, <1>4, <1>5, <1>6 DEF Others

(* A request is carried out, or refused.                                   *)
LEMMA AnswerKeeps ==
    ASSUME request \in RequestType, NEW s \in {"executed", "refused"},
           request' = [request EXCEPT !.stage = s]
    PROVE  /\ request' \in RequestType /\ request'.stage = s /\ request'.op = request.op
           /\ request'.from = request.from /\ request'.to = request.to
  BY DEF RequestType

LEMMA BankStep == ASSUME BankInv, Bank PROVE BankInv'
<1>0. /\ Typed /\ MoneyIsConserved /\ RequestsAreSound
      /\ request \in RequestType /\ balance \in [Accounts -> 0..Total] /\ executed \in 0..2
      /\ consent \in ConsentStatuses /\ loan \in LoanStatuses /\ idp \in IdpType
      /\ IsTrue("transfer", page["transfer"])
  BY TypedIsTypeOK DEF BankInv, Typed, PagesAreTrue, Screens, Private
<1>1. PICK s \in {"executed", "refused"} : request' = [request EXCEPT !.stage = s]
  BY DEF Bank, BankTransfers, BankRevokes, BankConsentsToLoan, BankSigns, Answered, Refused
<1>2. /\ request' \in RequestType /\ request'.stage = s /\ request'.op = request.op
      /\ request'.from = request.from /\ request'.to = request.to
  BY <1>0, <1>1, AnswerKeeps
<1>3. UNCHANGED <<device, matter, session, routeVars, page, form, finish, idp>>
  BY DEF Bank, BankTransfers, BankRevokes, BankConsentsToLoan, BankSigns
<1>4. CASE BankTransfers
  <2>1. request.op = "transfer" /\ request.from \in Accounts /\ request.to \in Accounts
        /\ request.from # request.to /\ request.amount \in Nat /\ UNCHANGED <<consent, loan>>
    BY <1>0, <1>4, NullValues DEF BankTransfers, Carried, RequestsAreSound, RequestType
  <2>2. EndsStay
    BY <1>3, <2>1 DEF EndsStay
  <2>3. RequestsAreSound'
    BY <1>2, <2>1 DEF RequestsAreSound
  <2>4. CASE UNCHANGED <<balance, executed>> /\ Refused
    <3>1. request'.stage = "refused" /\ MoneyIsConserved'
      BY <1>0, <1>3, <2>4 DEF Refused, MoneyIsConserved, RequestType
    <3>2. IsTrue("transfer", page["transfer"])'
      BY <1>0, <1>3, <2>4, <3>1 DEF IsTrue
    <3> QED
      BY <1>0, <1>2, <1>3, <2>1, <2>2, <2>3, <2>4, <3>1, <3>2, BankSideStep DEF routeVars
  <2>5. CASE /\ Transfer(request.from, request.to, request.amount)
             /\ executed' = IF Waiting("transfer") THEN IF executed = 2 THEN 2 ELSE executed + 1
                            ELSE executed
    <3>1. balance' \in [Accounts -> 0..Total] /\ MoneyIsConserved'
      BY <1>0, <1>3, <2>1, <2>5, MoneyMoves
    <3>2. executed' \in 0..2 /\ (page["transfer"].phase = "sent" => executed' > 0)
          /\ (executed > 0 => executed' > 0)
      BY <1>0, <2>5 DEF Waiting
    <3>3. IsTrue("transfer", page["transfer"])'
      BY <1>0, <1>3, <3>2 DEF IsTrue
    <3> QED
      BY <1>0, <1>2, <1>3, <2>1, <2>2, <2>3, <3>1, <3>2, <3>3, BankSideStep DEF routeVars
  <2> QED
    BY <1>4, <2>4, <2>5 DEF BankTransfers
<1>5. ASSUME request.op # "transfer", UNCHANGED <<balance, executed>>, EndsStay, RequestsAreSound',
             consent' \in ConsentStatuses, loan' \in LoanStatuses
      PROVE  BankInv'
  <2>1. MoneyIsConserved' /\ IsTrue("transfer", page["transfer"])'
    BY <1>0, <1>2, <1>3, <1>5 DEF MoneyIsConserved, IsTrue
  <2> QED
    BY <1>0, <1>2, <1>3, <1>5, <2>1, BankSideStep DEF routeVars
<1>6. CASE BankRevokes
  <2>1. request.op = "revoke" /\ UNCHANGED <<balance, executed, loan>>
    BY <1>6 DEF BankRevokes, Carried
  <2>2. EndsStay /\ consent' \in ConsentStatuses /\ loan' \in LoanStatuses
    BY <1>0, <1>3, <1>6, <2>1 DEF BankRevokes, EndsStay, Ended, ConsentStatuses
  <2>3. request'.stage = "executed" => consent' = "Revoked"
    BY <1>0, <1>6 DEF BankRevokes, Answered, Refused, RequestType
  <2>4. RequestsAreSound'
    BY <1>2, <2>1, <2>3 DEF RequestsAreSound
  <2> QED
    BY <1>5, <2>1, <2>2, <2>4
<1>7. CASE BankConsentsToLoan \/ BankSigns
  <2>1. request.op \in {"loan-consent", "sign"} /\ UNCHANGED <<balance, executed, consent>>
    BY <1>7 DEF BankConsentsToLoan, BankSigns, Carried
  <2>2. EndsStay /\ loan' \in LoanStatuses
    BY <1>0, <1>3, <1>7, <2>1 DEF BankConsentsToLoan, BankSigns, EndsStay, LoanStatuses
  <2>3. RequestsAreSound'
    BY <1>2, <2>1 DEF RequestsAreSound
  <2> QED
    BY <1>0, <1>5, <2>1, <2>2, <2>3
<1> QED
  BY <1>4, <1>6, <1>7 DEF Bank

-----------------------------------------------------------------------------
(* Opening screens, and the verifications.                                 *)

LEMMA StrangerStep == ASSUME BankInv, NEW l \in {"none", "consent", "loan"}, Stranger(l) PROVE BankInv'
<1>1. "login" \in Screens /\ l \in Links \cup {"none"} /\ want \in Links \cup {"none"}
  BY StateHas DEF Screens, Public, Links, Typed
<1> QED
  BY <1>1, GoStep DEF Stranger

LEMMA LoadStep == ASSUME BankInv, Load PROVE BankInv'
<1>0. Typed /\ form \in FormType /\ balance \in [Accounts -> 0..Total]
  BY StateHas DEF Typed
<1>1. Screens = {"login", "theqa", "home", "transfer", "consents", "consent", "approve", "scan", "offer",
                 "verify", "account", "more", "lost"}
  BY DEF Screens, Public, Private
<1>2. ASSUME NEW x \in Screens, NEW ph \in {"ready", "failed"}, NEW fact, Show(x, ph, fact), Shown,
             \/ fact = "none" \/ (x = "consent" /\ fact = consent) \/ (x \in {"scan", "offer"} /\ fact = loan),
             Phone \/ at \notin Private \/ SignedIn \/ at \in {"consent", "offer"}
      PROVE  BankInv'
  BY <1>0, <1>2, ShowStep DEF Shown
<1>3. \A money \in {balance, NoMoney} : [form EXCEPT !.cached = money] \in FormType
  BY <1>0, NullValues DEF FormType
<1>4. CASE WebEnter
  <2>1. CASE ~SignedIn /\ Show("login", "ready", "none") /\ Shown
    <3>1. at \notin Private
      BY <1>4 DEF WebEnter, Loading, Private
    <3> QED
      BY <1>1, <1>2, <2>1, <3>1
  <2>2. CASE /\ Go(IF param = "consent" THEN "approve" ELSE "home")
             /\ param' = IF param = "consent" THEN param ELSE "none"
             /\ UNCHANGED <<device, matter, session, want, finish, request, balance, consent, loan, idp>>
    <3>1. param' \in Links \cup {"none"} /\ want \in Links \cup {"none"}
      BY <1>0, <2>2 DEF Typed, Links
    <3> QED
      BY <1>1, <2>2, <3>1, GoStep
  <2> QED
    BY <1>4, <2>1, <2>2 DEF WebEnter
<1>5. CASE WebHome \/ WebConsents \/ WebApprove \/ WebScan \/ WebOffer
  <2>1. ASSUME NEW l \in {"none", "consent", "loan"}, Stranger(l) PROVE BankInv'
    BY <2>1, StrangerStep
  <2>2. CASE \E l \in {"none", "consent", "loan"} : Stranger(l)
    BY <2>1, <2>2
  <2>3. CASE /\ SignedIn /\ Shown
             /\ \/ \E x \in {"home", "consents", "approve"} : Show(x, "ready", "none")
                \/ \E x \in {"consents", "scan"} : Show(x, "failed", "none")
                \/ Show("scan", "ready", loan)
    BY <1>1, <1>2, <2>3
  <2> QED
    BY <1>5, <2>2, <2>3 DEF WebHome, WebConsents, WebApprove, WebScan, WebOffer, Failing
<1>6. CASE WebTransfer \/ PhoneTransfer
  <2>1. CASE Stranger("none")
    BY <2>1, StrangerStep
  <2>2. CASE /\ SignedIn /\ Show("transfer", "ready", "none")
             /\ \E money \in {balance, NoMoney} : form' = [form EXCEPT !.cached = money]
             /\ UNCHANGED <<device, matter, session, routeVars, finish, request, bankVars>>
    BY <1>1, <1>3, <2>2, ShowStep
  <2> QED
    BY <1>6, <2>1, <2>2 DEF WebTransfer, PhoneTransfer
<1>7. CASE WebConsent
  <2>1. CASE Choose("consents", Mounted("consents"))
    <3>1. Opened(Mounted("consents")) /\ (Phone \/ Mounted("consents")["consents"] = Fresh)
      BY <1>0, <1>1, MountedIsOpened, MountedPages DEF Typed, Web, Phone
    <3> QED
      BY <1>1, <2>1, <3>1, ChooseStep
  <2>2. CASE Show("consent", "ready", consent) /\ Shown
    BY <1>1, <1>2, <1>7, <2>2 DEF WebConsent, Loading
  <2> QED
    BY <1>7, <2>1, <2>2 DEF WebConsent
<1>8. CASE PhoneHome \/ PhoneAccount \/ PhoneConsents \/ PhoneConsent \/ PhoneScan
  <2>1. Phone /\ Shown
    BY <1>8 DEF PhoneHome, PhoneAccount, PhoneConsents, PhoneConsent, PhoneScan
  <2>2. CASE \E x \in {"home", "more", "approve", "account", "consents"} : Show(x, "ready", "none")
    BY <1>1, <1>2, <2>1, <2>2
  <2>3. CASE \E x \in {"consent", "scan"} : Show(x, "failed", "none")
    BY <1>1, <1>2, <2>1, <2>3
  <2>4. CASE Show("consent", "ready", consent) \/ Show("scan", "ready", loan)
    BY <1>1, <1>2, <2>1, <2>4
  <2> QED
    BY <1>8, <2>2, <2>3, <2>4
       DEF PhoneHome, PhoneAccount, PhoneConsents, PhoneConsent, PhoneScan, Failing
<1> QED
  BY <1>4, <1>5, <1>6, <1>7, <1>8 DEF Load

(* The requests of one screen: what it then shows is the phase, the fact   *)
(* is what it was.                                                         *)
LEMMA PhaseStep ==
    ASSUME BankInv, NEW x \in Screens, NEW ph \in Phases, page' = [page EXCEPT ![x].phase = ph],
           UNCHANGED <<device, matter, layout, at, param, want, balance, consent, loan, idp>>,
           x = "transfer" /\ ph = "done" => executed' > 0,
           x = "transfer" /\ ph = "sent" => request'.stage # "executed",
           x = "theqa" /\ ph = "polling" => page[x].phase = "polling",
           x = "verify" => ph \notin {"polling", "verified"},
           session' = session \/ (session' \in Refs /\ idp[session'] = "verified"),
           form' \in FormType, finish' \in FinishType,
           finish'.ref # "none" => finish'.ref \in Refs /\ idp[finish'.ref] = "verified",
           executed' \in 0..2, executed' = executed \/ x = "transfer",
           request' = request \/ (request' \in RequestType /\ request'.stage # "executed"),
           RequestsAreSound',
           ph = page[x].phase \/ page[x].phase # "loading"
    PROVE  BankInv'
<1>0. Typed /\ idp \in IdpType /\ IsTrue(x, page[x])
  BY StateHas DEF Typed
<1>1. /\ page' \in [Screens -> Pages] /\ \A y \in Screens \ {x} : page'[y] = page[y]
      /\ page'[x].phase = ph /\ page'[x].fact = page[x].fact
  BY <1>0, PhaseMoves
<1>2. IsTrue(x, page[x])'
  BY <1>0, <1>1 DEF IsTrue
<1> QED
  BY <1>0, <1>1, <1>2, PageStep

LEMMA StartStep ==
    ASSUME BankInv,
           \/ InitiateTheqa \/ InitiateVerify
           \/ \E s \in {"theqa", "verify"} : StartFails(s) \/ TryAgain(s)
    PROVE  BankInv'
<1>0. /\ Typed /\ RequestsAreSound /\ form \in FormType /\ finish \in FinishType
      /\ executed \in 0..2 /\ idp \in IdpType
      /\ finish.ref # "none" => finish.ref \in Refs /\ idp[finish.ref] = "verified"
  BY StateHas
<1>1. {"theqa", "verify"} \subseteq Screens
  BY DEF Screens, Public, Private
<1>2. ASSUME NEW s \in {"theqa", "verify"}, StartVerification(s) PROVE BankInv'
  <2> PICK r \in Refs : /\ idp[r] = "none" /\ idp' = [idp EXCEPT ![r] = "pending"]
                        /\ page' = [page EXCEPT ![s] = [phase |-> IF s = "theqa" THEN "polling" ELSE "ready",
                                                       fact |-> r]]
    BY <1>2 DEF StartVerification
  <2> DEFINE p == [phase |-> IF s = "theqa" THEN "polling" ELSE "ready", fact |-> r]
  <2>1. p \in Pages /\ p.fact = r /\ p.phase = IF s = "theqa" THEN "polling" ELSE "ready"
    BY DEF Pages, Phases
  <2>2. page' = [page EXCEPT ![s] = p]
    OBVIOUS
  <2> HIDE DEF p
  <2>3. /\ page' \in [Screens -> Pages] /\ \A y \in Screens \ {s} : page'[y] = page[y]
        /\ page'[s] = p
    BY <1>0, <1>1, <2>1, <2>2, FactMoves
  <2>4. IsTrue(s, page[s])'
    BY <1>2, <2>1, <2>3 DEF IsTrue
  <2>5. /\ idp' \in IdpType /\ \A q \in Refs : idp[q] = "verified" => idp'[q] = "verified"
    BY <1>0 DEF IdpType
  <2>6. UNCHANGED <<device, matter, session, layout, at, param, want, form, finish, request, balance,
                    executed, consent, loan>>
    BY <1>2 DEF StartVerification, routeVars
  <2>7. page[s].phase # "loading"
    BY <1>2 DEF StartVerification
  <2>8. RequestsAreSound'
    BY <1>0, <2>6 DEF RequestsAreSound
  <2>9. s \in Screens
    BY <1>1
  <2>10. finish'.ref # "none" => finish'.ref \in Refs /\ idp[finish'.ref] = "verified"
    BY <1>0, <2>6
  <2> QED
    BY <1>0, <2>3, <2>4, <2>5, <2>6, <2>7, <2>8, <2>9, <2>10, PageStep
<1>3. ASSUME NEW s \in {"theqa", "verify"}, StartFails(s) PROVE BankInv'
  <2>1. /\ UNCHANGED <<device, matter, session, layout, at, param, want, form, finish, request, balance,
                       executed, consent, loan, idp>>
        /\ page' = [page EXCEPT ![s].phase = "failed"] /\ page[s].phase = "starting"
    BY <1>3 DEF StartFails, routeVars, bankVars
  <2>2. RequestsAreSound' /\ "failed" \in Phases /\ s \in Screens
    BY <1>0, <1>1, <2>1 DEF RequestsAreSound, Phases
  <2> QED
    BY <1>0, <2>1, <2>2, PhaseStep
<1>4. ASSUME NEW s \in {"theqa", "verify"}, TryAgain(s) PROVE BankInv'
  <2>1. /\ UNCHANGED <<device, matter, session, layout, at, param, want, form, finish, request, balance,
                       executed, consent, loan, idp>>
        /\ page' = [page EXCEPT ![s] = [Off EXCEPT !.phase = "starting"]] /\ page[s].phase = "failed"
    BY <1>4 DEF TryAgain, routeVars, bankVars
  <2> DEFINE p == [Off EXCEPT !.phase = "starting"]
  <2>2. p \in Pages /\ p.phase = "starting"
    BY DEF Off, Pages, Phases, ConsentStatuses
  <2>3. page' = [page EXCEPT ![s] = p] /\ s \in Screens
    BY <1>1, <2>1
  <2> HIDE DEF p
  <2>4. /\ page' \in [Screens -> Pages] /\ \A y \in Screens \ {s} : page'[y] = page[y]
        /\ page'[s].phase = "starting"
    BY <1>0, <2>2, <2>3, FactMoves
  <2>5. IsTrue(s, page[s])' /\ RequestsAreSound'
    BY <1>0, <1>4, <2>1, <2>4 DEF IsTrue, RequestsAreSound
  <2> QED
    BY <1>0, <2>1, <2>3, <2>4, <2>5, PageStep
<1> QED
  BY <1>2, <1>3, <1>4 DEF InitiateTheqa, InitiateVerify

(* A poll, and a sign-in, keep to the verification they were given.        *)
LEMMA PollStep ==
    ASSUME BankInv, PollTheqa \/ TheqaFails \/ TheqaSignsIn \/ PollVerify
    PROVE  BankInv'
<1>0. /\ Typed /\ RequestsAreSound /\ form \in FormType /\ finish \in FinishType
      /\ executed \in 0..2 /\ idp \in IdpType
      /\ finish.ref # "none" => finish.ref \in Refs /\ idp[finish.ref] = "verified"
      /\ \A x \in Screens : IsTrue(x, page[x])
  BY StateHas
<1>1. /\ {"theqa", "verify"} \subseteq Screens
      /\ {"sent", "failed", "verified"} \subseteq Phases
  BY DEF Screens, Public, Private, Phases
<1>2. CASE PollTheqa
  <2>1. /\ UNCHANGED <<device, matter, session, layout, at, param, want, form, request, balance,
                       executed, consent, loan, idp>>
        /\ page' = [page EXCEPT !["theqa"].phase = "sent"] /\ page["theqa"].phase = "polling"
    BY <1>2 DEF PollTheqa, PollVars, routeVars, bankVars
  <2>2. page["theqa"].fact \in Refs
    BY <1>0, <1>1, <2>1 DEF IsTrue
  <2>3. finish' \in FinishType /\ finish'.ref \in Refs /\ idp[finish'.ref] = "verified"
    BY <1>2, <2>2 DEF PollTheqa, NoFinish, FinishType
  <2>4. RequestsAreSound'
    BY <1>0, <2>1 DEF RequestsAreSound
  <2> QED
    BY <1>0, <1>1, <2>1, <2>3, <2>4, PhaseStep
<1>3. CASE TheqaFails
  <2>1. /\ UNCHANGED <<device, matter, session, layout, at, param, want, form, finish, request, balance,
                       executed, consent, loan, idp>>
        /\ page' = [page EXCEPT !["theqa"].phase = "failed"] /\ page["theqa"].phase = "polling"
    BY <1>3 DEF TheqaFails, PollVars, routeVars, bankVars
  <2>2. RequestsAreSound'
    BY <1>0, <2>1 DEF RequestsAreSound
  <2> QED
    BY <1>0, <1>1, <2>1, <2>2, PhaseStep
<1>4. CASE TheqaSignsIn
  <2>1. UNCHANGED <<device, matter, layout, at, param, want, form, request, balance,
                    executed, consent, loan, idp>>
    BY <1>4 DEF TheqaSignsIn, routeVars, bankVars
  <2>2. RequestsAreSound'
    BY <1>0, <2>1 DEF RequestsAreSound
  <2> DEFINE after(ph) == IF page["theqa"].phase = "sent" THEN ph ELSE page["theqa"].phase
  <2>3. \A ph \in {"verified", "failed"} :
           /\ after(ph) \in Phases
           /\ after(ph) = "polling" => page["theqa"].phase = "polling"
           /\ after(ph) = page["theqa"].phase \/ page["theqa"].phase # "loading"
    BY <1>0, <1>1 DEF Typed, Pages
  <2>4. PICK ph \in {"verified", "failed"} :
           /\ page' = [page EXCEPT !["theqa"].phase = after(ph)]
           /\ session' = session \/ (finish.ref # "none" /\ session' = finish.ref)
           /\ finish' = NoFinish \/ finish' = [finish EXCEPT !.stored = TRUE]
    BY <1>4 DEF TheqaSignsIn, Store
  <2>5. /\ finish' \in FinishType
        /\ finish'.ref # "none" => finish'.ref \in Refs /\ idp[finish'.ref] = "verified"
    BY <1>0, <2>4, NullValues DEF FinishType
  <2>6. session' = session \/ (session' \in Refs /\ idp[session'] = "verified")
    BY <1>0, <2>4
  <2> HIDE DEF after
  <2> QED
    BY <1>0, <1>1, <2>1, <2>2, <2>3, <2>4, <2>5, <2>6, PhaseStep
<1>5. CASE PollVerify
  <2>1. /\ UNCHANGED <<device, matter, session, layout, at, param, want, form, finish, request, balance,
                       executed, consent, loan, idp>>
        /\ page["verify"].phase = "polling"
    BY <1>5 DEF PollVerify, PollVars, routeVars, bankVars
  <2>2. RequestsAreSound'
    BY <1>0, <2>1 DEF RequestsAreSound
  <2>3. CASE page' = [page EXCEPT !["verify"].phase = "failed"]
    BY <1>0, <1>1, <2>1, <2>2, <2>3, PhaseStep
  <2>4. CASE /\ idp[page["verify"].fact] = "verified"
             /\ page' = [page EXCEPT !["verify"].phase = "verified"]
    <3>1. /\ page' \in [Screens -> Pages] /\ \A y \in Screens \ {"verify"} : page'[y] = page[y]
          /\ page'["verify"].phase = "verified" /\ page'["verify"].fact = page["verify"].fact
      BY <1>0, <1>1, <2>4, PhaseMoves
    <3>2. IsTrue("verify", page["verify"])'
      BY <1>0, <1>1, <2>1, <2>4, <3>1 DEF IsTrue
    <3> QED
      BY <1>0, <1>1, <2>1, <2>2, <3>1, <3>2, PageStep
  <2> QED
    BY <1>5, <2>3, <2>4 DEF PollVerify
<1> QED
  BY <1>2, <1>3, <1>4, <1>5

LEMMA SignInStep == ASSUME BankInv, SignIn PROVE BankInv'
<1>0. Typed /\ param \in Links \cup {"none"} /\ want \in Links \cup {"none"} /\ finish \in FinishType
  BY StateHas DEF Typed
<1>1. {"home", "approve"} \subseteq Screens /\ \A l \in Links : Target(l) \in Screens
  BY LinksLead DEF Screens, Private
<1>2. ASSUME NEW s \in Screens, SignInTo(s) PROVE BankInv'
  <2>1. param' \in Links \cup {"none"}
    BY <1>0, <1>2 DEF SignInTo
  <2>2. session' = "password"
    BY <1>2 DEF SignInTo, Store
  <2> QED
    BY <1>0, <1>2, <2>1, <2>2, GoStep DEF SignInTo
<1>3. CASE WebLogin \/ PhoneLogin
  <2>1. {"consent", "loan"} \subseteq Links
    BY DEF Links
  <2> QED
    BY <1>1, <1>2, <1>3, <2>1 DEF WebLogin, PhoneLogin
<1>4. CASE TheqaGoesHome
  BY <1>0, <1>1, <1>4, GoStep DEF TheqaGoesHome
<1> QED
  BY <1>3, <1>4, StartStep, PollStep DEF SignIn

-----------------------------------------------------------------------------
(* The forms and the requests.                                             *)

LEMMA EditStep ==
    ASSUME BankInv, NEW f \in FormType, Edit(f)
    PROVE  BankInv'
<1>0. /\ Typed /\ RequestsAreSound /\ finish \in FinishType /\ page \in [Screens -> Pages]
      /\ executed \in 0..2 /\ idp \in IdpType
      /\ finish.ref # "none" => finish.ref \in Refs /\ idp[finish.ref] = "verified"
      /\ \A x \in Screens : IsTrue(x, page[x])
  BY StateHas
<1>1. UNCHANGED <<device, matter, session, layout, at, param, want, page, finish, request, balance,
                  executed, consent, loan, idp>>
  BY DEF Edit, routeVars, bankVars
<1>2. RequestsAreSound' /\ "transfer" \in Screens /\ IsTrue("transfer", page["transfer"])'
  BY <1>0, <1>1 DEF RequestsAreSound, IsTrue, Screens, Private
<1>3. page["transfer"].phase # "loading"
  BY DEF Edit, Editing
<1>4. form' \in FormType
  BY DEF Edit
<1> QED
  BY <1>0, <1>1, <1>2, <1>3, <1>4, PageStep

LEMMA ControlStep ==
    ASSUME BankInv,
           \/ \E m \in Modes : WebMode(m) \/ PhoneMode(m)
           \/ \E a \in Accounts : WebFrom(a) \/ PhoneFrom(a) \/ WebTo(a) \/ PhoneTo(a)
           \/ \E n \in 1..Total : SetAmount(n)
    PROVE  BankInv'
<1>0. form \in FormType /\ Total \in Nat
  BY StateHas, NullValues
<1>1. ASSUME NEW m \in Modes, NEW to \in Accounts \cup {"none"}
      PROVE  [form EXCEPT !.mode = m, !.to = to] \in FormType /\ [form EXCEPT !.mode = m] \in FormType
  BY <1>0 DEF FormType
<1>2. ASSUME NEW a \in Accounts, NEW to \in Accounts \cup {"none"}
      PROVE  /\ [form EXCEPT !.from = a, !.to = to] \in FormType
             /\ [form EXCEPT !.from = a] \in FormType /\ [form EXCEPT !.to = to] \in FormType
  BY <1>0 DEF FormType
<1>3. \A n \in 1..Total : [form EXCEPT !.amount = n] \in FormType
  BY <1>0 DEF FormType
<1>4. form.to \in Accounts \cup {"none"}
  BY <1>0 DEF FormType
<1>5. ASSUME NEW m \in Modes, WebMode(m) \/ PhoneMode(m) PROVE BankInv'
  BY <1>1, <1>4, <1>5, EditStep DEF WebMode, PhoneMode
<1>6. ASSUME NEW a \in Accounts, WebFrom(a) \/ PhoneFrom(a) \/ WebTo(a) \/ PhoneTo(a) PROVE BankInv'
  BY <1>2, <1>4, <1>6, EditStep DEF WebFrom, PhoneFrom, WebTo, PhoneTo
<1>7. ASSUME NEW n \in 1..Total, SetAmount(n) PROVE BankInv'
  BY <1>3, <1>7, EditStep DEF SetAmount
<1> QED
  BY <1>5, <1>6, <1>7

(* A request is sent from a screen that is ready, with what is sound.      *)
LEMMA AskStep ==
    ASSUME BankInv, NEW s \in {"transfer", "consent", "scan", "offer"}, NEW r \in RequestType,
           r.stage = "sent", page[s].phase = "ready",
           r.op = "transfer" => r.from \in Accounts /\ r.to \in Accounts /\ r.from # r.to,
           Ask(s, r)
    PROVE  BankInv'
<1>0. /\ Typed /\ form \in FormType /\ finish \in FinishType /\ executed \in 0..2
      /\ finish.ref # "none" => finish.ref \in Refs /\ idp[finish.ref] = "verified"
  BY StateHas
<1>1. /\ UNCHANGED <<device, matter, session, layout, at, param, want, form, finish, balance,
                     executed, consent, loan, idp>>
      /\ request' = r /\ page' = [page EXCEPT ![s].phase = "sent"]
  BY DEF Ask, routeVars, bankVars
<1>2. RequestsAreSound'
  BY <1>1 DEF RequestsAreSound
<1>3. s \in Screens /\ "sent" \in Phases
  BY DEF Screens, Private, Phases
<1> QED
  BY <1>0, <1>1, <1>2, <1>3, PhaseStep

LEMMA SubmitStep == ASSUME BankInv, WebSubmit \/ PhoneSubmit PROVE BankInv'
<1>0. Typed /\ form \in FormType
  BY StateHas
<1>1. CanSubmit /\ SubmitTransfer /\ at = "transfer" /\ page["transfer"].phase = "ready"
  BY DEF WebSubmit, PhoneSubmit, PhoneCanSubmit, Editing
<1>2. CASE form.mode = "own"
  <2> DEFINE r == [op |-> "transfer", stage |-> "sent", from |-> form.from, to |-> form.to,
                   amount |-> form.amount]
  <2>1. /\ r \in RequestType /\ r.stage = "sent"
        /\ r.from \in Accounts /\ r.to \in Accounts /\ r.from # r.to
    BY <1>0, <1>1, <1>2 DEF CanSubmit, FormType, RequestType
  <2>2. Ask("transfer", r)
    BY <1>1, <1>2 DEF SubmitTransfer
  <2> HIDE DEF r
  <2> QED
    BY <1>1, <2>1, <2>2, AskStep
<1>3. CASE form.mode # "own"
  <2>1. Show("transfer", "recorded", "none") /\ Shown
    BY <1>1, <1>3 DEF SubmitTransfer
  <2>2. /\ UNCHANGED <<device, matter, session, layout, at, param, want, form, finish, request, balance,
                       executed, consent, loan, idp>>
        /\ page' = [page EXCEPT !["transfer"] = [phase |-> "recorded", fact |-> "none"]]
    BY <2>1 DEF Shown, Show, routeVars, bankVars
  <2> DEFINE p == [phase |-> "recorded", fact |-> "none"]
  <2>3. p \in Pages /\ p.phase = "recorded" /\ "transfer" \in Screens
    BY DEF Pages, Phases, ConsentStatuses, Screens, Private
  <2>4. page' = [page EXCEPT !["transfer"] = p]
    BY <2>2
  <2> HIDE DEF p
  <2>5. /\ page' \in [Screens -> Pages] /\ \A y \in Screens \ {"transfer"} : page'[y] = page[y]
        /\ page'["transfer"].phase = "recorded"
    BY <1>0, <2>3, <2>4, FactMoves
  <2>6. IsTrue("transfer", page["transfer"])' /\ RequestsAreSound'
    BY StateHas, <2>2, <2>5 DEF IsTrue, RequestsAreSound
  <2>7. page["transfer"].phase # "loading"
    BY <1>1
  <2> QED
    BY StateHas, <2>2, <2>3, <2>5, <2>6, <2>7, PageStep
<1> QED
  BY <1>2, <1>3

LEMMA SimpleAskStep ==
    ASSUME BankInv,
           WebRevoke \/ PhoneRevoke \/ WebScanApprove \/ PhoneScanApprove \/ WebSign \/ PhoneSign
    PROVE  BankInv'
<1>1. \A op \in {"revoke", "loan-consent", "sign"} :
         Simple(op) \in RequestType /\ Simple(op).stage = "sent" /\ Simple(op).op = op
  BY NullValues DEF Simple, NoRequest, RequestType
<1>2. CASE WebRevoke \/ PhoneRevoke
  <2>1. page["consent"].phase = "ready" /\ Ask("consent", Simple("revoke"))
    BY <1>2 DEF WebRevoke, PhoneRevoke, WebRevokeOffered, PhoneRevokeOffered, RevokeOffered
  <2> QED
    BY <1>1, <2>1, AskStep
<1>3. CASE WebScanApprove \/ PhoneScanApprove
  <2>1. page["scan"].phase = "ready" /\ Ask("scan", Simple("loan-consent"))
    BY <1>3 DEF WebScanApprove, PhoneScanApprove, WebScanOffered, PhoneScanOffered, ScanOffered
  <2> QED
    BY <1>1, <2>1, AskStep
<1>4. CASE WebSign \/ PhoneSign
  <2>1. page["offer"].phase = "ready" /\ Ask("offer", Simple("sign"))
    BY <1>4 DEF WebSign, PhoneSign, WebSignOffered, PhoneSignOffered, SignOffered
  <2> QED
    BY <1>1, <2>1, AskStep
<1> QED
  BY <1>2, <1>3, <1>4

LEMMA NewTransferStep == ASSUME BankInv, WebNewTransfer \/ PhoneNewTransfer PROVE BankInv'
<1>0. /\ Typed /\ RequestsAreSound /\ form \in FormType /\ finish \in FinishType
      /\ balance \in [Accounts -> 0..Total]
      /\ finish.ref # "none" => finish.ref \in Refs /\ idp[finish.ref] = "verified"
  BY StateHas DEF Typed
<1>1. PICK money \in [Accounts -> 0..Total] : NewTransfer(money)
  BY <1>0, NullValues DEF WebNewTransfer, PhoneNewTransfer, FormType
<1>2. /\ UNCHANGED <<device, matter, session, layout, at, param, want, finish, request, balance,
                     consent, loan, idp>>
      /\ page' = [page EXCEPT !["transfer"].phase = "ready"] /\ page["transfer"].phase \in {"done", "recorded"}
      /\ executed' = 0 /\ form' = [NoForm EXCEPT !.cached = money]
  BY <1>1 DEF NewTransfer, routeVars
<1>3. form' \in FormType
  BY <1>2, NullValues DEF NoForm, FormType
<1>4. RequestsAreSound' /\ "transfer" \in Screens /\ "ready" \in Phases
  BY <1>0, <1>2 DEF RequestsAreSound, Screens, Private, Phases
<1>5. executed' \in 0..2 /\ finish' \in FinishType /\ page["transfer"].phase # "loading"
      /\ (finish'.ref # "none" => finish'.ref \in Refs /\ idp[finish'.ref] = "verified")
  BY <1>0, <1>2
<1> QED
  BY <1>2, <1>3, <1>4, <1>5, PhaseStep

-----------------------------------------------------------------------------
(* The answers.                                                            *)

LEMMA TransferAnswerStep ==
    ASSUME BankInv, WebTransferAnswered \/ PhoneTransferAnswered
    PROVE  BankInv'
<1>0. /\ Typed /\ RequestsAreSound /\ form \in FormType /\ finish \in FinishType
      /\ balance \in [Accounts -> 0..Total] /\ executed \in 0..2
      /\ finish.ref # "none" => finish.ref \in Refs /\ idp[finish.ref] = "verified"
      /\ \A x \in Screens : IsTrue(x, page[x])
  BY StateHas DEF Typed
<1>1. /\ UNCHANGED <<device, matter, session, layout, at, param, want, finish, balance,
                     executed, consent, loan, idp>>
      /\ request.op = "transfer" /\ request' = NoRequest
  BY DEF WebTransferAnswered, PhoneTransferAnswered, TransferBack, routeVars, bankVars
<1>2. PICK phase \in TransferOutcomes :
         /\ TransferShows(phase)
         /\ form' = form \/ \E money \in {balance, NoMoney, form.cached} : form' = [form EXCEPT !.cached = money]
  <2>1. CASE WebTransferAnswered
    BY <2>1 DEF WebTransferAnswered
  <2>2. CASE PhoneTransferAnswered
    BY <2>2 DEF PhoneTransferAnswered
  <2> QED
    BY <2>1, <2>2
<1> DEFINE ph == IF page["transfer"].phase = "sent" THEN phase ELSE page["transfer"].phase
<1>3. page' = [page EXCEPT !["transfer"].phase = ph]
  BY <1>2 DEF TransferShows
<1>4. "transfer" \in Screens /\ phase \in {"ready", "done"}
      /\ (phase = "done" => request.stage = "executed")
  BY <1>2 DEF Screens, Private, TransferOutcomes
<1>5. /\ ph \in Phases /\ (ph = "done" => executed > 0)
      /\ ph = page["transfer"].phase \/ page["transfer"].phase # "loading"
  BY <1>0, <1>1, <1>4 DEF Typed, Pages, Phases, IsTrue
<1>6. form' \in FormType
  BY <1>0, <1>2, NullValues DEF FormType
<1>7. RequestsAreSound' /\ request' \in RequestType /\ request'.stage = "none"
  BY <1>1, NullValues DEF RequestsAreSound
<1> HIDE DEF ph
<1> QED
  BY <1>0, <1>1, <1>3, <1>4, <1>5, <1>6, <1>7, PhaseStep

(* The detail shows what the bank's answer was, which ends the consent, or *)
(* the consent as it is by now.                                            *)
LEMMA RevokeAnswerStep ==
    ASSUME BankInv, WebRevokeAnswered \/ PhoneRevokeAnswered
    PROVE  BankInv'
<1>0. /\ Typed /\ RequestsAreSound /\ form \in FormType /\ finish \in FinishType
      /\ executed \in 0..2 /\ idp \in IdpType /\ page \in [Screens -> Pages] /\ consent \in ConsentStatuses
      /\ finish.ref # "none" => finish.ref \in Refs /\ idp[finish.ref] = "verified"
      /\ \A x \in Screens : IsTrue(x, page[x])
  BY StateHas DEF Typed
<1>1. /\ UNCHANGED <<device, matter, session, layout, at, param, want, form, finish, balance,
                     executed, consent, loan, idp>>
      /\ request.op = "revoke" /\ request' = NoRequest
  BY DEF WebRevokeAnswered, PhoneRevokeAnswered, RevokeBack, routeVars, bankVars
<1>2. RequestsAreSound' /\ request' \in RequestType /\ request'.stage = "none" /\ "consent" \in Screens
  BY <1>1, NullValues DEF RequestsAreSound, Screens, Private
<1>3. CASE UNCHANGED page
  <2>1. IsTrue("consent", page["consent"])'
    BY <1>0, <1>1, <1>2, <1>3 DEF IsTrue
  <2> QED
    BY <1>0, <1>1, <1>2, <1>3, <2>1, PageStep
<1>4. ASSUME page["consent"].phase = "sent",
             NEW fact \in {page["consent"].fact} \cup
                          IF request.stage = "executed" THEN {"Revoked", consent} ELSE {},
             Show("consent", "ready", fact)
      PROVE  BankInv'
  <2>1. fact \in ConsentStatuses \cup LoanStatuses \cup Refs /\ (fact \in Ended => consent = fact)
    BY <1>0, <1>1, <1>2, <1>4 DEF RequestsAreSound, IsTrue, Pages, ConsentStatuses, Ended
  <2> DEFINE p == [phase |-> "ready", fact |-> fact]
  <2>2. p \in Pages /\ p.phase = "ready" /\ p.fact = fact /\ page' = [page EXCEPT !["consent"] = p]
    BY <1>4, <2>1 DEF Pages, Phases, Show
  <2> HIDE DEF p
  <2>3. /\ page' \in [Screens -> Pages] /\ \A y \in Screens \ {"consent"} : page'[y] = page[y]
        /\ page'["consent"].fact = fact
    BY <1>0, <1>2, <2>2, FactMoves
  <2>4. IsTrue("consent", page["consent"])'
    BY <1>1, <2>1, <2>3 DEF IsTrue
  <2>5. page["consent"].phase # "loading"
    BY <1>4
  <2> QED
    BY <1>0, <1>1, <1>2, <2>3, <2>4, <2>5, PageStep
<1>5. CASE WebRevokeAnswered
  BY <1>3, <1>4, <1>5 DEF WebRevokeAnswered, RevokeShows, RevokeOutcomes, Waiting
<1>6. CASE PhoneRevokeAnswered
  BY <1>3, <1>4, <1>6 DEF PhoneRevokeAnswered, RevokeShows, RevokeOutcomes, Waiting
<1> QED
  BY <1>5, <1>6

LEMMA LoanAnswerStep ==
    ASSUME BankInv,
           WebLoanConsentAnswered \/ PhoneLoanConsentAnswered \/ WebSignAnswered \/ PhoneSignAnswered
    PROVE  BankInv'
<1>0. /\ Typed /\ RequestsAreSound /\ form \in FormType /\ finish \in FinishType
      /\ executed \in 0..2 /\ idp \in IdpType /\ page \in [Screens -> Pages]
      /\ want \in Links \cup {"none"}
      /\ finish.ref # "none" => finish.ref \in Refs /\ idp[finish.ref] = "verified"
      /\ \A x \in Screens : IsTrue(x, page[x])
  BY StateHas DEF Typed
<1>1. request' = NoRequest /\ UNCHANGED <<device, matter, session, want, finish, balance, consent, loan, idp>>
  BY DEF WebLoanConsentAnswered, PhoneLoanConsentAnswered, LoanConsentAnswered, WebSignAnswered,
         PhoneSignAnswered, SignAnswered, routeVars, bankVars
<1>2. /\ RequestsAreSound' /\ request' \in RequestType /\ request'.stage = "none"
      /\ {"scan", "offer"} \subseteq Screens
  BY <1>1, NullValues DEF RequestsAreSound, Screens, Private
<1>3. ASSUME NEW x \in {"scan", "offer"}, UNCHANGED <<layout, at, param, form, executed>>,
             page' = [page EXCEPT ![x].phase = IF @ = "sent" THEN "ready" ELSE @]
      PROVE  BankInv'
  <2> DEFINE ph == IF page[x].phase = "sent" THEN "ready" ELSE page[x].phase
  <2>1. page' = [page EXCEPT ![x].phase = ph]
    BY <1>3
  <2>2. ph \in Phases /\ (ph = page[x].phase \/ page[x].phase # "loading")
    BY <1>0, <1>2 DEF Pages, Phases
  <2> HIDE DEF ph
  <2> QED
    BY <1>0, <1>1, <1>2, <1>3, <2>1, <2>2, PhaseStep
<1>4. CASE LoanConsentAnswered
  <2>1. CASE Go("offer") /\ param' = "none"
    BY <1>0, <1>1, <1>2, <2>1, GoStep
  <2>2. CASE /\ page' = [page EXCEPT !["scan"].phase = IF @ = "sent" THEN "ready" ELSE @]
             /\ UNCHANGED <<layout, at, param, form, executed>>
    BY <1>3, <2>2
  <2> QED
    BY <1>4, <2>1, <2>2 DEF LoanConsentAnswered
<1>5. CASE SignAnswered
  <2>1. UNCHANGED <<layout, at, param, form, executed>>
    BY <1>5 DEF SignAnswered, routeVars, bankVars
  <2>2. CASE UNCHANGED page
    <3>1. IsTrue("offer", page["offer"])'
      BY <1>0, <1>1, <1>2, <2>2 DEF IsTrue
    <3> QED
      BY <1>0, <1>1, <1>2, <2>1, <2>2, <3>1, PageStep DEF Loading
  <2>3. CASE page' = [page EXCEPT !["offer"].phase = IF @ = "sent" THEN "ready" ELSE @]
    BY <1>3, <2>1, <2>3
  <2> QED
    BY <1>5, <2>2, <2>3 DEF SignAnswered
<1> QED
  BY <1>4, <1>5 DEF WebLoanConsentAnswered, PhoneLoanConsentAnswered, WebSignAnswered, PhoneSignAnswered

LEMMA OfferStep == ASSUME BankInv, WebPollOffer \/ PhonePollOffer \/ OfferFails PROVE BankInv'
<1>0. /\ Typed /\ RequestsAreSound /\ form \in FormType /\ finish \in FinishType
      /\ executed \in 0..2 /\ idp \in IdpType /\ page \in [Screens -> Pages] /\ loan \in LoanStatuses
      /\ finish.ref # "none" => finish.ref \in Refs /\ idp[finish.ref] = "verified"
  BY StateHas DEF Typed
<1>1. CASE OfferFails
  <2>1. "offer" \in Screens /\ at \in {"consent", "offer"} /\ Show("offer", "failed", "none")
    BY <1>1 DEF OfferFails, Loading, Failing, Screens, Private
  <2> QED
    BY <1>0, <1>1, <2>1, ShowStep DEF OfferFails, Shown
<1>2. CASE PollOffer
  <2>1. UNCHANGED <<device, matter, session, layout, at, param, want, form, finish, request, balance,
                    executed, consent, loan, idp>>
    BY <1>2 DEF PollOffer, Shown, routeVars, bankVars
  <2> DEFINE p == [phase |-> IF page["offer"].phase = "sent" THEN page["offer"].phase ELSE "ready",
                   fact |-> loan]
  <2>2. p \in Pages /\ p.fact = loan /\ "offer" \in Screens
    BY <1>0 DEF Pages, Phases, Screens, Private
  <2>3. page' = [page EXCEPT !["offer"] = p]
    BY <1>2 DEF PollOffer
  <2> HIDE DEF p
  <2>4. /\ page' \in [Screens -> Pages] /\ \A y \in Screens \ {"offer"} : page'[y] = page[y]
        /\ page'["offer"].fact = loan
    BY <1>0, <2>2, <2>3, FactMoves
  <2>5. IsTrue("offer", page["offer"])' /\ RequestsAreSound'
    BY <1>0, <2>1, <2>4 DEF IsTrue, RequestsAreSound
  <2> QED
    BY <1>0, <2>1, <2>2, <2>4, <2>5, PageStep
<1> QED
  BY <1>1, <1>2 DEF WebPollOffer, PhonePollOffer

-----------------------------------------------------------------------------
LEMMA MovesStep == ASSUME BankInv, Moves PROVE BankInv'
<1>1. {"consent", "loan", "verify"} \subseteq Links
  BY DEF Links
<1>2. CASE OpenConsentLink \/ OpenLoanLink \/ \E r \in Refs : OpenVerifyLink(r)
  BY <1>1, <1>2, OpenLinkStep DEF OpenConsentLink, OpenLoanLink, OpenVerifyLink
<1> QED
  BY <1>2, NavigateStep, OpenScreenStep, SignOutStep, OpenWebStep DEF Moves

LEMMA BankInvStep == BankInv /\ [Next]_vars => BankInv'
<1> SUFFICES ASSUME BankInv, [Next]_vars PROVE BankInv'
  OBVIOUS
<1>1. CASE UNCHANGED vars
  <2>1. Typed /\ MoneyIsConserved /\ RequestsAreSound /\ PagesAreTrue /\ VerificationsAreReal /\ LayoutKnows
    BY TypedIsTypeOK DEF BankInv
  <2>2. Typed'
    BY <1>1, <2>1 DEF Typed, vars, routeVars, bankVars
  <2>3. TypeOK'
    BY <2>2, TypedIsTypeOK, PTL
  <2>4. MoneyIsConserved' /\ RequestsAreSound' /\ PagesAreTrue'
    BY <1>1, <2>1 DEF vars, routeVars, bankVars, MoneyIsConserved, RequestsAreSound, PagesAreTrue, IsTrue
  <2>5. VerificationsAreReal' /\ LayoutKnows'
    BY <1>1, <2>1 DEF vars, routeVars, bankVars, VerificationsAreReal, TheqaSessionIsVerified,
       LayoutKnows, Web, Phone, SignedIn
  <2> QED
    BY <2>3, <2>4, <2>5 DEF BankInv
<1>2. CASE Controls
  BY <1>2, ControlStep, SubmitStep, NewTransferStep, SimpleAskStep DEF Controls
<1>3. CASE Answers
  BY <1>3, TransferAnswerStep, RevokeAnswerStep, LoanAnswerStep, OfferStep DEF Answers
<1> QED
  BY <1>1, <1>2, <1>3, OthersStep, MovesStep, LayoutStep, SignInStep, LoadStep, BankStep DEF Next

LEMMA BankInvHolds == Spec => []BankInv
  BY BankInitially, BankInvStep, PTL DEF Spec

(* Types, for any matters at once, any total and any verifications: no     *)
(* account goes below zero, though forms compare with old balances.        *)
THEOREM BankTypeCorrect == Spec => []TypeOK
<1>1. BankInv => TypeOK
  BY DEF BankInv
<1> QED
  BY BankInvHolds, <1>1, PTL

(* Transfers move money and make none, for no form sends one from an       *)
(* account to itself.                                                      *)
THEOREM MoneyConserved == Spec => []MoneyIsConserved
<1>1. BankInv => MoneyIsConserved
  BY DEF BankInv
<1> QED
  BY BankInvHolds, <1>1, PTL

(* What a screen announces as final is what the bank has done, whichever   *)
(* answers are lost and however long a phone's tab stays mounted.          *)
THEOREM FinalScreensTrue == Spec => []FinalScreensAreTrue
<1>1. BankInv => FinalScreensAreTrue
  BY DEF BankInv, PagesAreTrue, IsTrue, Ended, FinalScreensAreTrue, Screens, Private
<1> QED
  BY BankInvHolds, <1>1, PTL

(* A session of a Theqa verification is of one the provider confirmed.     *)
THEOREM TheqaSessionsVerified == Spec => []TheqaSessionIsVerified
<1>1. BankInv => TheqaSessionIsVerified
  BY DEF BankInv, VerificationsAreReal
<1> QED
  BY BankInvHolds, <1>1, PTL

(* Once the layout has settled, a private screen has a session; on the     *)
(* site, every page that has loaded, but the two that ask nobody.          *)
THEOREM PrivateScreensNeedASession == Spec => []ScreensNeedASession
<1>1. BankInv => ScreensNeedASession
  BY BankAppsAssumption DEF BankInv, TypeOK, LayoutKnows, ScreensNeedASession, AtRest, Web, Phone
<1> QED
  BY BankInvHolds, <1>1, PTL
=============================================================================
