---------------------------- MODULE PortalProofs ----------------------------
(***************************************************************************)
(* The two stores the portal keeps beside its memory: accounts and         *)
(* clients in Keycloak, each changed by reading it whole and putting it    *)
(* back.                                                                   *)
(***************************************************************************)
EXTENDS PortalAccess, TppRegistry, TLAPS

-----------------------------------------------------------------------------
(* Nobody outside the bank gets in without an administrator.  What is seen *)
(* from outside (the status and the cookie) is not inductive: a change     *)
(* under way writes its status later, whatever has happened since.  So no  *)
(* change under way may make a person active, or start a session, whom no  *)
(* administrator has approved.                                             *)

ChangesAreApproved ==
    \A c \in changes : c.who \in Partners \ approved => c.status # "active" /\ c.then # "session"

AccessInv == AccessTypeOK /\ AccessFollowsApproval /\ ChangesAreApproved

ChangeType == [who : People, status : Statuses, then : {"done", "revoke", "session"}]

(* The account looked at has one of the statuses.                          *)
LEMMA AccessInitially == AccessInit => AccessInv
  BY DEF AccessInit, AccessInv, AccessTypeOK, AccessFollowsApproval, ChangesAreApproved, People,
         Statuses, Roles, Places, Pages, NoTable

(* Asking for a change adds one of the right shape.                        *)
LEMMA AskAdds ==
    ASSUME NEW p \in People, NEW s \in Statuses, NEW t \in {"done", "revoke", "session"},
           changes \subseteq ChangeType, Ask(p, s, t)
    PROVE  /\ changes' \subseteq ChangeType
           /\ \A c \in changes' : c \in changes \/ (c.who = p /\ c.status = s /\ c.then = t)
  BY DEF Ask, Change, ChangeType

LEMMA AccessTypeStep == AccessTypeOK /\ [AccessNext]_accessVars => AccessTypeOK'
<1> SUFFICES ASSUME AccessTypeOK, [AccessNext]_accessVars PROVE AccessTypeOK'
  OBVIOUS
<1> USE DEF AccessTypeOK
<1>p. Partners \subseteq People /\ Staff \subseteq People
  BY DEF People
<1>s. {"absent", "unset", "pending", "invited", "active", "rejected", "revoked"} = Statuses
  BY DEF Statuses
<1>r. \A p \in People : RolesForUser(p) \in Roles
  BY DEF RolesForUser, Roles
<1>w. changes \subseteq ChangeType
  BY DEF ChangeType
<1>t. NoTable \in [People -> Statuses]
  BY DEF NoTable, Statuses
<1>1. ASSUME NEW c \in changes, SetUserAttributes(c) PROVE AccessTypeOK'
  <2>c. c.who \in People /\ c.status \in Statuses
    OBVIOUS
  <2>1. account' \in [People -> Statuses]
    BY <1>1, <2>c DEF SetUserAttributes
  <2>2. changes' \subseteq ChangeType
    BY <1>1, <2>c, <1>s DEF SetUserAttributes, Change, ChangeType
  <2>3. CASE c.then = "session"
    <3>1. /\ cookie' \in [People -> Roles] /\ mirror' \in Roles /\ place' \in Places
          /\ table' \in [People -> Statuses]
      BY <1>1, <2>c, <2>3, <1>r, <1>t DEF SetUserAttributes, StartSession, Places, Pages
    <3> QED
      BY <1>1, <2>1, <2>2, <3>1 DEF SetUserAttributes, ChangeType
  <2>4. CASE c.then # "session"
    BY <1>1, <2>1, <2>2, <2>4 DEF SetUserAttributes, ChangeType, browserVars
  <2> QED
    BY <2>3, <2>4
<1>2. ASSUME NEW c \in changes, ChangeFails(c) PROVE AccessTypeOK'
  BY <1>2 DEF ChangeFails, browserVars
<1>3. ASSUME NEW p \in People, Signup(p) PROVE AccessTypeOK'
  <2>1. CASE account' = [account EXCEPT ![p] = "pending"] /\ UNCHANGED changes
    BY <1>3, <2>1, <1>s DEF Signup, browserVars
  <2>2. CASE Ask(p, "pending", "done") /\ UNCHANGED account
    <3>1. changes' \subseteq ChangeType
      BY <2>2, <1>s, <1>w, AskAdds
    <3> QED
      BY <1>3, <2>2, <3>1 DEF Signup, browserVars, ChangeType
  <2> QED
    BY <1>3, <2>1, <2>2 DEF Signup
<1>4. ASSUME NEW p \in People, SSOCallback(p) PROVE AccessTypeOK'
  <2>1. CASE place' = "signup" /\ mirror' = cookie[p] /\ UNCHANGED <<account, changes, cookie, table>>
    BY <1>4, <2>1 DEF SSOCallback, Places, Pages
  <2>2. CASE account' = [account EXCEPT ![p] = "active"] /\ StartSession(p) /\ UNCHANGED changes
    <3>1. /\ cookie' \in [People -> Roles] /\ mirror' \in Roles /\ place' \in Places
          /\ table' \in [People -> Statuses]
      BY <2>2, <1>r, <1>t DEF StartSession, Places, Pages
    <3> QED
      BY <1>4, <2>2, <3>1, <1>s DEF SSOCallback
  <2>3. CASE Ask(p, "active", "session") /\ UNCHANGED <<account, cookie, browserVars>>
    <3>1. changes' \subseteq ChangeType
      BY <2>3, <1>s, <1>w, AskAdds
    <3> QED
      BY <1>4, <2>3, <3>1 DEF SSOCallback, browserVars, ChangeType
  <2> QED
    BY <1>4, <2>1, <2>2, <2>3 DEF SSOCallback
<1>5. ASSUME NEW p \in People, SessionExpires(p) PROVE AccessTypeOK'
  BY <1>5 DEF SessionExpires, browserVars, Roles
<1>6. ASSUME NEW s \in Staff, NEW p \in People,
             ApproveSignup(s, p) \/ RejectSignup(s, p) \/ Invite(s, p) \/ RevokePartner(s, p)
      PROVE  AccessTypeOK'
  <2>1. CASE ApproveSignup(s, p)
    <3>1. changes' \subseteq ChangeType
      BY <2>1, <1>s, <1>w, AskAdds DEF ApproveSignup, SendInvite
    <3> QED
      BY <2>1, <3>1 DEF ApproveSignup, ChangeType, browserVars
  <2>2. CASE RejectSignup(s, p)
    <3>1. changes' \subseteq ChangeType
      BY <2>2, <1>s, <1>w, AskAdds DEF RejectSignup
    <3> QED
      BY <2>2, <3>1 DEF RejectSignup, ChangeType, browserVars
  <2>3. CASE Invite(s, p)
    <3>1. changes' \subseteq ChangeType
      BY <2>3, <1>s, <1>w, AskAdds DEF Invite, SendInvite
    <3>2. account' \in [People -> Statuses]
      BY <2>3, <1>s DEF Invite
    <3> QED
      BY <2>3, <3>1, <3>2 DEF Invite, ChangeType, browserVars
  <2>4. CASE RevokePartner(s, p)
    <3>1. account[p] \in Statuses
      OBVIOUS
    <3>2. changes' \subseteq ChangeType
      BY <2>4, <3>1, <1>w, AskAdds DEF RevokePartner
    <3> QED
      BY <2>4, <3>2 DEF RevokePartner, ChangeType, browserVars
  <2> QED
    BY <1>6, <2>1, <2>2, <2>3, <2>4
<1>7. CASE SSOLogin
  BY <1>7 DEF SSOLogin, Places
<1>8. CASE SSOFail
  BY <1>8 DEF SSOFail, Places, Pages
<1>9. CASE LoadTables
  BY <1>9 DEF LoadTables
<1>10. ASSUME NEW visited \in Pages, Visit(visited) PROVE AccessTypeOK'
  BY <1>10, <1>t DEF Visit, Places, Roles
<1>11. CASE ConsoleRedirect
  BY <1>11, <1>t DEF ConsoleRedirect, Places, Pages
<1>12. CASE Logout
  BY <1>12, <1>t DEF Logout, Places, Pages, Roles
<1>13. CASE UNCHANGED accessVars
  BY <1>13 DEF accessVars, browserVars
<1> QED
  BY <1>1, <1>2, <1>3, <1>4, <1>5, <1>6, <1>7, <1>8, <1>9, <1>10, <1>11, <1>12, <1>13 DEF AccessNext

LEMMA ApprovalStep ==
    AccessInv /\ [AccessNext]_accessVars => (AccessFollowsApproval /\ ChangesAreApproved)'
<1> SUFFICES ASSUME AccessInv, [AccessNext]_accessVars
             PROVE  (AccessFollowsApproval /\ ChangesAreApproved)'
  OBVIOUS
<1> USE DEF AccessInv, AccessFollowsApproval, ChangesAreApproved
<1>a. \A p \in Partners : p \notin Staff
  BY AccessAssumption
<1>s. {"absent", "unset", "pending", "invited", "active", "rejected", "revoked"} = Statuses
  BY DEF Statuses
<1>w. changes \subseteq ChangeType
  BY DEF AccessTypeOK, ChangeType
<1>f. account \in [People -> Statuses] /\ cookie \in [People -> Roles]
  BY DEF AccessTypeOK
<1>1. ASSUME NEW c \in changes, SetUserAttributes(c) PROVE (AccessFollowsApproval /\ ChangesAreApproved)'
  <2>c. c.who \in People
    BY <1>w DEF ChangeType
  <2>1. \A p \in Partners \ approved : account'[p] # "active"
    BY <1>1, <1>f, <2>c DEF SetUserAttributes, People
  <2>2. \A p \in Partners \ approved : cookie'[p] = "none"
    BY <1>1, <1>f, <2>c DEF SetUserAttributes, StartSession, People
  <2>3. ChangesAreApproved'
    BY <1>1 DEF SetUserAttributes, Change
  <2> QED
    BY <1>1, <2>1, <2>2, <2>3 DEF SetUserAttributes
<1>2. ASSUME NEW c \in changes, ChangeFails(c) PROVE (AccessFollowsApproval /\ ChangesAreApproved)'
  BY <1>2 DEF ChangeFails
<1>3. ASSUME NEW p \in People, Signup(p) PROVE (AccessFollowsApproval /\ ChangesAreApproved)'
  <2>1. CASE account' = [account EXCEPT ![p] = "pending"] /\ UNCHANGED changes
    BY <1>3, <2>1, <1>f DEF Signup, People
  <2>2. CASE Ask(p, "pending", "done") /\ UNCHANGED account
    <3>1. \A c \in changes' : c \in changes \/ (c.status = "pending" /\ c.then = "done")
      BY <2>2, <1>s, <1>w, AskAdds
    <3> QED
      BY <1>3, <2>2, <3>1 DEF Signup
  <2> QED
    BY <1>3, <2>1, <2>2 DEF Signup
<1>4. ASSUME NEW p \in People, SSOCallback(p) PROVE (AccessFollowsApproval /\ ChangesAreApproved)'
  <2>1. CASE UNCHANGED <<account, changes, cookie>>
    BY <1>4, <2>1 DEF SSOCallback
  <2>2. CASE Admitted(p) /\ account' = [account EXCEPT ![p] = "active"] /\ StartSession(p) /\ UNCHANGED changes
    <3>1. p \notin Partners \ approved
      BY <2>2, <1>a DEF Admitted
    <3>2. \A q \in Partners \ approved : account'[q] = account[q] /\ cookie'[q] = cookie[q]
      BY <2>2, <3>1, <1>f DEF StartSession, People
    <3> QED
      BY <1>4, <2>2, <3>2 DEF SSOCallback
  <2>3. CASE p \in Staff /\ Ask(p, "active", "session") /\ UNCHANGED <<account, cookie>>
    <3>1. \A c \in changes' : c \in changes \/ c.who = p
      BY <2>3, <1>s, <1>w, AskAdds
    <3> QED
      BY <1>4, <2>3, <3>1, <1>a DEF SSOCallback
  <2> QED
    BY <1>4, <2>1, <2>2, <2>3 DEF SSOCallback
<1>5. ASSUME NEW p \in People, SessionExpires(p) PROVE (AccessFollowsApproval /\ ChangesAreApproved)'
  BY <1>5, <1>f DEF SessionExpires, People
<1>6. ASSUME NEW s \in Staff, NEW p \in People,
             ApproveSignup(s, p) \/ RejectSignup(s, p) \/ Invite(s, p) \/ RevokePartner(s, p)
      PROVE  (AccessFollowsApproval /\ ChangesAreApproved)'
  <2>1. CASE ApproveSignup(s, p)
    <3>1. \A c \in changes' : c \in changes \/ c.who = p
      BY <2>1, <1>s, <1>w, AskAdds DEF ApproveSignup, SendInvite
    <3> QED
      BY <2>1, <3>1 DEF ApproveSignup
  <2>2. CASE RejectSignup(s, p)
    <3>1. \A c \in changes' : c \in changes \/ (c.status = "rejected" /\ c.then = "done")
      BY <2>2, <1>s, <1>w, AskAdds DEF RejectSignup
    <3> QED
      BY <2>2, <3>1 DEF RejectSignup
  <2>3. CASE Invite(s, p)
    <3>1. \A c \in changes' : c \in changes \/ c.who = p
      BY <2>3, <1>s, <1>w, AskAdds DEF Invite, SendInvite
    <3>2. \A q \in Partners \ approved' : account'[q] = account[q]
      BY <2>3, <1>f DEF Invite, People
    <3> QED
      BY <2>3, <3>1, <3>2 DEF Invite
  <2>4. CASE RevokePartner(s, p)
    <3>1. account[p] \in Statuses
      BY <1>f
    <3>2. \A c \in changes' : c \in changes \/ (c.who = p /\ c.status = account[p] /\ c.then = "revoke")
      BY <2>4, <3>1, <1>w, AskAdds DEF RevokePartner
    <3> QED
      BY <2>4, <3>2 DEF RevokePartner
  <2> QED
    BY <1>6, <2>1, <2>2, <2>3, <2>4
<1>7. CASE SSOLogin
  BY <1>7 DEF SSOLogin
<1>8. CASE SSOFail
  BY <1>8 DEF SSOFail
<1>9. CASE LoadTables
  BY <1>9 DEF LoadTables
<1>10. ASSUME NEW visited \in Pages, Visit(visited) PROVE (AccessFollowsApproval /\ ChangesAreApproved)'
  BY <1>10 DEF Visit
<1>11. CASE ConsoleRedirect
  BY <1>11 DEF ConsoleRedirect
<1>12. CASE Logout
  BY <1>12, <1>f DEF Logout, People
<1>13. CASE UNCHANGED accessVars
  BY <1>13 DEF accessVars
<1> QED
  BY <1>1, <1>2, <1>3, <1>4, <1>5, <1>6, <1>7, <1>8, <1>9, <1>10, <1>11, <1>12, <1>13 DEF AccessNext

LEMMA AccessStep == AccessInv /\ [AccessNext]_accessVars => AccessInv'
BY AccessTypeStep, ApprovalStep DEF AccessInv

(* For every set of partners and staff and any number of changes under     *)
(* way: nobody outside the bank is active or has a session before an       *)
(* administrator approved or invited that person.                          *)
THEOREM AccessIsApproved == AccessSpec => []AccessFollowsApproval
<1>1. AccessInv => AccessFollowsApproval
  BY DEF AccessInv
<1> QED
  BY AccessInitially, AccessStep, <1>1, PTL DEF AccessSpec

-----------------------------------------------------------------------------
(* What the portal's backend offers is backed by the consent service and   *)
(* by Keycloak and belongs to whom it was registered for.  The invariant   *)
(* says what is true between the steps of a registration, of a restart     *)
(* and of a change of attributes: an owner that is written late is never   *)
(* wrong, at worst missing, and a step has its predecessors behind it.     *)

(* An owner is the registrant, or not known; also one on its way.          *)
OwnersAreRegistrants ==
    /\ \A a \in Apps : /\ registry[a].owner \in {registrant[a], Nobody}
                       /\ clients[a].owner \in {registrant[a], Nobody}
    /\ \A w \in puts : w.owner \in {registrant[w.app], Nobody}

(* The steps of a registration, and of a restart, in their order.          *)
StepsAreBacked ==
    /\ \A a \in Apps : Known(a) => a \in rows /\ clients[a].made
    /\ \A r \in registrations : /\ r.step # "row" => r.app \in rows
                                /\ r.step = "secret" => clients[r.app].made
    /\ syncing \subseteq rows

PageIsOnesOwn == caller \in Owners => \A a \in page.apps : registrant[a] = caller

RegistryInv == RegistryTypeOK /\ OwnersAreRegistrants /\ StepsAreBacked /\ PageIsOnesOwn

EntryType == [known : BOOLEAN, status : {"active", "suspended"}, owner : Callers \cup {Nobody},
              certificate : BOOLEAN]
ClientType == [made : BOOLEAN, enabled : BOOLEAN, owner : Callers \cup {Nobody}]
RequestType == [app : Apps, seen : BOOLEAN, step : {"row", "client", "secret"}]
PutType == [app : Apps, owner : Callers \cup {Nobody}, then : {"done", "certificate", "credentials"}]
PageType == [at : Screens, apps : SUBSET Apps, open : Apps \cup {NoApp}]

USE DEF Nobody

LEMMA RegistryInitially == RegistryInit => RegistryInv
<1> SUFFICES ASSUME RegistryInit PROVE RegistryInv
  OBVIOUS
<1> USE DEF RegistryInit, NoClient, NoEntry, ListPage
<1>1. RegistryTypeOK
  BY DEF RegistryTypeOK, Screens
<1>2. OwnersAreRegistrants
  BY DEF OwnersAreRegistrants
<1>3. StepsAreBacked
  BY DEF StepsAreBacked, Known
<1>4. PageIsOnesOwn
  BY DEF PageIsOnesOwn
<1> QED
  BY <1>1, <1>2, <1>3, <1>4 DEF RegistryInv

-----------------------------------------------------------------------------
(* The helpers.                                                            *)

(* Resolving owners changes owners only, and only to what the client says. *)
LEMMA ResolveKeeps ==
    ASSUME NEW S, RegistryTypeOK, Resolve(S)
    PROVE  /\ registry' \in [Apps -> EntryType]
           /\ \A a \in Apps : /\ registry'[a].known = registry[a].known
                              /\ registry'[a].owner \in {registry[a].owner, clients[a].owner, Nobody}
<1>1. \A a \in Apps : registry[a] \in EntryType /\ clients[a] \in ClientType
  BY DEF RegistryTypeOK, EntryType, ClientType
<1>2. \A a \in Apps : TppOwnerEmail(a) \in {registry[a].owner, clients[a].owner, Nobody}
  BY DEF TppOwnerEmail
<1>3. \A a \in Apps : TppOwnerEmail(a) \in Callers \cup {Nobody}
  BY <1>1, <1>2 DEF EntryType, ClientType
<1>4. \A a \in Apps : registry'[a] = IF a \in S THEN [registry[a] EXCEPT !.owner = TppOwnerEmail(a)]
                                     ELSE registry[a]
  BY DEF Resolve
<1>5. ASSUME NEW a \in Apps
      PROVE  /\ registry'[a] \in EntryType /\ registry'[a].known = registry[a].known
             /\ registry'[a].owner \in {registry[a].owner, clients[a].owner, Nobody}
  <2>1. CASE a \in S
    <3> DEFINE e == registry[a]
               o == TppOwnerEmail(a)
    <3>1. registry'[a] = [e EXCEPT !.owner = o]
      BY <1>4, <2>1
    <3>2. e \in EntryType /\ o \in Callers \cup {Nobody}
      BY <1>1, <1>3
    <3> HIDE DEF e, o
    <3>3. /\ [e EXCEPT !.owner = o] \in EntryType
          /\ [e EXCEPT !.owner = o].known = e.known /\ [e EXCEPT !.owner = o].owner = o
      BY <3>2 DEF EntryType
    <3> QED
      BY <3>1, <3>3, <1>2 DEF e, o
  <2>2. CASE a \notin S
    BY <1>1, <1>4, <2>2
  <2> QED
    BY <2>1, <2>2
<1> QED
  BY <1>5 DEF Resolve

(* Asking for a change of attributes adds one with the given owner.        *)
LEMMA AskPutAdds ==
    ASSUME NEW a, NEW o, NEW t, AskPut(a, o, t)
    PROVE  puts' = puts \cup {[app |-> a, owner |-> o, then |-> t]}
  BY DEF AskPut, Put

-----------------------------------------------------------------------------
(* The type invariant, one step per action.                                *)

LEMMA RegistryTypeStep == RegistryTypeOK /\ [RegistryNext]_registryVars => RegistryTypeOK'
<1> SUFFICES ASSUME RegistryTypeOK, [RegistryNext]_registryVars PROVE RegistryTypeOK'
  OBVIOUS
<1>e. registry \in [Apps -> EntryType] /\ clients \in [Apps -> ClientType]
  BY DEF RegistryTypeOK, EntryType, ClientType
<1>r. registrations \subseteq RequestType /\ puts \subseteq PutType /\ page \in PageType
  BY DEF RegistryTypeOK, RequestType, PutType, PageType
<1>o. /\ rows \subseteq Apps /\ suspends \subseteq Apps /\ syncing \subseteq Apps
      /\ starting \in BOOLEAN /\ caller \in Callers /\ registrant \in [Apps -> Callers \cup {Nobody}]
  BY DEF RegistryTypeOK
<1>d. ASSUME /\ registry' \in [Apps -> EntryType] /\ clients' \in [Apps -> ClientType]
             /\ registrations' \subseteq RequestType /\ puts' \subseteq PutType /\ page' \in PageType
             /\ rows' \subseteq Apps /\ suspends' \subseteq Apps /\ syncing' \subseteq Apps
             /\ starting' \in BOOLEAN /\ caller' \in Callers
             /\ registrant' \in [Apps -> Callers \cup {Nobody}]
      PROVE  RegistryTypeOK'
  BY <1>d DEF RegistryTypeOK, EntryType, ClientType, RequestType, PutType, PageType
<1>p. ASSUME NEW a \in Apps, NEW o \in Callers \cup {Nobody},
             NEW t \in {"done", "certificate", "credentials"}, AskPut(a, o, t)
      PROVE  puts' \subseteq PutType
  BY <1>p, <1>r, AskPutAdds DEF PutType
<1>g. ASSUME NEW S, Resolve(S) PROVE registry' \in [Apps -> EntryType]
  BY <1>g, ResolveKeeps
<1>c. \A a \in Apps : clients[a].owner \in Callers \cup {Nobody}
  BY <1>e DEF ClientType
<1>l. \A p \in Callers : ListTPPs(p) \subseteq Apps
  BY DEF ListTPPs
<1>n. /\ NoEntry \in EntryType /\ \A o \in Callers \cup {Nobody} : NewEntry(o) \in EntryType
      /\ [NoClient EXCEPT !.made = TRUE, !.enabled = TRUE] \in ClientType
      /\ ListPage \in PageType
  BY DEF NoEntry, NewEntry, NoClient, ListPage, EntryType, ClientType, PageType, Screens
<1>q. ASSUME NEW s \in Screens PROVE [page EXCEPT !.at = s] \in PageType
  BY <1>r DEF PageType
<1>s. {"list", "form", "submitting", "credentials", "detail", "missing", "console"} = Screens
  BY DEF Screens
<1> HIDE DEF Nobody
<1>1. CASE HandleOpenCreate
  BY <1>1, <1>e, <1>r, <1>o, <1>d, <1>q, <1>s DEF HandleOpenCreate
<1>2. CASE CloseCreate
  BY <1>2, <1>e, <1>r, <1>o, <1>d, <1>q, <1>s DEF CloseCreate
<1>3. ASSUME NEW p \in Callers, NEW a \in Apps, NEW owner \in Callers, Register(p, a, owner)
      PROVE  RegistryTypeOK'
  <2>1. registrations' \subseteq RequestType
    <3> DEFINE seen == p = caller
    <3>1. registrations' = registrations \cup {[app |-> a, seen |-> seen, step |-> "row"]}
      BY <1>3 DEF Register
    <3>2. seen \in BOOLEAN
      OBVIOUS
    <3> HIDE DEF seen
    <3>3. [app |-> a, seen |-> seen, step |-> "row"] \in RequestType
      BY <3>2 DEF RequestType
    <3> QED
      BY <3>1, <3>3, <1>r
  <2>2. page' \in PageType
    BY <1>3, <1>r, <1>q, <1>s DEF Register, Show
  <2>3. registrant' \in [Apps -> Callers \cup {Nobody}]
    BY <1>3, <1>o DEF Register
  <2> QED
    BY <1>3, <2>1, <2>2, <2>3, <1>e, <1>r, <1>o, <1>d DEF Register
<1>4. ASSUME NEW p \in Callers, NEW a \in Apps, PinCertToClient(p, a) \/ SetIPAllowlist(p, a)
      PROVE  RegistryTypeOK'
  <2>1. puts' \subseteq PutType
    BY <1>4, <1>p, <1>c DEF PinCertToClient, SetIPAllowlist
  <2>2. registry' \in [Apps -> EntryType]
    BY <1>4, <1>g DEF PinCertToClient, SetIPAllowlist, Resolved
  <2> QED
    BY <1>4, <2>1, <2>2, <1>e, <1>r, <1>o, <1>d DEF PinCertToClient, SetIPAllowlist
<1>5. ASSUME NEW p \in Callers, NEW a \in Apps, SuspendTPP(p, a) \/ UpdateTPP(p, a)
      PROVE  RegistryTypeOK'
  <2>1. clients' \in [Apps -> ClientType]
    BY <1>5, <1>e DEF SuspendTPP, UpdateTPP, ClientType
  <2>2. registry' \in [Apps -> EntryType]
    BY <1>5, <1>g DEF SuspendTPP, UpdateTPP, Resolved
  <2>3. suspends' \subseteq Apps
    BY <1>5, <1>o DEF SuspendTPP, UpdateTPP
  <2> QED
    BY <1>5, <2>1, <2>2, <2>3, <1>e, <1>r, <1>o, <1>d DEF SuspendTPP, UpdateTPP
<1>6. ASSUME NEW r \in registrations, RegisterWithConsentService(r) \/ CreateClient(r)
      PROVE  RegistryTypeOK'
  <2>1. registrations' \subseteq RequestType
    BY <1>6, <1>r DEF RegisterWithConsentService, CreateClient, Advance, RequestType
  <2>2. r.app \in Apps
    BY <1>r DEF RequestType
  <2>3. rows' \subseteq Apps
    BY <1>6, <2>2, <1>o DEF RegisterWithConsentService, CreateClient
  <2>4. clients' \in [Apps -> ClientType]
    BY <1>6, <2>2, <1>e, <1>n DEF RegisterWithConsentService, CreateClient
  <2> QED
    BY <1>6, <2>1, <2>3, <2>4, <1>e, <1>r, <1>o, <1>d DEF RegisterWithConsentService, CreateClient
<1>7. ASSUME NEW r \in registrations, StoreInRegistry(r) PROVE RegistryTypeOK'
  <2>1. r.app \in Apps /\ registrant[r.app] \in Callers \cup {Nobody}
    BY <1>r, <1>o DEF RequestType
  <2>2. puts' \subseteq PutType
    BY <1>7, <2>1, <1>p DEF StoreInRegistry
  <2>3. registry' \in [Apps -> EntryType]
    BY <1>7, <2>1, <1>e, <1>n DEF StoreInRegistry
  <2> QED
    BY <1>7, <2>2, <2>3, <1>e, <1>r, <1>o, <1>d DEF StoreInRegistry
<1>8. ASSUME NEW r \in registrations, RegistrationFails(r) PROVE RegistryTypeOK'
  <2>1. r.app \in Apps
    BY <1>r DEF RequestType
  <2>2. rows' \subseteq Apps
    BY <1>8, <2>1, <1>o DEF RegistrationFails
  <2>3. clients' \in [Apps -> ClientType]
    BY <1>8, <2>1, <1>e, <1>n DEF RegistrationFails
  <2>4. page' \in PageType
    BY <1>8, <1>r, <1>q, <1>s DEF RegistrationFails, Show
  <2> QED
    BY <1>8, <2>2, <2>3, <2>4, <1>e, <1>r, <1>o, <1>d DEF RegistrationFails
<1>9. ASSUME NEW w \in puts, SetClientAttributes(w) \/ PutFails(w) PROVE RegistryTypeOK'
  <2>1. w.app \in Apps /\ w.owner \in Callers \cup {Nobody}
    BY <1>r DEF PutType
  <2>2. clients' \in [Apps -> ClientType]
    BY <1>9, <2>1, <1>e DEF SetClientAttributes, PutFails, ClientType
  <2>3. registry' \in [Apps -> EntryType]
    BY <1>9, <2>1, <1>e DEF SetClientAttributes, PutFails, EntryType, Known
  <2>4. page' \in PageType
    BY <1>9, <2>1, <1>r, <1>s DEF SetClientAttributes, PutFails, Answered, PageType
  <2>5. puts' \subseteq PutType
    BY <1>9, <1>r DEF SetClientAttributes, PutFails
  <2> QED
    BY <1>9, <2>2, <2>3, <2>4, <2>5, <1>e, <1>r, <1>o, <1>d DEF SetClientAttributes, PutFails
<1>10. CASE LoadApps
  <2>1. registry' \in [Apps -> EntryType]
    BY <1>10, <1>g, <1>e DEF LoadApps
  <2>2. page' \in PageType
    BY <1>10, <1>r, <1>l, <1>o DEF LoadApps, PageType
  <2> QED
    BY <1>10, <2>1, <2>2, <1>e, <1>r, <1>o, <1>d DEF LoadApps
<1>11. CASE ListApplications
  <2>1. page' \in PageType
    BY <1>11, <1>n, <1>s DEF ListApplications, PageType
  <2> QED
    BY <1>11, <2>1, <1>g, <1>e, <1>r, <1>o, <1>d DEF ListApplications
<1>12. CASE BackToApplications
  BY <1>12, <1>e, <1>r, <1>o, <1>d, <1>n DEF BackToApplications
<1>13. ASSUME NEW a \in Apps, OpenApp(a) PROVE RegistryTypeOK'
  <2>1. page' \in PageType
    BY <1>13, <1>n, <1>s DEF OpenApp, PageType
  <2>2. registry' \in [Apps -> EntryType]
    BY <1>13, <1>g DEF OpenApp, Resolved
  <2> QED
    BY <1>13, <2>1, <2>2, <1>e, <1>r, <1>o, <1>d DEF OpenApp
<1>14. ASSUME NEW a \in Apps, Suspended(a) PROVE RegistryTypeOK'
  <2>1. registry' \in [Apps -> EntryType]
    BY <1>14, <1>e DEF Suspended, EntryType
  <2> QED
    BY <1>14, <2>1, <1>e, <1>r, <1>o, <1>d DEF Suspended
<1>15. ASSUME NEW a \in Apps, SyncApp(a) PROVE RegistryTypeOK'
  <2>1. registry' \in [Apps -> EntryType]
    BY <1>15, <1>e, <1>n, <1>c DEF SyncApp
  <2> QED
    BY <1>15, <2>1, <1>e, <1>r, <1>o, <1>d DEF SyncApp
<1>16. ASSUME NEW owner \in Owners, SuspendOwnedTPPs(owner) PROVE RegistryTypeOK'
  <2> PICK S \in SUBSET {a \in Apps : Known(a) /\ TppOwnerEmail(a) = owner} :
         /\ Resolve(Apps)
         /\ clients' = [a \in Apps |-> IF a \in S THEN [clients[a] EXCEPT !.enabled = FALSE] ELSE clients[a]]
         /\ suspends' = suspends \cup S
         /\ UNCHANGED <<rows, registrations, puts, starting, syncing, registrant, caller, page>>
    BY <1>16 DEF SuspendOwnedTPPs
  <2>1. registry' \in [Apps -> EntryType]
    BY <1>g
  <2>2. clients' \in [Apps -> ClientType]
    BY <1>e DEF ClientType
  <2>3. suspends' \subseteq Apps
    BY <1>o
  <2> QED
    BY <2>1, <2>2, <2>3, <1>e, <1>r, <1>o, <1>d
<1>17. CASE Restart
  <2>1. registry' \in [Apps -> EntryType]
    BY <1>17, <1>n DEF Restart
  <2>2. page' \in PageType
    BY <1>17, <1>q, <1>s, <1>r DEF Restart
  <2> QED
    BY <1>17, <2>1, <2>2, <1>e, <1>r, <1>o, <1>d DEF Restart
<1>18. CASE SyncFromConsentService
  BY <1>18, <1>e, <1>r, <1>o, <1>d DEF SyncFromConsentService
<1>19. CASE UNCHANGED registryVars
  BY <1>19, <1>e, <1>r, <1>o, <1>d DEF registryVars
<1> QED
  BY <1>1, <1>2, <1>3, <1>4, <1>5, <1>6, <1>7, <1>8, <1>9, <1>10, <1>11, <1>12, <1>13, <1>14,
     <1>15, <1>16, <1>17, <1>18, <1>19 DEF RegistryNext

-----------------------------------------------------------------------------
(* Owners are never wrong.                                                 *)

LEMMA OwnersStep == RegistryInv /\ [RegistryNext]_registryVars => OwnersAreRegistrants'
<1> SUFFICES ASSUME RegistryInv, [RegistryNext]_registryVars PROVE OwnersAreRegistrants'
  OBVIOUS
<1>i. RegistryTypeOK /\ OwnersAreRegistrants
  BY DEF RegistryInv
<1>e. registry \in [Apps -> EntryType] /\ clients \in [Apps -> ClientType]
  BY <1>i DEF RegistryTypeOK, EntryType, ClientType
<1>r. registrations \subseteq RequestType /\ puts \subseteq PutType
  BY <1>i DEF RegistryTypeOK, RequestType, PutType
<1>o. registrant \in [Apps -> Callers \cup {Nobody}]
  BY <1>i DEF RegistryTypeOK
<1>w. /\ \A a \in Apps : /\ registry[a].owner \in {registrant[a], Nobody}
                         /\ clients[a].owner \in {registrant[a], Nobody}
      /\ \A w \in puts : w.app \in Apps /\ w.owner \in {registrant[w.app], Nobody}
  BY <1>i, <1>r DEF OwnersAreRegistrants, PutType
<1>d. ASSUME /\ \A a \in Apps : /\ registry'[a].owner \in {registrant'[a], Nobody}
                                /\ clients'[a].owner \in {registrant'[a], Nobody}
             /\ \A w \in puts' : w.owner \in {registrant'[w.app], Nobody}
      PROVE  OwnersAreRegistrants'
  BY <1>d DEF OwnersAreRegistrants
<1>p. ASSUME NEW a \in Apps, NEW o \in {registrant[a], Nobody}, NEW t, AskPut(a, o, t)
      PROVE  \A w \in puts' : w.owner \in {registrant[w.app], Nobody}
  BY <1>p, <1>w, AskPutAdds
<1>g. ASSUME NEW S, Resolve(S) PROVE \A a \in Apps : registry'[a].owner \in {registrant[a], Nobody}
  BY <1>g, <1>w, <1>i, ResolveKeeps
<1>n. /\ NoEntry.owner = Nobody /\ \A o : NewEntry(o).owner = o
      /\ [NoClient EXCEPT !.made = TRUE, !.enabled = TRUE].owner = Nobody
  BY DEF NoEntry, NewEntry, NoClient
<1> HIDE DEF Nobody
<1>1. ASSUME NEW p \in Callers, NEW a \in Apps, NEW owner \in Callers, Register(p, a, owner)
      PROVE  OwnersAreRegistrants'
  <2>1. \A b \in Apps : registrant[b] \in {registrant'[b], Nobody}
    BY <1>1, <1>o DEF Register
  <2> QED
    BY <1>1, <2>1, <1>w, <1>d DEF Register
<1>2. ASSUME NEW p \in Callers, NEW a \in Apps, PinCertToClient(p, a) \/ SetIPAllowlist(p, a)
      PROVE  OwnersAreRegistrants'
  <2>1. \A w \in puts' : w.owner \in {registrant[w.app], Nobody}
    BY <1>2, <1>p, <1>w DEF PinCertToClient, SetIPAllowlist
  <2>2. \A b \in Apps : registry'[b].owner \in {registrant[b], Nobody}
    BY <1>2, <1>g DEF PinCertToClient, SetIPAllowlist, Resolved
  <2> QED
    BY <1>2, <2>1, <2>2, <1>w, <1>d DEF PinCertToClient, SetIPAllowlist
<1>3. ASSUME NEW p \in Callers, NEW a \in Apps, SuspendTPP(p, a) \/ UpdateTPP(p, a)
      PROVE  OwnersAreRegistrants'
  <2>1. \A b \in Apps : clients'[b].owner = clients[b].owner
    BY <1>3, <1>e DEF SuspendTPP, UpdateTPP, ClientType
  <2>2. \A b \in Apps : registry'[b].owner \in {registrant[b], Nobody}
    BY <1>3, <1>g DEF SuspendTPP, UpdateTPP, Resolved
  <2> QED
    BY <1>3, <2>1, <2>2, <1>w, <1>d DEF SuspendTPP, UpdateTPP
<1>4. ASSUME NEW r \in registrations,
             RegisterWithConsentService(r) \/ CreateClient(r) \/ RegistrationFails(r)
      PROVE  OwnersAreRegistrants'
  <2>1. r.app \in Apps
    BY <1>r DEF RequestType
  <2>2. \A b \in Apps : clients'[b].owner \in {clients[b].owner, Nobody}
    BY <1>4, <2>1, <1>e, <1>n DEF RegisterWithConsentService, CreateClient, RegistrationFails
  <2> QED
    BY <1>4, <2>2, <1>w, <1>d DEF RegisterWithConsentService, CreateClient, RegistrationFails
<1>5. ASSUME NEW r \in registrations, StoreInRegistry(r) PROVE OwnersAreRegistrants'
  <2>1. r.app \in Apps
    BY <1>r DEF RequestType
  <2>2. \A w \in puts' : w.owner \in {registrant[w.app], Nobody}
    BY <1>5, <2>1, <1>p DEF StoreInRegistry
  <2>3. \A b \in Apps : registry'[b].owner \in {registrant[b], Nobody}
    BY <1>5, <2>1, <1>e, <1>n, <1>w DEF StoreInRegistry
  <2> QED
    BY <1>5, <2>2, <2>3, <1>w, <1>d DEF StoreInRegistry
<1>6. ASSUME NEW w \in puts, SetClientAttributes(w) \/ PutFails(w) PROVE OwnersAreRegistrants'
  <2>1. \A b \in Apps : clients'[b].owner \in {registrant[b], Nobody}
    BY <1>6, <1>w, <1>e DEF SetClientAttributes, PutFails, ClientType
  <2>2. \A b \in Apps : registry'[b].owner = registry[b].owner
    BY <1>6, <1>w, <1>e DEF SetClientAttributes, PutFails, EntryType
  <2> QED
    BY <1>6, <2>1, <2>2, <1>w, <1>d DEF SetClientAttributes, PutFails
<1>7. CASE LoadApps
  <2>1. \A b \in Apps : registry'[b].owner \in {registrant[b], Nobody}
    BY <1>7, <1>g, <1>w DEF LoadApps
  <2> QED
    BY <1>7, <2>1, <1>w, <1>d DEF LoadApps
<1>8. CASE ListApplications
  <2>1. \A b \in Apps : registry'[b].owner \in {registrant[b], Nobody}
    BY <1>8, <1>g DEF ListApplications
  <2> QED
    BY <1>8, <2>1, <1>w, <1>d DEF ListApplications
<1>9. ASSUME NEW a \in Apps, OpenApp(a) PROVE OwnersAreRegistrants'
  <2>1. \A b \in Apps : registry'[b].owner \in {registrant[b], Nobody}
    BY <1>9, <1>g DEF OpenApp, Resolved
  <2> QED
    BY <1>9, <2>1, <1>w, <1>d DEF OpenApp
<1>10. ASSUME NEW a \in Apps, Suspended(a) \/ SyncApp(a) PROVE OwnersAreRegistrants'
  <2>1. \A b \in Apps : registry'[b].owner \in {registrant[b], Nobody}
    BY <1>10, <1>e, <1>n, <1>w DEF Suspended, SyncApp, EntryType
  <2> QED
    BY <1>10, <2>1, <1>w, <1>d DEF Suspended, SyncApp
<1>11. ASSUME NEW owner \in Owners, SuspendOwnedTPPs(owner) PROVE OwnersAreRegistrants'
  <2> PICK S \in SUBSET {a \in Apps : Known(a) /\ TppOwnerEmail(a) = owner} :
         /\ Resolve(Apps)
         /\ clients' = [a \in Apps |-> IF a \in S THEN [clients[a] EXCEPT !.enabled = FALSE] ELSE clients[a]]
         /\ UNCHANGED <<puts, registrant>>
    BY <1>11 DEF SuspendOwnedTPPs
  <2>1. \A b \in Apps : registry'[b].owner \in {registrant[b], Nobody}
    BY <1>g
  <2>2. \A b \in Apps : clients'[b].owner = clients[b].owner
    BY <1>e DEF ClientType
  <2> QED
    BY <2>1, <2>2, <1>w, <1>d
<1>12. CASE Restart
  BY <1>12, <1>n, <1>w, <1>d DEF Restart
<1>13. CASE UNCHANGED <<registry, clients, puts, registrant>>
  BY <1>13, <1>w, <1>d
<1>14. CASE HandleOpenCreate \/ CloseCreate \/ BackToApplications \/ SyncFromConsentService
  BY <1>14, <1>13 DEF HandleOpenCreate, CloseCreate, BackToApplications, SyncFromConsentService
<1>15. CASE UNCHANGED registryVars
  BY <1>15, <1>13 DEF registryVars
<1> QED
  BY <1>1, <1>2, <1>3, <1>4, <1>5, <1>6, <1>7, <1>8, <1>9, <1>10, <1>11, <1>12, <1>14, <1>15
     DEF RegistryNext

-----------------------------------------------------------------------------
(* A step finds what the steps before it have made.                        *)

LEMMA BackedStep == RegistryInv /\ [RegistryNext]_registryVars => StepsAreBacked'
<1> SUFFICES ASSUME RegistryInv, [RegistryNext]_registryVars PROVE StepsAreBacked'
  OBVIOUS
<1>i. RegistryTypeOK /\ StepsAreBacked
  BY DEF RegistryInv
<1>e. registry \in [Apps -> EntryType] /\ clients \in [Apps -> ClientType]
  BY <1>i DEF RegistryTypeOK, EntryType, ClientType
<1>r. registrations \subseteq RequestType /\ puts \subseteq PutType
  BY <1>i DEF RegistryTypeOK, RequestType, PutType
<1>k. \A a \in Apps : registry[a].known => a \in rows /\ clients[a].made
  BY <1>i DEF StepsAreBacked, Known
<1>b. \A r \in registrations : /\ r.app \in Apps /\ (r.step # "row" => r.app \in rows)
                              /\ (r.step = "secret" => clients[r.app].made)
  BY <1>i, <1>r DEF StepsAreBacked, RequestType
<1>y. syncing \subseteq rows /\ syncing \subseteq Apps
  BY <1>i DEF StepsAreBacked, RegistryTypeOK
<1>d. ASSUME /\ \A a \in Apps : registry'[a].known => a \in rows' /\ clients'[a].made
             /\ \A r \in registrations' : /\ r.step # "row" => r.app \in rows'
                                          /\ r.step = "secret" => clients'[r.app].made
             /\ syncing' \subseteq rows'
      PROVE  StepsAreBacked'
  BY <1>d DEF StepsAreBacked, Known
<1>g. ASSUME NEW S, Resolve(S) PROVE \A a \in Apps : registry'[a].known = registry[a].known
  BY <1>g, <1>i, ResolveKeeps
<1>n. /\ ~NoEntry.known /\ [NoClient EXCEPT !.made = TRUE, !.enabled = TRUE].made
  BY DEF NoEntry, NoClient
<1>m. ASSUME \A a \in Apps : registry'[a].known = registry[a].known,
             \A a \in Apps : clients'[a].made = clients[a].made,
             UNCHANGED <<rows, registrations, syncing>>
      PROVE  StepsAreBacked'
  BY <1>m, <1>k, <1>b, <1>y, <1>d
<1>1. ASSUME NEW p \in Callers, NEW a \in Apps, NEW owner \in Callers, Register(p, a, owner)
      PROVE  StepsAreBacked'
  <2>1. \A r \in registrations' : r \in registrations \/ r.step = "row"
    BY <1>1 DEF Register
  <2> QED
    BY <1>1, <2>1, <1>k, <1>b, <1>y, <1>d DEF Register
<1>2. ASSUME NEW p \in Callers, NEW a \in Apps, PinCertToClient(p, a) \/ SetIPAllowlist(p, a)
      PROVE  StepsAreBacked'
  <2>1. \A b \in Apps : registry'[b].known = registry[b].known
    BY <1>2, <1>g DEF PinCertToClient, SetIPAllowlist, Resolved
  <2> QED
    BY <1>2, <2>1, <1>m DEF PinCertToClient, SetIPAllowlist
<1>3. ASSUME NEW p \in Callers, NEW a \in Apps, SuspendTPP(p, a) \/ UpdateTPP(p, a)
      PROVE  StepsAreBacked'
  <2>1. \A b \in Apps : registry'[b].known = registry[b].known
    BY <1>3, <1>g DEF SuspendTPP, UpdateTPP, Resolved
  <2>2. \A b \in Apps : clients'[b].made = clients[b].made
    BY <1>3, <1>e DEF SuspendTPP, UpdateTPP, ClientType
  <2> QED
    BY <1>3, <2>1, <2>2, <1>m DEF SuspendTPP, UpdateTPP
<1>4. ASSUME NEW r \in registrations, RegisterWithConsentService(r) PROVE StepsAreBacked'
  <2>1. \A q \in registrations' : q \in registrations \/ (q.app = r.app /\ q.step = "client")
    BY <1>4, <1>r DEF RegisterWithConsentService, Advance, RequestType
  <2> QED
    BY <1>4, <2>1, <1>k, <1>b, <1>y, <1>d DEF RegisterWithConsentService
<1>5. ASSUME NEW r \in registrations, CreateClient(r) PROVE StepsAreBacked'
  <2>1. \A q \in registrations' : q \in registrations \/ (q.app = r.app /\ q.step = "secret")
    BY <1>5, <1>r DEF CreateClient, Advance, RequestType
  <2>2. r.app \in Apps /\ r.app \in rows
    BY <1>5, <1>b DEF CreateClient
  <2>3. /\ clients'[r.app].made
        /\ \A b \in Apps : clients[b].made => clients'[b].made
    BY <1>5, <2>2, <1>e, <1>n DEF CreateClient
  <2>4. \A q \in registrations' : /\ q.step # "row" => q.app \in rows
                                  /\ q.step = "secret" => clients'[q.app].made
    BY <2>1, <2>2, <2>3, <1>b
  <2> QED
    BY <1>5, <2>3, <2>4, <1>k, <1>y, <1>d DEF CreateClient
<1>6. ASSUME NEW r \in registrations, RegistrationFails(r) PROVE StepsAreBacked'
  <2>1. rows \subseteq rows' /\ registrations' \subseteq registrations
    BY <1>6 DEF RegistrationFails
  <2>2. \A b \in Apps : clients[b].made => clients'[b].made
    BY <1>6, <1>b, <1>e, <1>n DEF RegistrationFails
  <2> QED
    BY <1>6, <2>1, <2>2, <1>k, <1>b, <1>y, <1>d DEF RegistrationFails
<1>7. ASSUME NEW r \in registrations, StoreInRegistry(r) PROVE StepsAreBacked'
  <2>1. r.app \in Apps /\ r.app \in rows /\ clients[r.app].made
    BY <1>7, <1>b DEF StoreInRegistry
  <2>2. \A b \in Apps : registry'[b].known => b \in rows /\ clients[b].made
    BY <1>7, <2>1, <1>e, <1>k DEF StoreInRegistry
  <2> QED
    BY <1>7, <2>2, <1>b, <1>y, <1>d DEF StoreInRegistry
<1>8. ASSUME NEW w \in puts, SetClientAttributes(w) \/ PutFails(w) PROVE StepsAreBacked'
  <2>1. \A b \in Apps : registry'[b].known = registry[b].known
    BY <1>8, <1>e DEF SetClientAttributes, PutFails, EntryType
  <2>2. \A b \in Apps : clients'[b].made = clients[b].made
    BY <1>8, <1>e DEF SetClientAttributes, PutFails, ClientType
  <2> QED
    BY <1>8, <2>1, <2>2, <1>m DEF SetClientAttributes, PutFails
<1>9. CASE LoadApps \/ ListApplications \/ \E a \in Apps : OpenApp(a)
  <2>1. \A b \in Apps : registry'[b].known = registry[b].known
    BY <1>9, <1>g DEF LoadApps, ListApplications, OpenApp, Resolved
  <2> QED
    BY <1>9, <2>1, <1>m DEF LoadApps, ListApplications, OpenApp
<1>10. ASSUME NEW a \in Apps, Suspended(a) PROVE StepsAreBacked'
  <2>1. \A b \in Apps : registry'[b].known = registry[b].known
    BY <1>10, <1>e DEF Suspended, EntryType
  <2> QED
    BY <1>10, <2>1, <1>m DEF Suspended
<1>11. ASSUME NEW a \in Apps, SyncApp(a) PROVE StepsAreBacked'
  <2>1. \A b \in Apps : registry'[b].known => b \in rows /\ clients[b].made
    BY <1>11, <1>e, <1>k, <1>y DEF SyncApp, Recoverable
  <2> QED
    BY <1>11, <2>1, <1>b, <1>y, <1>d DEF SyncApp
<1>12. ASSUME NEW owner \in Owners, SuspendOwnedTPPs(owner) PROVE StepsAreBacked'
  <2> PICK S \in SUBSET {a \in Apps : Known(a) /\ TppOwnerEmail(a) = owner} :
         /\ Resolve(Apps)
         /\ clients' = [a \in Apps |-> IF a \in S THEN [clients[a] EXCEPT !.enabled = FALSE] ELSE clients[a]]
         /\ UNCHANGED <<rows, registrations, syncing>>
    BY <1>12 DEF SuspendOwnedTPPs
  <2>1. \A b \in Apps : registry'[b].known = registry[b].known
    BY <1>g
  <2>2. \A b \in Apps : clients'[b].made = clients[b].made
    BY <1>e DEF ClientType
  <2> QED
    BY <2>1, <2>2, <1>m
<1>13. CASE Restart
  BY <1>13, <1>n, <1>d DEF Restart
<1>14. CASE SyncFromConsentService
  BY <1>14, <1>k, <1>b, <1>d DEF SyncFromConsentService
<1>15. CASE HandleOpenCreate \/ CloseCreate \/ BackToApplications
  BY <1>15, <1>m DEF HandleOpenCreate, CloseCreate, BackToApplications
<1>16. CASE UNCHANGED registryVars
  BY <1>16, <1>m DEF registryVars
<1> QED
  BY <1>1, <1>2, <1>3, <1>4, <1>5, <1>6, <1>7, <1>8, <1>9, <1>10, <1>11, <1>12, <1>13, <1>14,
     <1>15, <1>16 DEF RegistryNext

-----------------------------------------------------------------------------
(* A partner's page shows what is that partner's.                          *)

LEMMA PageStep == RegistryInv /\ [RegistryNext]_registryVars => PageIsOnesOwn'
<1> SUFFICES ASSUME RegistryInv, [RegistryNext]_registryVars, caller' \in Owners,
                    NEW a \in page'.apps
             PROVE  registrant'[a] = caller'
  BY DEF PageIsOnesOwn
<1>i. RegistryTypeOK /\ OwnersAreRegistrants /\ PageIsOnesOwn
  BY DEF RegistryInv
<1>r. page \in PageType /\ registrant \in [Apps -> Callers \cup {Nobody}]
  BY <1>i DEF RegistryTypeOK, PageType
<1>f. /\ \A s : [page EXCEPT !.at = s].apps = page.apps
      /\ \A s, b : [page EXCEPT !.at = s, !.open = b].apps = page.apps
      /\ \A S : [page EXCEPT !.apps = S].apps = S
  BY <1>r DEF PageType
<1>n. ListPage.apps = {} /\ ListPage = [at |-> "list", apps |-> {}, open |-> NoApp]
  BY DEF ListPage
<1>c. caller' = caller
  BY DEF RegistryNext, registryVars, HandleOpenCreate, CloseCreate, Register, PinCertToClient,
         SetIPAllowlist, SuspendTPP, UpdateTPP, RegisterWithConsentService, CreateClient,
         StoreInRegistry, RegistrationFails, SetClientAttributes, PutFails, LoadApps,
         ListApplications, BackToApplications, OpenApp, Suspended, SyncApp, SuspendOwnedTPPs,
         Restart, SyncFromConsentService
<1>o. caller \in Owners /\ caller \notin Operators /\ caller # Nobody
  BY <1>c, RegistryAssumption
<1>h. \A b \in page.apps : b \in Apps /\ registrant[b] = caller
  BY <1>i, <1>o, <1>r DEF PageIsOnesOwn, PageType
<1>k. ASSUME page'.apps \in {page.apps, {}}, \A b \in Apps : registrant'[b] = registrant[b]
      PROVE  registrant'[a] = caller'
  BY <1>k, <1>h, <1>c
<1>1. ASSUME NEW p \in Callers, NEW b \in Apps, NEW owner \in Callers, Register(p, b, owner)
      PROVE  registrant'[a] = caller'
  <2>1. page'.apps = page.apps
    BY <1>1, <1>f DEF Register, Show
  <2>2. a \in Apps /\ registrant[a] = caller /\ a # b
    BY <2>1, <1>1, <1>h, <1>o DEF Register
  <2> QED
    BY <1>1, <2>2, <1>c, <1>r DEF Register
<1>2. CASE LoadApps
  <2>1. CASE page' = [page EXCEPT !.apps = ListTPPs(caller)]
    <3>1. a \in Apps /\ Known(a) /\ TppOwnerEmail(a) = caller
      BY <2>1, <1>f, <1>o DEF ListTPPs
    <3>2. registrant[a] = caller
      BY <3>1, <1>i, <1>o DEF TppOwnerEmail, OwnersAreRegistrants
    <3> QED
      BY <1>2, <3>2, <1>c DEF LoadApps
  <2>2. CASE page' = [page EXCEPT !.apps = {}]
    BY <2>2, <1>f
  <2> QED
    BY <1>2, <2>1, <2>2 DEF LoadApps
<1>3. CASE ListApplications
  BY <1>3, <1>o DEF ListApplications
<1>4. ASSUME NEW b \in Apps, OpenApp(b) PROVE registrant'[a] = caller'
  <2>1. page'.apps = {}
    BY <1>4, <1>n DEF OpenApp
  <2> QED
    BY <2>1
<1>5. CASE HandleOpenCreate \/ CloseCreate \/ BackToApplications
  BY <1>5, <1>f, <1>n, <1>k DEF HandleOpenCreate, CloseCreate, BackToApplications
<1>6. ASSUME NEW r \in registrations, RegistrationFails(r) PROVE registrant'[a] = caller'
  BY <1>6, <1>f, <1>k DEF RegistrationFails, Show
<1>7. ASSUME NEW w \in puts, SetClientAttributes(w) \/ PutFails(w) PROVE registrant'[a] = caller'
  <2>0. Answered(w)
    BY <1>7 DEF SetClientAttributes, PutFails
  <2>1. page'.apps = page.apps
    BY <2>0, <1>f DEF Answered
  <2>2. registrant' = registrant
    BY <1>7 DEF SetClientAttributes, PutFails
  <2> QED
    BY <2>1, <2>2, <1>k
<1>8. CASE Restart
  BY <1>8, <1>f, <1>k DEF Restart
<1>9. CASE UNCHANGED <<page, registrant>>
  BY <1>9, <1>k
<1>10. ASSUME NEW p \in Callers, NEW b \in Apps,
              PinCertToClient(p, b) \/ SetIPAllowlist(p, b) \/ SuspendTPP(p, b) \/ UpdateTPP(p, b)
       PROVE  registrant'[a] = caller'
  BY <1>10, <1>9 DEF PinCertToClient, SetIPAllowlist, SuspendTPP, UpdateTPP
<1>11. ASSUME NEW r \in registrations,
              RegisterWithConsentService(r) \/ CreateClient(r) \/ StoreInRegistry(r)
       PROVE  registrant'[a] = caller'
  BY <1>11, <1>9 DEF RegisterWithConsentService, CreateClient, StoreInRegistry
<1>12. CASE \/ \E b \in Apps : Suspended(b) \/ SyncApp(b)
            \/ \E owner \in Owners : SuspendOwnedTPPs(owner)
            \/ SyncFromConsentService
  BY <1>12, <1>9 DEF Suspended, SyncApp, SuspendOwnedTPPs, SyncFromConsentService
<1>13. CASE UNCHANGED registryVars
  BY <1>13, <1>9 DEF registryVars
<1> QED
  BY <1>1, <1>2, <1>3, <1>4, <1>5, <1>6, <1>7, <1>8, <1>10, <1>11, <1>12, <1>13 DEF RegistryNext

-----------------------------------------------------------------------------
LEMMA RegistryStep == RegistryInv /\ [RegistryNext]_registryVars => RegistryInv'
<1> SUFFICES ASSUME RegistryInv, [RegistryNext]_registryVars PROVE RegistryInv'
  OBVIOUS
<1>1. RegistryTypeOK
  BY DEF RegistryInv
<1> QED
  BY <1>1, RegistryTypeStep, OwnersStep, BackedStep, PageStep DEF RegistryInv

(* For any applications, owners and operators, and any number of changes   *)
(* under way: what the backend offers is backed and belongs to whom it was *)
(* registered for, whatever step of a registration fails and whenever the  *)
(* backend restarts, and a partner's list holds that partner's own.        *)
THEOREM RegistryBacked == RegistrySpec => []RegistryIsBacked
<1>1. RegistryInv => RegistryIsBacked
  BY DEF RegistryInv, RegistryIsBacked, OwnersAreRegistrants, StepsAreBacked, PageIsOnesOwn
<1> QED
  BY RegistryInitially, RegistryStep, <1>1, PTL DEF RegistrySpec
=============================================================================
