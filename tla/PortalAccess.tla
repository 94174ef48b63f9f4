---------------------------- MODULE PortalAccess ----------------------------
(***************************************************************************)
(* Who may use the third-party portal.  A partner asks for access, an      *)
(* administrator approves, rejects, invites or revokes in the console, and *)
(* everybody signs in through the directory (SSO).  Accounts are Keycloak  *)
(* users; their onboarding status is an attribute.                         *)
(*                                                                         *)
(* A handler looks the account up, decides, and then changes the status;   *)
(* every change reads the whole account and puts it back, so two requests  *)
(* may overwrite each other.  The session is a signed cookie, not looked   *)
(* up again; the page mirrors it from the last time it asked.              *)
(***************************************************************************)
EXTENDS Naturals, FiniteSets

CONSTANTS
    Partners,     \* people outside the bank
    Staff,        \* people whose address is an administrator's
    WritesAtOnce  \* bound: account changes under way

ASSUME AccessAssumption == Partners \cap Staff = {}

VARIABLES
    account,   \* the onboarding status of each Keycloak user
    changes,   \* changes under way, each with the status it will write
    cookie,    \* the role in each person's session cookie
    approved,  \* whom an administrator approved or invited
    viewer,    \* the person whose browser is looked at
    place,     \* the page it is on
    mirror,    \* the role the page believes in
    table      \* what its console last loaded

browserVars == <<place, mirror, table>>
accessVars == <<account, changes, cookie, approved, viewer, browserVars>>

People == Partners \cup Staff
Pages == {"landing", "login", "signup", "applications", "console"}
Places == Pages \cup {"directory"}
Statuses == {"absent", "unset", "pending", "invited", "active", "rejected", "revoked"}
Roles == {"none", "partner", "admin"}
Found(p) == account[p] # "absent"
NoTable == [p \in People |-> "absent"]
RolesForUser(p) == IF p \in Staff THEN "admin" ELSE "partner"

(* Only the viewer's pages are modelled; another person's are in any state *)
(* in which their request can be sent.                                     *)
On(p, page) == p = viewer => place = page

AccessInit ==
    /\ account = [p \in People |-> "absent"]
    /\ changes = {} /\ approved = {}
    /\ cookie = [p \in People |-> "none"]
    /\ viewer \in People
    /\ place = "landing" /\ mirror = "none" /\ table = NoTable

-----------------------------------------------------------------------------
(* Keycloak.  A change is the status it will write and what follows it: a  *)
(* revocation first disables the user, which puts the status it read back, *)
(* and then writes its own; an administrator's first sign-in starts the    *)
(* session.  No sign-in looks at whether the user is disabled.             *)

Change(p, status, then) == [who |-> p, status |-> status, then |-> then]
Ask(p, status, then) ==
    /\ Cardinality(changes) < WritesAtOnce
    /\ changes' = changes \cup {Change(p, status, then)}

StartSession(p) ==
    /\ cookie' = [cookie EXCEPT ![p] = RolesForUser(p)]
    /\ mirror' = IF p = viewer THEN RolesForUser(p) ELSE mirror
    /\ place' = IF p = viewer THEN "applications" ELSE place
    /\ table' = IF p = viewer THEN NoTable ELSE table

SetUserAttributes(c) ==
    /\ account' = [account EXCEPT ![c.who] = c.status]
    /\ changes' = (changes \ {c}) \cup
                     (IF c.then = "revoke" THEN {Change(c.who, "revoked", "done")} ELSE {})
    /\ IF c.then = "session" THEN StartSession(c.who) ELSE UNCHANGED <<cookie, browserVars>>
    /\ UNCHANGED <<approved, viewer>>

(* The handler answers with an error, or, for the status of a revoked      *)
(* account, only logs it.                                                  *)
ChangeFails(c) ==
    /\ changes' = changes \ {c}
    /\ UNCHANGED <<account, cookie, approved, viewer, browserVars>>

-----------------------------------------------------------------------------
(* Asking for access.  An active account is refused, one that waits is     *)
(* told so, any other returns to the queue.                                *)

Signup(p) ==
    /\ On(p, "signup")
    /\ \/ ~Found(p) /\ account' = [account EXCEPT ![p] = "pending"] /\ UNCHANGED changes
       \/ account[p] \in {"unset", "rejected", "revoked"} /\ Ask(p, "pending", "done") /\ UNCHANGED account
    /\ UNCHANGED <<cookie, approved, viewer, browserVars>>

-----------------------------------------------------------------------------
(* The console.  Its tables are those of the last load; the backend asks   *)
(* for the administrator role in the cookie and looks the account up anew. *)

RequireAdmin(s) == cookie[s] = "admin"
InConsole(s) == RequireAdmin(s) /\ (s = viewer => place = "console" /\ mirror = "admin")
Shows(s, p, statuses) == s = viewer => table[p] \in statuses

LoadTables ==
    /\ InConsole(viewer)
    /\ table' = account
    /\ UNCHANGED <<account, changes, cookie, approved, viewer, place, mirror>>

(* A partner signs in with the directory and is active at once; an address *)
(* of the bank's is sent a PIN first.                                      *)
SendInvite(p) == Ask(p, IF p \in Staff THEN "invited" ELSE "active", "done")

ApproveSignup(s, p) ==
    /\ InConsole(s) /\ Shows(s, p, {"pending"})
    /\ account[p] = "pending"
    /\ SendInvite(p)
    /\ approved' = approved \cup {p}
    /\ UNCHANGED <<account, cookie, viewer, browserVars>>

RejectSignup(s, p) ==
    /\ InConsole(s) /\ Shows(s, p, {"pending"}) /\ Found(p)
    /\ Ask(p, "rejected", "done")
    /\ UNCHANGED <<account, cookie, approved, viewer, browserVars>>

(* An invitation creates the account if need be.                           *)
Invite(s, p) ==
    /\ InConsole(s)
    /\ account' = [account EXCEPT ![p] = IF Found(p) THEN @ ELSE "unset"]
    /\ SendInvite(p)
    /\ approved' = approved \cup {p}
    /\ UNCHANGED <<cookie, viewer, browserVars>>

(* The console offers no row of one's own, and the backend does not check. *)
RevokePartner(s, p) ==
    /\ InConsole(s) /\ p # s /\ Shows(s, p, {"active", "invited"}) /\ Found(p)
    /\ Ask(p, account[p], "revoke")
    /\ UNCHANGED <<account, cookie, approved, viewer, browserVars>>

-----------------------------------------------------------------------------
(* Signing in with the directory.  Staff are not asked for an approval and *)
(* are made active administrators; every other account has to be active.   *)

SSOLogin ==
    /\ place = "login"
    /\ place' = "directory"
    /\ UNCHANGED <<account, changes, cookie, approved, viewer, mirror, table>>

(* Mutant of Admitted: whoever the directory knows may come in.             *)
AnyoneAdmitted(p) == Found(p)

Admitted(p) == p \in Staff \/ account[p] = "active"

SSOCallback(p) ==
    /\ On(p, "directory")
    /\ \/ /\ ~Admitted(p) /\ p = viewer
          /\ place' = "signup" /\ mirror' = cookie[p]
          /\ UNCHANGED <<account, changes, cookie, table>>
       \/ /\ Admitted(p) /\ (Found(p) => p \notin Staff \/ account[p] = "active")
          /\ account' = [account EXCEPT ![p] = "active"]
          /\ StartSession(p)
          /\ UNCHANGED changes
       \/ /\ Admitted(p) /\ Found(p) /\ p \in Staff /\ account[p] # "active"
          /\ Ask(p, "active", "session")
          /\ UNCHANGED <<account, cookie, browserVars>>
    /\ UNCHANGED <<approved, viewer>>

SSOFail ==
    /\ place = "directory"
    /\ place' = "landing" /\ mirror' = cookie[viewer]
    /\ UNCHANGED <<account, changes, cookie, approved, viewer, table>>

-----------------------------------------------------------------------------
(* The viewer moves about.  A page that is loaded asks who is signed in,   *)
(* and a request that fails says nobody; a page reached by a link of the   *)
(* app keeps the answer.                                                   *)

Visit(page) ==
    /\ place \notin {page, "directory"}
    /\ place' = page
    /\ mirror' \in {mirror, cookie[viewer], "none"}
    /\ table' = NoTable
    /\ UNCHANGED <<account, changes, cookie, approved, viewer>>

ConsoleRedirect ==
    /\ place = "console" /\ mirror # "admin"
    /\ place' = "landing" /\ table' = NoTable
    /\ UNCHANGED <<account, changes, cookie, approved, viewer, mirror>>

(* The page forgets the session also when the request fails, but then      *)
(* stays where it is.                                                      *)
Logout ==
    /\ mirror # "none" /\ place # "directory"
    /\ mirror' = "none"
    /\ \/ /\ cookie' = [cookie EXCEPT ![viewer] = "none"]
          /\ place' = "login" /\ table' = NoTable
       \/ /\ cookie' \in {cookie, [cookie EXCEPT ![viewer] = "none"]}
          /\ UNCHANGED <<place, table>>
    /\ UNCHANGED <<account, changes, approved, viewer>>

SessionExpires(p) ==
    /\ cookie[p] # "none"
    /\ cookie' = [cookie EXCEPT ![p] = "none"]
    /\ UNCHANGED <<account, changes, approved, viewer, browserVars>>

AccessNext ==
    \/ \E c \in changes : SetUserAttributes(c) \/ ChangeFails(c)
    \/ \E p \in People : Signup(p) \/ SSOCallback(p) \/ SessionExpires(p)
    \/ \E s \in Staff, p \in People :
          ApproveSignup(s, p) \/ RejectSignup(s, p) \/ Invite(s, p) \/ RevokePartner(s, p)
    \/ SSOLogin \/ SSOFail \/ LoadTables
    \/ \E page \in Pages : Visit(page)
    \/ ConsoleRedirect \/ Logout

AccessSpec == AccessInit /\ [][AccessNext]_accessVars

-----------------------------------------------------------------------------
(* Properties.                                                             *)

AccessTypeOK ==
    /\ account \in [People -> Statuses]
    /\ changes \subseteq [who : People, status : Statuses, then : {"done", "revoke", "session"}]
    /\ cookie \in [People -> Roles]
    /\ approved \subseteq People
    /\ viewer \in People /\ place \in Places /\ mirror \in Roles
    /\ table \in [People -> Statuses]

(* Nobody outside the bank gets in, and no such account becomes active,    *)
(* before an administrator approved or invited that person, whichever      *)
(* requests overwrite each other and however old the console's tables or   *)
(* an answer of the directory are.                                         *)
AccessFollowsApproval ==
    \A p \in Partners \ approved : cookie[p] = "none" /\ account[p] # "active"
=============================================================================
