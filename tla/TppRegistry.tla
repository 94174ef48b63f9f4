---------------------------- MODULE TppRegistry ----------------------------
(***************************************************************************)
(* The applications of third parties.  Registering one takes a row in the  *)
(* consent service, a Keycloak client, its secret, an entry in the memory  *)
(* of the portal's backend and an owner attribute on the client, one after *)
(* another; any of them may fail and nothing is taken back.  The memory is *)
(* lost when the backend restarts and read again from the other two.       *)
(*                                                                         *)
(* The attributes of a client are read as a whole and put back, so the     *)
(* owner, a certificate and an allowlist may overwrite each other.  One    *)
(* person's pages are modelled: the list of applications, its two dialogs, *)
(* an application's page and the console's table.                          *)
(***************************************************************************)
EXTENDS Naturals, FiniteSets

CONSTANTS
    Apps,       \* client ids the backend draws
    Owners,     \* partners with a session
    Operators,  \* administrators with a session
    PutsAtOnce  \* bound: attribute changes under way

ASSUME RegistryAssumption == Owners \cap Operators = {} /\ "nobody" \notin Owners

VARIABLES
    rows,          \* applications the consent service has, all active
    clients,       \* the Keycloak clients
    registry,      \* the backend's memory
    registrations, \* requests to register under way
    puts,          \* attribute changes under way
    suspends,      \* applications whose client a request has just disabled
    starting,      \* the backend has not read the rows since it started
    syncing,       \* rows it has still to look up
    registrant,    \* for whom each application was registered
    caller,        \* the person whose pages are looked at
    page           \* what they show

registryVars == <<rows, clients, registry, registrations, puts, suspends, starting, syncing,
                  registrant, caller, page>>

Callers == Owners \cup Operators
Nobody == "nobody"
NoApp == "no app"
NoClient == [made |-> FALSE, enabled |-> FALSE, owner |-> Nobody]
NoEntry == [known |-> FALSE, status |-> "active", owner |-> Nobody, certificate |-> FALSE]
NewEntry(owner) == [NoEntry EXCEPT !.known = TRUE, !.owner = owner]
Known(a) == registry[a].known

Screens == {"list", "form", "submitting", "credentials", "detail", "missing", "console"}
ListPage == [at |-> "list", apps |-> {}, open |-> NoApp]

RegistryInit ==
    /\ rows = {} /\ registrations = {} /\ puts = {} /\ suspends = {} /\ syncing = {}
    /\ clients = [a \in Apps |-> NoClient]
    /\ registry = [a \in Apps |-> NoEntry]
    /\ starting = TRUE
    /\ registrant = [a \in Apps |-> Nobody]
    /\ caller \in Callers
    /\ page = ListPage

-----------------------------------------------------------------------------
(* Whose application it is: the entry says, or else the client's           *)
(* attribute, which the entry then keeps.                                  *)

TppOwnerEmail(a) ==
    CASE ~Known(a) -> Nobody
      [] registry[a].owner # Nobody -> registry[a].owner
      [] OTHER -> clients[a].owner

Resolve(S) == registry' = [a \in Apps |->
    IF a \in S THEN [registry[a] EXCEPT !.owner = TppOwnerEmail(a)] ELSE registry[a]]

OwnsTPPOrAdmin(p, a) == p \in Operators \/ TppOwnerEmail(a) = p
Resolved(p, a) == Resolve(IF p \in Operators THEN {} ELSE {a})

(* A page sends its requests from where their buttons are; other people's  *)
(* requests come at any time.                                              *)
From(p, places) == p = caller => page.at \in places
OnApp(p, a) == p = caller => (page.at = "detail" /\ page.open = a)
Show(seen, shown) == page' = IF seen THEN shown ELSE page

-----------------------------------------------------------------------------
(* Registering.                                                            *)

HandleOpenCreate ==
    /\ page.at = "list"
    /\ page' = [page EXCEPT !.at = "form"]
    /\ UNCHANGED <<rows, clients, registry, registrations, puts, suspends, starting, syncing, registrant, caller>>

CloseCreate ==
    /\ page.at = "form"
    /\ page' = [page EXCEPT !.at = "list"]
    /\ UNCHANGED <<rows, clients, registry, registrations, puts, suspends, starting, syncing, registrant, caller>>

(* The backend draws a fresh id.  An administrator may register for        *)
(* somebody else.                                                          *)
Register(p, a, owner) ==
    /\ From(p, {"form"})
    /\ registrant[a] = Nobody
    /\ owner = p \/ p \in Operators
    /\ registrant' = [registrant EXCEPT ![a] = owner]
    /\ registrations' = registrations \cup {[app |-> a, seen |-> p = caller, step |-> "row"]}
    /\ Show(p = caller, [page EXCEPT !.at = "submitting"])
    /\ UNCHANGED <<rows, clients, registry, puts, suspends, starting, syncing, caller>>

Advance(r, step) == registrations' = (registrations \ {r}) \cup {[r EXCEPT !.step = step]}

RegisterWithConsentService(r) ==
    /\ r.step = "row"
    /\ rows' = rows \cup {r.app}
    /\ Advance(r, "client")
    /\ UNCHANGED <<clients, registry, puts, suspends, starting, syncing, registrant, caller, page>>

CreateClient(r) ==
    /\ r.step = "client"
    /\ clients' = [clients EXCEPT ![r.app] = [NoClient EXCEPT !.made = TRUE, !.enabled = TRUE]]
    /\ Advance(r, "secret")
    /\ UNCHANGED <<rows, registry, puts, suspends, starting, syncing, registrant, caller, page>>

(* With the secret in hand the entry is stored, and the owner's attribute  *)
(* is on its way.                                                          *)
Put(a, owner, then) == [app |-> a, owner |-> owner, then |-> then]
AskPut(a, owner, then) ==
    /\ Cardinality(puts) < PutsAtOnce
    /\ puts' = puts \cup {Put(a, owner, then)}

StoreInRegistry(r) ==
    /\ r.step = "secret"
    /\ registry' = [registry EXCEPT ![r.app] = NewEntry(registrant[r.app])]
    /\ AskPut(r.app, registrant[r.app], IF r.seen THEN "credentials" ELSE "done")
    /\ registrations' = registrations \ {r}
    /\ UNCHANGED <<rows, clients, suspends, starting, syncing, registrant, caller, page>>

(* A step fails: its effect may be there all the same.                     *)
RegistrationFails(r) ==
    /\ rows' \in {rows, IF r.step = "row" THEN rows \cup {r.app} ELSE rows}
    /\ clients' \in {clients, IF r.step = "client"
                            THEN [clients EXCEPT ![r.app] = [NoClient EXCEPT !.made = TRUE, !.enabled = TRUE]]
                            ELSE clients}
    /\ registrations' = registrations \ {r}
    /\ Show(r.seen, IF page.at = "submitting" THEN [page EXCEPT !.at = "form"] ELSE page)
    /\ UNCHANGED <<registry, puts, suspends, starting, syncing, registrant, caller>>

-----------------------------------------------------------------------------
(* The list, and an application's page.                                    *)

(* Partners get what they own, administrators everything.                  *)
ListTPPs(p) ==
    IF p \in Operators THEN {a \in Apps : Known(a)}
    ELSE {a \in Apps : Known(a) /\ TppOwnerEmail(a) = p}

(* A request that fails empties the list.                                  *)
LoadApps ==
    /\ page.at \in {"list", "credentials"}
    /\ \/ page' = [page EXCEPT !.apps = ListTPPs(caller)] /\ Resolve(IF caller \in Operators THEN {} ELSE Apps)
       \/ page' = [page EXCEPT !.apps = {}] /\ UNCHANGED registry
    /\ UNCHANGED <<rows, clients, registrations, puts, suspends, starting, syncing, registrant, caller>>

(* The console's table resolves every owner.                               *)
ListApplications ==
    /\ caller \in Operators
    /\ Resolve(Apps)
    /\ page' = [ListPage EXCEPT !.at = "console", !.apps = {a \in Apps : Known(a)}]
    /\ page.at \in {"list", "console"}
    /\ UNCHANGED <<rows, clients, registrations, puts, suspends, starting, syncing, registrant, caller>>

(* An application is opened from the list or after its credentials, and    *)
(* shown to whom it belongs.                                               *)
OpenApp(a) ==
    /\ \/ page.at = "list" /\ a \in page.apps
       \/ page.at = "credentials" /\ a = page.open
    /\ Resolved(caller, a)
    /\ page' = IF Known(a) /\ OwnsTPPOrAdmin(caller, a)
               THEN [ListPage EXCEPT !.at = "detail", !.open = a]
               ELSE [ListPage EXCEPT !.at = "missing"]
    /\ UNCHANGED <<rows, clients, registrations, puts, suspends, starting, syncing, registrant, caller>>

BackToApplications ==
    /\ page.at \in {"missing", "detail", "console"}
    /\ page' = ListPage
    /\ UNCHANGED <<rows, clients, registry, registrations, puts, suspends, starting, syncing, registrant, caller>>

-----------------------------------------------------------------------------
(* Certificates and allowlists: attributes of the client, put back with    *)
(* the owner that was read.  What is pinned and allowed is left out.       *)

HasClient(p, a) == OwnsTPPOrAdmin(p, a) /\ clients[a].made

(* Bringing a certificate asks for an entry, having one generated only for *)
(* a client.                                                               *)
PinCertToClient(p, a) ==
    /\ OnApp(p, a) /\ HasClient(p, a)
    /\ Resolved(p, a)
    /\ AskPut(a, clients[a].owner, "certificate")
    /\ UNCHANGED <<rows, clients, registrations, suspends, starting, syncing, registrant, caller, page>>

SetIPAllowlist(p, a) ==
    /\ OnApp(p, a) /\ HasClient(p, a)
    /\ Resolved(p, a)
    /\ AskPut(a, clients[a].owner, "done")
    /\ UNCHANGED <<rows, clients, registrations, suspends, starting, syncing, registrant, caller, page>>

(* The answer to a registration opens the dialog with the credentials.     *)
Answered(w) ==
    page' = IF w.then = "credentials" /\ page.at = "submitting"
            THEN [page EXCEPT !.at = "credentials", !.open = w.app] ELSE page

SetClientAttributes(w) ==
    /\ puts' = puts \ {w}
    /\ clients' = [clients EXCEPT ![w.app].owner = w.owner]
    /\ registry' = [registry EXCEPT ![w.app].certificate = @ \/ (w.then = "certificate" /\ Known(w.app))]
    /\ Answered(w)
    /\ UNCHANGED <<rows, registrations, suspends, starting, syncing, registrant, caller>>

(* A registration whose owner was not written has succeeded all the same.  *)
PutFails(w) ==
    /\ puts' = puts \ {w}
    /\ Answered(w)
    /\ UNCHANGED <<rows, clients, registry, registrations, suspends, starting, syncing, registrant, caller>>

-----------------------------------------------------------------------------
(* Suspending: the client first, the entry afterwards; the list's button   *)
(* says "delete".  The consent service is not told.                        *)

SuspendTPP(p, a) ==
    /\ p = caller => (page.at = "list" /\ a \in page.apps)
    /\ Known(a) /\ OwnsTPPOrAdmin(p, a)
    /\ Resolved(p, a)
    /\ clients' = [clients EXCEPT ![a].enabled = FALSE]
    /\ suspends' = suspends \cup {a}
    /\ UNCHANGED <<rows, registrations, puts, starting, syncing, registrant, caller, page>>

(* Revoking a partner suspends what can be suspended of what is theirs.    *)
SuspendOwnedTPPs(owner) ==
    \E S \in SUBSET {a \in Apps : Known(a) /\ TppOwnerEmail(a) = owner} :
       /\ S # {}
       /\ Resolve(Apps)
       /\ clients' = [a \in Apps |-> IF a \in S THEN [clients[a] EXCEPT !.enabled = FALSE] ELSE clients[a]]
       /\ suspends' = suspends \cup S
       /\ UNCHANGED <<rows, registrations, puts, starting, syncing, registrant, caller, page>>

Suspended(a) ==
    /\ a \in suspends
    /\ suspends' = suspends \ {a}
    /\ registry' = [registry EXCEPT ![a].status = IF Known(a) THEN "suspended" ELSE @]
    /\ UNCHANGED <<rows, clients, registrations, puts, starting, syncing, registrant, caller, page>>

(* Any update enables the client again; the entry stays suspended.         *)
UpdateTPP(p, a) ==
    /\ From(p, {}) /\ Known(a) /\ OwnsTPPOrAdmin(p, a)
    /\ Resolved(p, a)
    /\ clients' = [clients EXCEPT ![a].enabled = TRUE]
    /\ UNCHANGED <<rows, registrations, puts, suspends, starting, syncing, registrant, caller, page>>

-----------------------------------------------------------------------------
(* A restart forgets the memory and every request.  The rows are read once *)
(* in the background, and each that has a client comes back as active.     *)

Restart ==
    /\ registry' = [a \in Apps |-> NoEntry]
    /\ registrations' = {} /\ puts' = {} /\ suspends' = {} /\ syncing' = {}
    /\ starting' = TRUE
    /\ page' = IF page.at = "submitting" THEN [page EXCEPT !.at = "form"] ELSE page
    /\ UNCHANGED <<rows, clients, registrant, caller>>

SyncFromConsentService ==
    /\ starting /\ starting' = FALSE
    /\ syncing' \in {{}, rows}
    /\ UNCHANGED <<rows, clients, registry, registrations, puts, suspends, registrant, caller, page>>

(* Mutant of Recoverable: a row is enough.                                  *)
EveryRow(a) == TRUE

Recoverable(a) == clients[a].made

SyncApp(a) ==
    /\ a \in syncing /\ syncing' = syncing \ {a}
    /\ \/ UNCHANGED registry
       \/ /\ Recoverable(a)
          /\ \E owner \in {Nobody, clients[a].owner} :
                registry' = [registry EXCEPT ![a] = NewEntry(owner)]
    /\ UNCHANGED <<rows, clients, registrations, puts, suspends, starting, registrant, caller, page>>

RegistryNext ==
    \/ HandleOpenCreate \/ CloseCreate
    \/ \E p \in Callers, a \in Apps :
          \/ \E owner \in Callers : Register(p, a, owner)
          \/ PinCertToClient(p, a) \/ SetIPAllowlist(p, a)
          \/ SuspendTPP(p, a) \/ UpdateTPP(p, a)
    \/ \E r \in registrations :
          RegisterWithConsentService(r) \/ CreateClient(r) \/ StoreInRegistry(r) \/ RegistrationFails(r)
    \/ \E w \in puts : SetClientAttributes(w) \/ PutFails(w)
    \/ LoadApps \/ ListApplications \/ BackToApplications
    \/ \E a \in Apps : OpenApp(a) \/ Suspended(a) \/ SyncApp(a)
    \/ \E owner \in Owners : SuspendOwnedTPPs(owner)
    \/ Restart \/ SyncFromConsentService

RegistrySpec == RegistryInit /\ [][RegistryNext]_registryVars

-----------------------------------------------------------------------------
(* Properties.                                                             *)

RegistryTypeOK ==
    /\ rows \subseteq Apps /\ suspends \subseteq Apps /\ syncing \subseteq Apps
    /\ clients \in [Apps -> [made : BOOLEAN, enabled : BOOLEAN, owner : Callers \cup {Nobody}]]
    /\ registry \in [Apps -> [known : BOOLEAN, status : {"active", "suspended"},
                              owner : Callers \cup {Nobody}, certificate : BOOLEAN]]
    /\ registrations \subseteq [app : Apps, seen : BOOLEAN, step : {"row", "client", "secret"}]
    /\ puts \subseteq [app : Apps, owner : Callers \cup {Nobody},
                       then : {"done", "certificate", "credentials"}]
    /\ starting \in BOOLEAN /\ caller \in Callers
    /\ registrant \in [Apps -> Callers \cup {Nobody}]
    /\ page \in [at : Screens, apps : SUBSET Apps, open : Apps \cup {NoApp}]

(* Whatever fails between two steps of a registration, and however often   *)
(* the backend restarts, each application it offers has a consent service  *)
(* row and a Keycloak client and belongs to whom it was registered for, if *)
(* to anybody; and no partner's page lists another's application.          *)
RegistryIsBacked ==
    /\ \A a \in Apps : Known(a) =>
          a \in rows /\ clients[a].made /\ registry[a].owner \in {registrant[a], Nobody}
    /\ caller \in Owners => \A a \in page.apps : registrant[a] = caller
=============================================================================
