------------------------------ MODULE Showroom ------------------------------
(***************************************************************************)
(* The dealer's side of the loan API: the showroom's sale page, the SDK    *)
(* other dealers build on, and the Idempotency-Key that is to make a       *)
(* repeated creation harmless.                                             *)
(*                                                                         *)
(* Looking the key up, creating the application and storing the answer are *)
(* three transactions; the caller may have given up in between.  The sale  *)
(* page draws a fresh key for every click and polls its application until  *)
(* the status is one it believes final.  What the bank does with an        *)
(* application is LoanOrigination's subject: here its status moves on.     *)
(***************************************************************************)
EXTENDS Naturals, FiniteSets

CONSTANTS
    Applications,  \* applications that can be created
    SdkKeys,          \* idempotency keys the SDK's caller chooses
    Bodies,        \* request bodies
    CallsAtOnce    \* bound: creations under way

NoSale == "no sale"
ASSUME ShowroomAssumption == NoSale \notin Applications /\ Bodies # {}

VARIABLES
    loans,   \* each application: its status and the body that created it
    keys,    \* the stored answers of chosen keys
    calls,   \* creations under way at the loan service
    at,      \* the page the showroom's browser is on
    route,   \* the sale in the address of that page, or a car
    sale,    \* the application the sale page follows
    seen     \* the status that page last heard

showroomVars == <<loans, keys, calls, at, route, sale, seen>>

PageBody == CHOOSE body \in Bodies : TRUE
Fresh == "fresh"
Unknown == "none"
NoRow == [stored |-> FALSE, body |-> PageBody, app |-> NoSale, expired |-> FALSE]

ShowroomInit ==
    /\ loans = [a \in Applications |-> [status |-> Unknown, body |-> PageBody]]
    /\ keys = [k \in SdkKeys |-> NoRow]
    /\ calls = {}
    /\ at = "login" /\ route = NoSale /\ sale = NoSale
    /\ seen = Unknown

-----------------------------------------------------------------------------
(* The loan service.                                                       *)

(* The bank and the customer move an application on.  "pending" is waiting *)
(* for the consent or the decision, "decided" up to a signed contract.     *)
Moves == [none |-> {}, pending |-> {"decided", "declined"}, decided |-> {"disbursed"},
          disbursed |-> {}, declined |-> {}, cancelled |-> {}]

BankMoves(a) ==
    /\ \E s \in Moves[loans[a].status] : loans' = [loans EXCEPT ![a].status = s]
    /\ UNCHANGED <<keys, calls, at, route, sale, seen>>

Call(from, key, body) == [from |-> from, key |-> key, body |-> body, step |-> "lookup", app |-> NoSale]
Send(from, key, body) ==
    /\ Cardinality(calls) < CallsAtOnce
    /\ calls' = calls \cup {Call(from, key, body)}
Becomes(c, d) == calls' = (calls \ {c}) \cup {d}

(* Mutant of SameRequest: the key alone identifies a request.               *)
SameKeyIsEnough(row, c) == TRUE

SameRequest(row, c) == row.body = c.body

(* A row that has expired is not seen; one of another request is a         *)
(* conflict.                                                               *)
Lookup(c) ==
    /\ c.step = "lookup"
    /\ IF c.key \in SdkKeys /\ keys[c.key].stored /\ ~keys[c.key].expired
       THEN IF SameRequest(keys[c.key], c)
            THEN Becomes(c, [c EXCEPT !.step = "answer", !.app = keys[c.key].app])
            ELSE calls' = calls \ {c}
       ELSE Becomes(c, [c EXCEPT !.step = "create"])
    /\ UNCHANGED <<loans, keys, at, route, sale, seen>>

CreateApplication(c, a) ==
    /\ c.step = "create" /\ loans[a].status = Unknown
    /\ loans' = [loans EXCEPT ![a] = [status |-> "pending", body |-> c.body]]
    /\ Becomes(c, [c EXCEPT !.step = "store", !.app = a])
    /\ UNCHANGED <<keys, at, route, sale, seen>>

(* A row that is there stays, also one that has expired.                   *)
Store(c) ==
    /\ c.step = "store"
    /\ keys' = IF c.key \in SdkKeys /\ ~keys[c.key].stored
               THEN [keys EXCEPT ![c.key] = [stored |-> TRUE, body |-> c.body, app |-> c.app, expired |-> FALSE]]
               ELSE keys
    /\ Becomes(c, [c EXCEPT !.step = "answer"])
    /\ UNCHANGED <<loans, at, route, sale, seen>>

(* What an expired row says is never read again; that it is there counts.  *)
RowExpires(k) ==
    /\ keys[k].stored /\ ~keys[k].expired
    /\ keys' = [keys EXCEPT ![k] = [NoRow EXCEPT !.stored = TRUE, !.expired = TRUE]]
    /\ UNCHANGED <<loans, calls, at, route, sale, seen>>

(* The handler dies, or the rate limiter refuses: the caller gets an       *)
(* error, whatever was done before.                                        *)
CallFails(c) ==
    /\ calls' = calls \ {c}
    /\ UNCHANGED <<loans, keys, at, route, sale, seen>>

(* The caller gives up waiting; the handler goes on.  The SDK's caller may *)
(* send again at any time, so only the page's patience makes a difference. *)
Abandoned(c) == [c EXCEPT !.from = "sdk"]

TimesOut(c) ==
    /\ c.from = "page"
    /\ Becomes(c, Abandoned(c))
    /\ UNCHANGED <<loans, keys, at, route, sale, seen>>

(* The sale page goes on with the application it is told; its address      *)
(* still names the car.                                                    *)
Reply(c) ==
    /\ c.step = "answer"
    /\ calls' = calls \ {c}
    /\ IF c.from = "page" THEN sale' = c.app ELSE UNCHANGED sale
    /\ UNCHANGED <<loans, keys, at, route, seen>>

Cancellable(s) == s \notin {Unknown, "disbursed", "cancelled"}
CancelApplication(a) == loans' = [loans EXCEPT ![a].status = "cancelled"]

-----------------------------------------------------------------------------
(* The SDK: the caller may choose the key, and repeat it.                  *)

SdkCreateApplication(k, body) ==
    /\ Send("sdk", k, body)
    /\ UNCHANGED <<loans, keys, at, route, sale, seen>>

SdkCancelApplication(a) ==
    /\ Cancellable(loans[a].status)
    /\ CancelApplication(a)
    /\ UNCHANGED <<keys, calls, at, route, sale, seen>>

-----------------------------------------------------------------------------
(* The showroom.  A page one leaves no longer hears its answers.           *)

Leave == calls' = {IF c.from = "page" THEN Abandoned(c) ELSE c : c \in calls}
GoTo(page, app) == at' = page /\ route' = app /\ sale' = app /\ seen' = Unknown /\ Leave

Login ==
    /\ at = "login"
    /\ GoTo("inventory", NoSale)
    /\ UNCHANGED <<loans, keys>>

ShowroomLogout ==
    /\ at # "login"
    /\ GoTo("login", NoSale)
    /\ UNCHANGED <<loans, keys>>

Inventory ==
    /\ at = "inventory"
    /\ GoTo("sale", NoSale)
    /\ UNCHANGED <<loans, keys>>

(* The history lists the dealer's applications, whoever created them.      *)
History(a) ==
    /\ at = "history" /\ loans[a].status # Unknown
    /\ GoTo("sale", a)
    /\ UNCHANGED <<loans, keys>>

NavBar(page) ==
    /\ at \notin {"login", page}
    /\ GoTo(page, NoSale)
    /\ UNCHANGED <<loans, keys>>

Submitting == \E c \in calls : c.from = "page"

ConfigurePanel ==
    /\ at = "sale" /\ sale = NoSale /\ ~Submitting
    /\ Send("page", Fresh, PageBody)
    /\ UNCHANGED <<loans, keys, at, route, sale, seen>>

(* Mutant of Terminal: the page stops at the bank's decision.               *)
DecidedIsTerminal(s) == s \in {"disbursed", "declined", "expired", "cancelled", "decided"}

Terminal(s) == s \in {"disbursed", "declined", "expired", "cancelled"}

Poll ==
    /\ at = "sale" /\ sale # NoSale /\ ~Terminal(seen)
    /\ seen' = loans[sale].status
    /\ UNCHANGED <<loans, keys, calls, at, route, sale>>

(* Reloading follows the address again: a sale begun from a car is back at *)
(* its configuration.                                                      *)
Refresh ==
    /\ at = "sale"
    /\ GoTo("sale", route)
    /\ UNCHANGED <<loans, keys>>

(* A cancellation that succeeds leads to the inventory; one that is        *)
(* refused, or whose answer is lost, leaves the page as it is.             *)
StatusPanel ==
    /\ at = "sale" /\ sale # NoSale
    /\ seen # Unknown /\ ~Terminal(seen)
    /\ Cancellable(loans[sale].status)
    /\ CancelApplication(sale)
    /\ \/ GoTo("inventory", NoSale)
       \/ UNCHANGED <<at, route, sale, seen, calls>>
    /\ UNCHANGED keys

ShowroomNext ==
    \/ \E a \in Applications : BankMoves(a) \/ SdkCancelApplication(a) \/ History(a)
    \/ \E c \in calls :
          \/ Lookup(c) \/ Store(c) \/ CallFails(c) \/ TimesOut(c) \/ Reply(c)
          \/ \E a \in Applications : CreateApplication(c, a)
    \/ \E k \in SdkKeys : RowExpires(k) \/ (\E body \in Bodies : SdkCreateApplication(k, body))
    \/ Login \/ ShowroomLogout \/ Inventory
    \/ \E page \in {"inventory", "history"} : NavBar(page)
    \/ ConfigurePanel \/ Poll \/ Refresh \/ StatusPanel

ShowroomSpec == ShowroomInit /\ [][ShowroomNext]_showroomVars

-----------------------------------------------------------------------------
(* Properties.                                                             *)

ShowroomTypeOK ==
    /\ \A a \in Applications :
          /\ loans[a].status \in DOMAIN Moves /\ loans[a].body \in Bodies
    /\ \A k \in SdkKeys : (keys[k].stored /\ ~keys[k].expired) => keys[k].app \in Applications
    /\ at \in {"login", "inventory", "sale", "history"}
    /\ sale \in Applications \cup {NoSale} /\ route \in Applications \cup {NoSale}
    /\ seen \in DOMAIN Moves

(* However often requests repeat a key, race each other, die between two   *)
(* transactions or meet an expired row, a creation is answered with an     *)
(* application that its own request describes; and a page that has stopped *)
(* polling shows the status the application still has, unless a dealer     *)
(* cancelled it since.                                                     *)
SalesAreTheirOwn ==
    /\ \A c \in calls : c.step = "answer" => loans[c.app].status # Unknown /\ loans[c.app].body = c.body
    /\ at = "sale" /\ sale # NoSale /\ Terminal(seen)
          => loans[sale].status \in {seen, "cancelled"}
=============================================================================
