---------------------------- MODULE ClientProofs ----------------------------
(***************************************************************************)
(* The dealer's page never follows another's sale, and an app never holds  *)
(* a consent nobody granted.  The answer is given several steps before it  *)
(* is used, so the invariants speak of what is on its way: a creation      *)
(* between its transactions and a stored key; a consent in a sign-in, an   *)
(* exchange or an update of a record that has not arrived yet.             *)
(***************************************************************************)
EXTENDS MCClients, PortalProofs, StatementProofs

-----------------------------------------------------------------------------
(* The showroom.  An application that once was created keeps its body and  *)
(* is never again unknown.                                                 *)

Made(a, body) == a \in Applications /\ loans[a].status # Unknown /\ loans[a].body = body

LoanType == [status : DOMAIN Moves, body : Bodies]
RowType == [stored : BOOLEAN, body : Bodies, app : Applications \cup {NoSale}, expired : BOOLEAN]
CallType == [from : {"page", "sdk"}, key : SdkKeys \cup {Fresh}, body : Bodies,
             step : {"lookup", "create", "store", "answer"}, app : Applications \cup {NoSale}]

ShowroomTypes ==
    /\ loans \in [Applications -> LoanType]
    /\ keys \in [SdkKeys -> RowType]
    /\ calls \subseteq CallType
    /\ at \in {"login", "inventory", "sale", "history"}
    /\ sale \in Applications \cup {NoSale} /\ route \in Applications \cup {NoSale}
    /\ seen \in DOMAIN Moves

(* What a call has created, and what a key remembers, is as requested.     *)
CreationsAreTheirOwn ==
    /\ \A c \in calls : c.step \in {"store", "answer"} => Made(c.app, c.body)
    /\ \A k \in SdkKeys : keys[k].stored /\ ~keys[k].expired => Made(keys[k].app, keys[k].body)

(* The page waits for one creation at a time and has heard nothing before  *)
(* it follows an application.                                              *)
PageFollowsOne ==
    /\ \A c, d \in calls : c.from = "page" /\ d.from = "page" => c = d
    /\ \A c \in calls : c.from = "page" => sale = NoSale
    /\ sale = NoSale => seen = Unknown
    /\ Terminal(seen) => loans[sale].status \in {seen, "cancelled"}

ShowroomInv == ShowroomTypes /\ CreationsAreTheirOwn /\ PageFollowsOne

LEMMA ShowroomInitially == ShowroomInit => ShowroomInv
<1> SUFFICES ASSUME ShowroomInit PROVE ShowroomInv
  OBVIOUS
<1>1. PageBody \in Bodies
  BY ShowroomAssumption DEF PageBody
<1>2. Unknown \in DOMAIN Moves /\ ~Terminal(Unknown)
  BY DEF Unknown, Moves, Terminal
<1>3. ShowroomTypes
  BY <1>1, <1>2 DEF ShowroomInit, ShowroomTypes, LoanType, RowType, NoRow
<1>4. CreationsAreTheirOwn
  BY DEF ShowroomInit, CreationsAreTheirOwn, NoRow
<1>5. PageFollowsOne
  BY <1>2 DEF ShowroomInit, PageFollowsOne
<1> QED
  BY <1>3, <1>4, <1>5 DEF ShowroomInv

(* The bank, a cancellation and a creation leave what was made as it was,  *)
(* and a status that ends an application but for a cancellation.           *)
LoansMoveOn ==
    /\ loans' \in [Applications -> LoanType]
    /\ \A a \in Applications : loans[a].status # Unknown =>
          loans'[a].status # Unknown /\ loans'[a].body = loans[a].body
    /\ \A a \in Applications : Terminal(loans[a].status) =>
          loans'[a].status \in {loans[a].status, "cancelled"}
    /\ \A a \in Applications : loans[a].status = "cancelled" => loans'[a].status = "cancelled"

LEMMA MovesOn ==
    ASSUME ShowroomTypes,
           \/ loans' = loans
           \/ \E a \in Applications :
                 \/ \E s \in Moves[loans[a].status] : loans' = [loans EXCEPT ![a].status = s]
                 \/ Cancellable(loans[a].status) /\ CancelApplication(a)
                 \/ \E b \in Bodies : /\ loans[a].status = Unknown
                                      /\ loans' = [loans EXCEPT ![a] = [status |-> "pending", body |-> b]]
    PROVE  LoansMoveOn
<1>t. loans \in [Applications -> LoanType]
  BY DEF ShowroomTypes
<1>s. DOMAIN Moves = {"none", "pending", "decided", "disbursed", "declined", "cancelled"}
  BY DEF Moves
<1>1. CASE loans' = loans
  BY <1>1, <1>t DEF LoansMoveOn
<1>2. ASSUME NEW a \in Applications, NEW s \in Moves[loans[a].status],
             loans' = [loans EXCEPT ![a].status = s]
      PROVE  LoansMoveOn
  <2>1. s \in DOMAIN Moves /\ s # Unknown /\ loans[a].status \in {"pending", "decided"}
    BY <1>2, <1>t, <1>s DEF Moves, LoanType, Unknown
  <2> QED
    BY <1>2, <2>1, <1>t DEF LoansMoveOn, LoanType, Terminal
<1>3. ASSUME NEW a \in Applications, Cancellable(loans[a].status), CancelApplication(a)
      PROVE  LoansMoveOn
  BY <1>3, <1>t, <1>s DEF LoansMoveOn, LoanType, Terminal, Cancellable, CancelApplication, Unknown
<1>4. ASSUME NEW a \in Applications, NEW b \in Bodies, loans[a].status = Unknown,
             loans' = [loans EXCEPT ![a] = [status |-> "pending", body |-> b]]
      PROVE  LoansMoveOn
  BY <1>4, <1>t, <1>s DEF LoansMoveOn, LoanType, Terminal, Unknown
<1> QED
  BY <1>1, <1>2, <1>3, <1>4

(* When applications move on, the rest follows from what happens to the    *)
(* calls, the keys and the page.                                           *)
LEMMA MadeStays ==
    ASSUME LoansMoveOn, NEW a, NEW b, Made(a, b)
    PROVE  Made(a, b)'
  BY DEF LoansMoveOn, Made

LEMMA CreationsStay ==
    ASSUME CreationsAreTheirOwn, LoansMoveOn,
           \A c \in calls' : \/ c.step \in {"store", "answer"} => Made(c.app, c.body)
                             \/ c.step \in {"store", "answer"} => Made(c.app, c.body)',
           \A k \in SdkKeys : \/ keys'[k] = keys[k] \/ keys'[k].expired
                              \/ Made(keys'[k].app, keys'[k].body)
    PROVE  CreationsAreTheirOwn'
  BY MadeStays DEF CreationsAreTheirOwn

LEMMA PageStays ==
    ASSUME ShowroomTypes, PageFollowsOne, LoansMoveOn, UNCHANGED <<sale, seen>>,
           \A c \in calls' : c.from = "page" => \E d \in calls : d.from = "page" /\
                                 (c = d \/ (d \notin calls' /\ \A e \in calls' : e.from = "page" => e = c))
    PROVE  PageFollowsOne'
<1>1. sale = NoSale => ~Terminal(seen)
  BY DEF PageFollowsOne, Terminal, Unknown
<1>2. Terminal(seen) => loans'[sale].status \in {seen, "cancelled"}
  BY <1>1 DEF PageFollowsOne, LoansMoveOn, Terminal, ShowroomTypes
<1> QED
  BY <1>2 DEF PageFollowsOne

(* A page one leaves hears no answer and has heard nothing.                *)
LEMMA PageLeft ==
    ASSUME ShowroomTypes, CreationsAreTheirOwn, LoansMoveOn, UNCHANGED keys,
           NEW p \in {"login", "inventory", "sale", "history"}, NEW a \in Applications \cup {NoSale},
           GoTo(p, a)
    PROVE  ShowroomInv'
<1>1. \A c \in calls' : /\ c \in CallType /\ c.from # "page"
                        /\ \E d \in calls : c.step = d.step /\ c.app = d.app /\ c.body = d.body
  <2>1. \A d \in CallType : /\ Abandoned(d) \in CallType /\ Abandoned(d).from = "sdk"
                            /\ Abandoned(d).step = d.step /\ Abandoned(d).app = d.app
                            /\ Abandoned(d).body = d.body
    BY DEF Abandoned, CallType
  <2> QED
    BY <2>1 DEF GoTo, Leave, ShowroomTypes
<1>2. Unknown \in DOMAIN Moves /\ ~Terminal(Unknown)
  BY DEF Unknown, Moves, Terminal
<1>3. ShowroomTypes'
  BY <1>1, <1>2 DEF ShowroomTypes, LoansMoveOn, GoTo
<1>4. CreationsAreTheirOwn'
  <2>1. \A c \in calls' : c.step \in {"store", "answer"} => Made(c.app, c.body)
    BY <1>1 DEF CreationsAreTheirOwn
  <2> QED
    BY <2>1, CreationsStay
<1>5. PageFollowsOne'
  BY <1>1, <1>2 DEF PageFollowsOne, GoTo, Terminal
<1> QED
  BY <1>3, <1>4, <1>5 DEF ShowroomInv

(* A step of one call.                                                     *)
LEMMA CallStep ==
    ASSUME ShowroomInv, NEW c \in calls, NEW d \in CallType, calls' = (calls \ {c}) \cup {d},
           d.from = "page" => c.from = "page",
           LoansMoveOn, UNCHANGED <<at, route, sale, seen>>, keys' \in [SdkKeys -> RowType],
           \/ d.step \in {"store", "answer"} => Made(d.app, d.body)
           \/ d.step \in {"store", "answer"} => Made(d.app, d.body)',
           \A k \in SdkKeys : keys'[k] = keys[k] \/ keys'[k].expired \/ Made(keys'[k].app, keys'[k].body)
    PROVE  ShowroomInv'
<1>1. ShowroomTypes /\ CreationsAreTheirOwn /\ PageFollowsOne
  BY DEF ShowroomInv
<1>2. ShowroomTypes'
  BY <1>1 DEF ShowroomTypes, LoansMoveOn
<1>3. CreationsAreTheirOwn'
  <2>1. \A e \in calls' : \/ e.step \in {"store", "answer"} => Made(e.app, e.body)
                          \/ e.step \in {"store", "answer"} => Made(e.app, e.body)'
    BY <1>1 DEF CreationsAreTheirOwn
  <2> QED
    BY <1>1, <2>1, CreationsStay
<1>4. PageFollowsOne'
  <2>1. \A e \in calls' : e.from = "page" => e \in calls \/ (e = d /\ c.from = "page")
    OBVIOUS
  <2>2. c.from = "page" => \A e \in calls' : e.from = "page" => e = d
    BY <1>1 DEF PageFollowsOne
  <2>3. CASE d.from = "page"
    <3>1. \A e \in calls' : e.from = "page" => e = d
      BY <2>2, <2>3
    <3>2. Terminal(seen) => FALSE
      BY <2>3, <1>1 DEF PageFollowsOne, Terminal, Unknown
    <3> QED
      BY <3>1, <3>2, <2>3, <1>1 DEF PageFollowsOne
  <2>4. CASE d.from # "page"
    <3>1. \A e \in calls' : e.from = "page" => e \in calls
      BY <2>4
    <3> QED
      BY <3>1, <1>1, PageStays
  <2> QED
    BY <2>3, <2>4
<1> QED
  BY <1>2, <1>3, <1>4 DEF ShowroomInv

(* A call ends, or the SDK adds one.                                       *)
LEMMA CallsElsewhere ==
    ASSUME ShowroomInv, calls' \subseteq CallType,
           \A c \in calls' : c \in calls \/ (c.from = "sdk" /\ c.step = "lookup"),
           LoansMoveOn, UNCHANGED <<at, route, sale, seen>>, keys' \in [SdkKeys -> RowType],
           \A k \in SdkKeys : keys'[k] = keys[k] \/ keys'[k].expired
    PROVE  ShowroomInv'
<1>1. ShowroomTypes /\ CreationsAreTheirOwn /\ PageFollowsOne
  BY DEF ShowroomInv
<1>2. ShowroomTypes'
  BY <1>1 DEF ShowroomTypes, LoansMoveOn
<1>3. CreationsAreTheirOwn'
  <2>1. \A c \in calls' : c.step \in {"store", "answer"} => Made(c.app, c.body)
    BY <1>1 DEF CreationsAreTheirOwn
  <2> QED
    BY <1>1, <2>1, CreationsStay
<1>4. PageFollowsOne'
  <2>1. \A c \in calls' : c.from = "page" => c \in calls
    OBVIOUS
  <2> QED
    BY <2>1, <1>1, PageStays
<1> QED
  BY <1>2, <1>3, <1>4 DEF ShowroomInv

-----------------------------------------------------------------------------
LEMMA LookupStep == ASSUME ShowroomInv, NEW c \in calls, Lookup(c) PROVE ShowroomInv'
<1>1. ShowroomTypes /\ CreationsAreTheirOwn /\ c \in CallType
  BY DEF ShowroomInv, ShowroomTypes
<1>2. LoansMoveOn /\ keys' = keys /\ keys \in [SdkKeys -> RowType]
  BY <1>1, MovesOn DEF Lookup, ShowroomTypes
<1>3. CASE calls' = calls \ {c}
  <2>1. calls' \subseteq CallType
    BY <1>3, <1>1 DEF ShowroomTypes
  <2> QED
    BY <1>3, <1>2, <2>1, CallsElsewhere DEF Lookup
<1>4. CASE Becomes(c, [c EXCEPT !.step = "create"])
  <2> DEFINE d == [c EXCEPT !.step = "create"]
  <2>1. d \in CallType /\ d.from = c.from /\ d.step = "create"
    BY <1>1 DEF CallType
  <2>2. calls' = (calls \ {c}) \cup {d}
    BY <1>4 DEF Becomes
  <2> HIDE DEF d
  <2> QED
    BY <2>1, <2>2, <1>2, CallStep DEF Lookup
<1>5. ASSUME c.key \in SdkKeys, keys[c.key].stored, ~keys[c.key].expired, SameRequest(keys[c.key], c),
             Becomes(c, [c EXCEPT !.step = "answer", !.app = keys[c.key].app])
      PROVE  ShowroomInv'
  <2> DEFINE d == [c EXCEPT !.step = "answer", !.app = keys[c.key].app]
  <2>1. Made(keys[c.key].app, keys[c.key].body) /\ keys[c.key].app \in Applications
    BY <1>5, <1>1 DEF CreationsAreTheirOwn, Made
  <2>2. /\ d \in CallType /\ d.from = c.from /\ d.step = "answer" /\ d.body = c.body
        /\ d.app = keys[c.key].app
    BY <1>1, <2>1 DEF CallType
  <2>3. calls' = (calls \ {c}) \cup {d}
    BY <1>5 DEF Becomes
  <2> HIDE DEF d
  <2>4. Made(d.app, d.body)
    BY <1>5, <2>1, <2>2 DEF SameRequest
  <2> QED
    BY <2>2, <2>3, <2>4, <1>2, CallStep DEF Lookup
<1> QED
  BY <1>3, <1>4, <1>5 DEF Lookup

LEMMA CreateStep ==
    ASSUME ShowroomInv, NEW c \in calls, NEW a \in Applications, CreateApplication(c, a)
    PROVE  ShowroomInv'
<1>1. ShowroomTypes /\ c \in CallType
  BY DEF ShowroomInv, ShowroomTypes
<1>2. c.body \in Bodies
  BY <1>1 DEF CallType
<1>3. LoansMoveOn /\ keys' = keys /\ keys \in [SdkKeys -> RowType]
  BY <1>1, <1>2, MovesOn DEF CreateApplication, ShowroomTypes
<1> DEFINE d == [c EXCEPT !.step = "store", !.app = a]
<1>4. d \in CallType /\ d.from = c.from /\ d.step = "store" /\ d.body = c.body /\ d.app = a
  BY <1>1 DEF CallType
<1>5. calls' = (calls \ {c}) \cup {d}
  BY DEF CreateApplication, Becomes
<1> HIDE DEF d
<1>6. Made(d.app, d.body)'
  BY <1>1, <1>4 DEF CreateApplication, Made, ShowroomTypes, Unknown
<1> QED
  BY <1>3, <1>4, <1>5, <1>6, CallStep DEF CreateApplication

LEMMA StoreStep == ASSUME ShowroomInv, NEW c \in calls, Store(c) PROVE ShowroomInv'
<1>1. ShowroomTypes /\ CreationsAreTheirOwn /\ c \in CallType
  BY DEF ShowroomInv, ShowroomTypes
<1>2. LoansMoveOn
  BY <1>1, MovesOn DEF Store
<1> DEFINE d == [c EXCEPT !.step = "answer"]
<1>3. d \in CallType /\ d.from = c.from /\ d.step = "answer" /\ d.body = c.body /\ d.app = c.app
  BY <1>1 DEF CallType
<1>4. calls' = (calls \ {c}) \cup {d}
  BY DEF Store, Becomes
<1> HIDE DEF d
<1>5. Made(c.app, c.body)
  BY <1>1 DEF Store, CreationsAreTheirOwn
<1>6. [stored |-> TRUE, body |-> c.body, app |-> c.app, expired |-> FALSE] \in RowType
  BY <1>1 DEF CallType, RowType
<1>7. /\ keys' \in [SdkKeys -> RowType]
      /\ \A k \in SdkKeys : keys'[k] = keys[k] \/ keys'[k].expired \/ Made(keys'[k].app, keys'[k].body)
  <2>1. CASE keys' = keys
    BY <2>1, <1>1 DEF ShowroomTypes
  <2>2. CASE keys' = [keys EXCEPT ![c.key] = [stored |-> TRUE, body |-> c.body, app |-> c.app,
                                              expired |-> FALSE]]
    BY <2>2, <1>1, <1>5, <1>6 DEF ShowroomTypes
  <2> QED
    BY <2>1, <2>2 DEF Store
<1> QED
  BY <1>2, <1>3, <1>4, <1>5, <1>7, CallStep DEF Store

LEMMA ReplyStep == ASSUME ShowroomInv, NEW c \in calls, Reply(c) PROVE ShowroomInv'
<1>1. ShowroomTypes /\ CreationsAreTheirOwn /\ PageFollowsOne
  BY DEF ShowroomInv
<1>2. /\ LoansMoveOn /\ keys' = keys /\ keys \in [SdkKeys -> RowType] /\ calls' = calls \ {c}
      /\ UNCHANGED <<at, route, seen>>
  BY <1>1, MovesOn DEF Reply, ShowroomTypes
<1>3. CASE c.from # "page"
  <2>1. calls' \subseteq CallType /\ sale' = sale
    BY <1>1, <1>2, <1>3 DEF ShowroomTypes, Reply
  <2> QED
    BY <1>2, <2>1, CallsElsewhere
<1>4. CASE c.from = "page"
  <2>1. Made(c.app, c.body) /\ sale' = c.app /\ c.app \in Applications
    BY <1>1, <1>4 DEF Reply, CreationsAreTheirOwn, Made
  <2>2. seen = Unknown /\ ~Terminal(seen)
    BY <1>1, <1>4 DEF PageFollowsOne, Terminal, Unknown
  <2>3. ShowroomTypes'
    BY <1>1, <1>2, <2>1 DEF ShowroomTypes, LoansMoveOn
  <2>4. CreationsAreTheirOwn'
    <3>1. \A e \in calls' : e.step \in {"store", "answer"} => Made(e.app, e.body)
      BY <1>1, <1>2 DEF CreationsAreTheirOwn
    <3> QED
      BY <1>1, <1>2, <3>1, CreationsStay
  <2>5. \A e \in calls' : e.from # "page"
    BY <1>1, <1>2, <1>4 DEF PageFollowsOne
  <2>6. PageFollowsOne'
    BY <2>1, <2>2, <2>5, <1>2 DEF PageFollowsOne, Terminal
  <2> QED
    BY <2>3, <2>4, <2>6 DEF ShowroomInv
<1> QED
  BY <1>3, <1>4

(* Calls that end or are given up, new calls, and rows that expire.        *)
LEMMA OtherCallStep ==
    ASSUME ShowroomInv,
           \/ \E c \in calls : CallFails(c) \/ TimesOut(c)
           \/ \E k \in SdkKeys : RowExpires(k) \/ \E body \in Bodies : SdkCreateApplication(k, body)
    PROVE  ShowroomInv'
<1>1. ShowroomTypes /\ CreationsAreTheirOwn /\ keys \in [SdkKeys -> RowType] /\ calls \subseteq CallType
  BY DEF ShowroomInv, ShowroomTypes
<1>2. loans' = loans => LoansMoveOn
  BY <1>1, MovesOn
<1>3. ASSUME NEW c \in calls, CallFails(c) PROVE ShowroomInv'
  BY <1>1, <1>2, <1>3, CallsElsewhere DEF CallFails
<1>4. ASSUME NEW c \in calls, TimesOut(c) PROVE ShowroomInv'
  <2> DEFINE d == Abandoned(c)
  <2>1. d \in CallType /\ d.from = "sdk" /\ d.step = c.step /\ d.app = c.app /\ d.body = c.body
    BY <1>1 DEF Abandoned, CallType
  <2>2. calls' = (calls \ {c}) \cup {d}
    BY <1>4 DEF TimesOut, Becomes
  <2> HIDE DEF d
  <2>3. d.step \in {"store", "answer"} => Made(d.app, d.body)
    BY <1>1, <2>1 DEF CreationsAreTheirOwn
  <2> QED
    BY <1>1, <1>2, <1>4, <2>1, <2>2, <2>3, CallStep DEF TimesOut
<1>5. ASSUME NEW k \in SdkKeys, RowExpires(k) PROVE ShowroomInv'
  <2>1. PageBody \in Bodies
    BY ShowroomAssumption DEF PageBody
  <2> DEFINE row == [NoRow EXCEPT !.stored = TRUE, !.expired = TRUE]
  <2>2. row \in RowType /\ row.expired
    BY <2>1 DEF NoRow, RowType
  <2>3. keys' = [keys EXCEPT ![k] = row]
    BY <1>5 DEF RowExpires
  <2> HIDE DEF row
  <2>4. keys' \in [SdkKeys -> RowType] /\ \A m \in SdkKeys : keys'[m] = keys[m] \/ keys'[m].expired
    BY <2>2, <2>3, <1>1
  <2> QED
    BY <1>1, <1>2, <1>5, <2>4, CallsElsewhere DEF RowExpires
<1>6. ASSUME NEW k \in SdkKeys, NEW body \in Bodies, SdkCreateApplication(k, body) PROVE ShowroomInv'
  <2>1. LET c == Call("sdk", k, body) IN c \in CallType /\ c.from = "sdk" /\ c.step = "lookup"
    BY DEF Call, CallType
  <2> QED
    BY <1>1, <1>2, <1>6, <2>1, CallsElsewhere DEF SdkCreateApplication, Send
<1> QED
  BY <1>3, <1>4, <1>5, <1>6

(* The page: it starts a creation only when it waits for none.             *)
LEMMA ShowroomPageStep ==
    ASSUME ShowroomInv,
           \/ Login \/ ShowroomLogout \/ Inventory \/ ConfigurePanel \/ Poll \/ Refresh
           \/ \E visited \in {"inventory", "history"} : NavBar(visited)
           \/ \E a \in Applications : History(a)
    PROVE  ShowroomInv'
<1>1. ShowroomTypes /\ CreationsAreTheirOwn /\ PageFollowsOne /\ calls \subseteq CallType
  BY DEF ShowroomInv, ShowroomTypes
<1>2. loans' = loans => LoansMoveOn
  BY <1>1, MovesOn
<1>3. CASE Login \/ ShowroomLogout \/ Inventory
  BY <1>1, <1>2, <1>3, PageLeft DEF Login, ShowroomLogout, Inventory
<1>4. CASE Refresh
  <2>1. route \in Applications \cup {NoSale}
    BY <1>1 DEF ShowroomTypes
  <2> QED
    BY <1>1, <1>2, <1>4, <2>1, PageLeft DEF Refresh
<1>5. ASSUME NEW visited \in {"inventory", "history"}, NavBar(visited) PROVE ShowroomInv'
  BY <1>1, <1>2, <1>5, PageLeft DEF NavBar
<1>6. ASSUME NEW a \in Applications, History(a) PROVE ShowroomInv'
  BY <1>1, <1>2, <1>6, PageLeft DEF History
<1>7. CASE ConfigurePanel
  <2> DEFINE c == Call("page", Fresh, PageBody)
  <2>1. c \in CallType /\ c.from = "page" /\ c.step = "lookup"
    BY ShowroomAssumption DEF Call, CallType, PageBody
  <2>2. calls' = calls \cup {c}
    BY <1>7 DEF ConfigurePanel, Send
  <2> HIDE DEF c
  <2>3. ShowroomTypes'
    BY <1>1, <1>7, <2>1, <2>2 DEF ShowroomTypes, ConfigurePanel
  <2>4. CreationsAreTheirOwn'
    <3>1. \A d \in calls' : d.step \in {"store", "answer"} => Made(d.app, d.body)
      BY <1>1, <2>1, <2>2 DEF CreationsAreTheirOwn
    <3> QED
      BY <1>1, <1>2, <1>7, <3>1, CreationsStay DEF ConfigurePanel
  <2>5. PageFollowsOne'
    BY <1>1, <1>7, <2>1, <2>2 DEF PageFollowsOne, ConfigurePanel, Submitting, Terminal
  <2> QED
    BY <2>3, <2>4, <2>5 DEF ShowroomInv
<1>8. CASE Poll
  <2>1. /\ sale \in Applications /\ sale # NoSale /\ seen' = loans[sale].status
        /\ seen' \in DOMAIN Moves /\ UNCHANGED <<loans, keys, calls, at, route, sale>>
    BY <1>1, <1>8 DEF Poll, ShowroomTypes, LoanType
  <2>2. ShowroomTypes'
    BY <1>1, <2>1 DEF ShowroomTypes
  <2>3. CreationsAreTheirOwn'
    BY <1>1, <2>1 DEF CreationsAreTheirOwn, Made
  <2>4. PageFollowsOne'
    BY <1>1, <2>1 DEF PageFollowsOne
  <2> QED
    BY <2>2, <2>3, <2>4 DEF ShowroomInv
<1> QED
  BY <1>3, <1>4, <1>5, <1>6, <1>7, <1>8

(* The bank and the dealers move applications.                             *)
LEMMA LoanStep ==
    ASSUME ShowroomInv,
           StatusPanel \/ \E a \in Applications : BankMoves(a) \/ SdkCancelApplication(a)
    PROVE  ShowroomInv'
<1>1. ShowroomTypes /\ CreationsAreTheirOwn /\ calls \subseteq CallType
      /\ keys \in [SdkKeys -> RowType]
  BY DEF ShowroomInv, ShowroomTypes
<1>2. ASSUME NEW a \in Applications, BankMoves(a) \/ SdkCancelApplication(a) PROVE ShowroomInv'
  <2>1. LoansMoveOn
    BY <1>1, <1>2, MovesOn DEF BankMoves, SdkCancelApplication
  <2> QED
    BY <1>1, <1>2, <2>1, CallsElsewhere DEF BankMoves, SdkCancelApplication
<1>3. CASE StatusPanel
  <2>1. sale \in Applications /\ LoansMoveOn /\ keys' = keys
    BY <1>1, <1>3, MovesOn DEF StatusPanel, ShowroomTypes
  <2>2. CASE GoTo("inventory", NoSale)
    BY <1>1, <2>1, <2>2, PageLeft
  <2>3. CASE UNCHANGED <<at, route, sale, seen, calls>>
    BY <1>1, <2>1, <2>3, CallsElsewhere
  <2> QED
    BY <1>3, <2>2, <2>3 DEF StatusPanel
<1> QED
  BY <1>2, <1>3

LEMMA ShowroomStep == ShowroomInv /\ [ShowroomNext]_showroomVars => ShowroomInv'
<1> SUFFICES ASSUME ShowroomInv, [ShowroomNext]_showroomVars PROVE ShowroomInv'
  OBVIOUS
<1>1. CASE UNCHANGED showroomVars
  BY <1>1 DEF showroomVars, ShowroomInv, ShowroomTypes, CreationsAreTheirOwn, PageFollowsOne, Made
<1>2. ASSUME NEW c \in calls,
             \/ Lookup(c) \/ Store(c) \/ Reply(c) \/ \E a \in Applications : CreateApplication(c, a)
      PROVE  ShowroomInv'
  BY <1>2, LookupStep, StoreStep, ReplyStep, CreateStep
<1> QED
  BY <1>1, <1>2, OtherCallStep, ShowroomPageStep, LoanStep DEF ShowroomNext

(* For any applications, keys, bodies and number of calls at once: a       *)
(* creation is answered with an application that its own request           *)
(* describes, and a page that has stopped polling shows the truth.         *)
THEOREM SalesAreOnesOwn == ShowroomSpec => []SalesAreTheirOwn
<1>1. ShowroomInv => SalesAreTheirOwn
  BY DEF ShowroomInv, CreationsAreTheirOwn, PageFollowsOne, Made, SalesAreTheirOwn
<1> QED
  BY ShowroomInitially, ShowroomStep, <1>1, PTL DEF ShowroomSpec

-----------------------------------------------------------------------------
(* The connection to the bank.  A consent that was exchanged stays so; the *)
(* others get no further than the attempt they belong to.                  *)

Granted(g) == g \in Grants /\ grants[g] = "Exchanged"
Holdable(g) == g = "none" \/ (g = Demo /\ client = "masroofi-mobile") \/ Granted(g)

GrantStatuses == {"none", "AwaitingAuthorisation", "Authorised", "Rejected", "Exchanged"}
SigningType == [op : Forms \cup {"none"}, who : Members \cup {"none"},
                stage : {"none", "sent", "ok", "refused"}, grant : Consents]
ExchangeType == [grant : Grants, who : Members \cup {"current"}, stage : {"sent", "ok", "failed"}]
LinkType == [grant : Grants, ok : BOOLEAN]

(* A sheet is opened, and a request sent, for a member.                    *)
AggregatorsTypes ==
    /\ client \in Clients /\ member \in Members \cup {"none"}
    /\ known \in {"unknown", "in", "out"} /\ view \in Views
    /\ held \in Consents /\ attempt \in Consents /\ landing \in BOOLEAN
    /\ sheet \in [who : Members \cup {"none"}, grant : Consents]
    /\ sheet # NoSheet => sheet.who \in Members
    /\ signing \in SigningType /\ (signing.stage # "none" => signing.who \in Members)
    /\ exchanges \subseteq ExchangeType
    /\ writes \subseteq [who : Members, grant : Consents]
    /\ record \in [Members -> Consents \cup {"unregistered"}]
    /\ grants \in [Grants -> GrantStatuses]
    /\ links \subseteq LinkType
    /\ cut \subseteq Members
    /\ {"none", "unregistered", Demo} \cap Grants = {}

(* What is held, and what is on its way to being held.                     *)
ConsentsAreGranted ==
    /\ Holdable(held)
    /\ \A m \in Members : record[m] = "unregistered" \/ Holdable(record[m])
    /\ \A w \in writes : Holdable(w.grant)
    /\ Holdable(signing.grant)
    /\ \A e \in exchanges : e.stage = "ok" => Granted(e.grant)

(* An update that takes a consent away was asked for.                      *)
CutsAreAskedFor == \A w \in writes : w.grant = "none" => w.who \in cut

ConnectionInv == AggregatorsTypes /\ ConsentsAreGranted /\ CutsAreAskedFor

LEMMA AggregatorsInitially == AggregatorsInit => ConnectionInv
<1> SUFFICES ASSUME AggregatorsInit PROVE ConnectionInv
  OBVIOUS
<1> PICK h \in Households : /\ client \in Clients \cap h.apps
                            /\ record \in [h.members -> {"unregistered", "none"}]
                            /\ grants = [g \in h.grants |-> "none"]
  BY DEF AggregatorsInit
<1>1. /\ Members = h.members /\ Grants = h.grants
      /\ {"none", "unregistered", Demo} \cap Grants = {}
  BY HouseholdsAssumption DEF Members, Grants, Demo
<1>2. /\ record \in [Members -> Consents \cup {"unregistered"}]
      /\ grants \in [Grants -> GrantStatuses]
  BY <1>1 DEF Consents, GrantStatuses
<1>3. NoCall \in SigningType /\ NoSheet \in [who : Members \cup {"none"}, grant : Consents]
  BY DEF NoCall, NoSheet, SigningType, Consents
<1>4. AggregatorsTypes
  BY <1>1, <1>2, <1>3 DEF AggregatorsInit, AggregatorsTypes, Views, Consents, NoCall
<1>5. ConsentsAreGranted /\ CutsAreAskedFor
  BY <1>1 DEF AggregatorsInit, ConsentsAreGranted, CutsAreAskedFor, Holdable, NoCall
<1> QED
  BY <1>4, <1>5 DEF ConnectionInv

-----------------------------------------------------------------------------
(* A step that leaves the backend and the bank alone.                      *)

LEMMA RouteIsAView ==
    ASSUME NEW p \in Views, NEW m
    PROVE  RequireAuth(p, m) \in Views
  BY DEF RequireAuth, Views

LEMMA GotoShowsAView == ASSUME NEW p \in Views, NEW m, Goto(p, m) PROVE view' \in Views
  BY RouteIsAView DEF Goto


(* What was exchanged stays so, and no member or consent appears.          *)
GrantsStay ==
    /\ client' = client
    /\ record' \in [Members -> Consents \cup {"unregistered"}]
    /\ grants' \in [Grants -> GrantStatuses]
    /\ \A g \in Grants : grants[g] = "Exchanged" => grants'[g] = "Exchanged"

LEMMA HoldableStays ==
    ASSUME GrantsStay
    PROVE  /\ Members' = Members /\ Grants' = Grants /\ Consents' = Consents
           /\ \A g : Holdable(g) => Holdable(g)'
           /\ \A g : Granted(g) => Granted(g)'
  BY DEF GrantsStay, Members, Grants, Consents, Holdable, Granted

(* The device: the session, the screens and the requests.                  *)
LEMMA DeviceMoves ==
    ASSUME ConnectionInv, GrantsStay, UNCHANGED <<links, cut>>,
           view' \in Views, known' \in {"unknown", "in", "out"}, landing' \in BOOLEAN,
           attempt' \in Consents, member' \in Members \cup {"none"},
           UNCHANGED sheet,
           held' \in Consents, Holdable(held'),
           signing' \in SigningType, signing'.stage # "none" => signing'.who \in Members,
           Holdable(signing'.grant),
           exchanges' \subseteq ExchangeType,
           \A e \in exchanges' : e.stage = "ok" => Granted(e.grant) \/ Granted(e.grant)',
           \A m \in Members : record'[m] = "unregistered" \/ Holdable(record'[m]),
           writes' \subseteq [who : Members, grant : Consents],
           \A w \in writes' : Holdable(w.grant) /\ (w.grant = "none" => w.who \in cut)
    PROVE  ConnectionInv'
<1>h. /\ Members' = Members /\ Grants' = Grants /\ Consents' = Consents
      /\ \A g : Holdable(g) => Holdable(g)'
      /\ \A g : Granted(g) => Granted(g)'
  BY HoldableStays
<1>t. SigningType' = SigningType /\ ExchangeType' = ExchangeType /\ LinkType' = LinkType
  BY <1>h DEF SigningType, ExchangeType, LinkType
<1>1. AggregatorsTypes'
  BY <1>h, <1>t DEF ConnectionInv, AggregatorsTypes, GrantsStay
<1>2. ConsentsAreGranted'
  BY <1>h DEF ConsentsAreGranted
<1>3. CutsAreAskedFor'
  BY DEF CutsAreAskedFor
<1> QED
  BY <1>1, <1>2, <1>3 DEF ConnectionInv

(* The device only: neither the backend nor the bank take part.            *)
LEMMA DeviceAlone ==
    ASSUME ConnectionInv, UNCHANGED <<client, record, grants, writes, links, cut, sheet>>,
           view' \in Views, known' \in {"unknown", "in", "out"}, landing' \in BOOLEAN,
           attempt' \in Consents, member' \in Members \cup {"none"},
           held' \in Consents, Holdable(held'),
           signing' \in SigningType, signing'.stage # "none" => signing'.who \in Members,
           Holdable(signing'.grant),
           exchanges' \subseteq ExchangeType,
           \A e \in exchanges' : e.stage = "ok" => Granted(e.grant)
    PROVE  ConnectionInv'
<1>1. AggregatorsTypes /\ ConsentsAreGranted /\ CutsAreAskedFor
  BY DEF ConnectionInv
<1>2. GrantsStay
  BY <1>1 DEF AggregatorsTypes, GrantsStay
<1>3. /\ \A m \in Members : record'[m] = "unregistered" \/ Holdable(record'[m])
      /\ writes' \subseteq [who : Members, grant : Consents]
      /\ \A w \in writes' : Holdable(w.grant) /\ (w.grant = "none" => w.who \in cut)
  BY <1>1 DEF AggregatorsTypes, ConsentsAreGranted, CutsAreAskedFor
<1> QED
  BY <1>2, <1>3, DeviceMoves

(* What a step on the device may rely on.                                  *)
LEMMA DeviceHas ==
    ASSUME ConnectionInv
    PROVE  /\ view \in Views /\ known \in {"unknown", "in", "out"} /\ landing \in BOOLEAN
           /\ attempt \in Consents /\ member \in Members \cup {"none"}
           /\ held \in Consents /\ Holdable(held)
           /\ signing \in SigningType /\ (signing.stage # "none" => signing.who \in Members)
           /\ Holdable(signing.grant) /\ signing.grant \in Consents
           /\ exchanges \subseteq ExchangeType
           /\ \A e \in exchanges : e.stage = "ok" => Granted(e.grant)
           /\ NoCall \in SigningType /\ NoCall.stage = "none" /\ Holdable(NoCall.grant)
  BY DEF ConnectionInv, AggregatorsTypes, ConsentsAreGranted, SigningType, NoCall, Consents, Holdable

(* Only the screen changes.                                                *)
LEMMA ScreenStep ==
    ASSUME ConnectionInv, view' \in Views, known' \in {"unknown", "in", "out"}, landing' \in BOOLEAN,
           UNCHANGED <<client, record, grants, writes, links, cut, sheet, attempt, member, held,
                       signing, exchanges>>
    PROVE  ConnectionInv'
  BY DeviceHas, DeviceAlone

LEMMA FormStep ==
    ASSUME ConnectionInv,
           \/ MasroofiLanding \/ HisabLanding \/ MasroofiWelcome \/ MasroofiLogin \/ MasroofiSignup
           \/ HisabWelcome \/ HisabLogin \/ HisabSignup
    PROVE  ConnectionInv'
<1>1. ASSUME NEW form \in Forms, OpenForm(form) PROVE ConnectionInv'
  <2>1. form \in Views
    BY DEF Views
  <2> QED
    BY <1>1, <2>1, DeviceHas, ScreenStep DEF OpenForm, outside
<1>2. CASE CloseForm
  <2>1. FrontPage \in Views
    BY DEF Views, FrontPage
  <2> QED
    BY <1>2, <2>1, DeviceHas, ScreenStep DEF CloseForm, outside
<1>3. ASSUME NEW m \in Members, Submit(m) PROVE ConnectionInv'
  <2>1. /\ signing' \in SigningType /\ signing'.who \in Members /\ Holdable(signing'.grant)
    BY <1>3 DEF Submit, SigningType, Consents, Holdable
  <2> QED
    BY <1>3, <2>1, DeviceHas, DeviceAlone DEF Submit, outside, deviceVars
<1>4. "signup" \in Forms /\ "login" \in Forms
  BY DEF Forms
<1> QED
  BY <1>1, <1>2, <1>3, <1>4 DEF MasroofiLanding, HisabLanding, MasroofiWelcome, MasroofiLogin,
     MasroofiSignup, HisabWelcome, HisabLogin, HisabSignup, LandingPage, WelcomeScreen, LoginScreen,
     SignupScreen

(* A login answers with the record, as it then was.                        *)
LEMMA LoginStep == ASSUME ConnectionInv, LoginAtBackend PROVE ConnectionInv'
<1>1. signing \in SigningType /\ signing.who \in Members
  BY DeviceHas DEF LoginAtBackend
<1>2. CASE signing' = [signing EXCEPT !.stage = "refused"]
  <2>1. /\ signing' \in SigningType /\ signing'.who \in Members /\ signing'.grant = signing.grant
    BY <1>1, <1>2 DEF SigningType
  <2> QED
    BY <2>1, DeviceHas, DeviceAlone DEF LoginAtBackend, outside, deviceVars
<1>3. CASE /\ record[signing.who] # "unregistered"
           /\ signing' = [signing EXCEPT !.stage = "ok", !.grant = record[signing.who]]
  <2>1. record[signing.who] \in Consents /\ Holdable(record[signing.who])
    BY <1>1, <1>3 DEF ConnectionInv, AggregatorsTypes, ConsentsAreGranted
  <2>2. /\ signing' \in SigningType /\ signing'.who \in Members
        /\ signing'.grant = record[signing.who]
    BY <1>1, <1>3, <2>1 DEF SigningType
  <2> QED
    BY <2>1, <2>2, DeviceHas, DeviceAlone DEF LoginAtBackend, outside, deviceVars
<1> QED
  BY <1>2, <1>3 DEF LoginAtBackend

LEMMA RegisterStep == ASSUME ConnectionInv, RegisterAtBackend PROVE ConnectionInv'
<1>0. AggregatorsTypes /\ ConsentsAreGranted /\ CutsAreAskedFor
  BY DEF ConnectionInv
<1>1. signing \in SigningType /\ signing.who \in Members
  BY DeviceHas DEF RegisterAtBackend
<1>2. \A s \in {"ok", "refused"} : LET d == [signing EXCEPT !.stage = s]
                                   IN  d \in SigningType /\ d.who = signing.who /\ d.grant = signing.grant
  BY <1>1 DEF SigningType
<1>3. signing' \in SigningType /\ signing'.who = signing.who /\ signing'.grant = signing.grant
  BY <1>2 DEF RegisterAtBackend
<1>4. /\ record' \in [Members -> Consents \cup {"unregistered"}]
      /\ \A m \in Members : record'[m] \in {record[m], "none"}
  BY <1>0, <1>1 DEF RegisterAtBackend, AggregatorsTypes, Consents
<1>5. GrantsStay
  BY <1>0, <1>4 DEF RegisterAtBackend, GrantsStay, AggregatorsTypes
<1>6. /\ \A m \in Members : record'[m] = "unregistered" \/ Holdable(record'[m])
      /\ writes' \subseteq [who : Members, grant : Consents]
      /\ \A w \in writes' : Holdable(w.grant) /\ (w.grant = "none" => w.who \in cut)
  BY <1>0, <1>4 DEF RegisterAtBackend, ConsentsAreGranted, CutsAreAskedFor, AggregatorsTypes, Holdable
<1> QED
  BY <1>1, <1>3, <1>5, <1>6, DeviceHas, DeviceMoves DEF RegisterAtBackend, deviceVars

(* A sign-in takes over what the record had, the demo consent, or what the *)
(* device held.                                                            *)
LEMMA SignInStep ==
    ASSUME ConnectionInv,
           \/ Refused \/ MasroofiSignIn \/ HisabSignIn \/ MasroofiPhoneSignIn \/ HisabPhoneSignIn
    PROVE  ConnectionInv'
<1>1. CASE Refused
  BY <1>1, DeviceHas, DeviceAlone DEF Refused, outside, deviceVars
<1>2. ASSUME NEW g \in Consents, Holdable(g), Enter(g) PROVE ConnectionInv'
  <2>1. "home" \in Views
    BY DEF Views
  <2>2. view' \in Views
    BY <1>2, <2>1, GotoShowsAView DEF Enter
  <2>3. signing.who \in Members
    BY <1>2, DeviceHas DEF Enter
  <2> QED
    BY <1>2, <2>2, <2>3, DeviceHas, DeviceAlone DEF Enter, outside
<1>3. RestoreCredentials \in Consents /\ Holdable(RestoreCredentials)
  BY DeviceHas DEF RestoreCredentials
<1>4. /\ MasroofiPhoneSession \in Consents
      /\ client = "masroofi-mobile" => Holdable(MasroofiPhoneSession)
  BY DeviceHas DEF MasroofiPhoneSession, Consents, Holdable
<1> QED
  BY <1>1, <1>2, <1>3, <1>4 DEF MasroofiSignIn, HisabSignIn, MasroofiPhoneSignIn, HisabPhoneSignIn

LEMMA LayoutStep ==
    ASSUME ConnectionInv,
           \/ RefreshAuth \/ Gate \/ AlreadyConnected \/ OpenDashboard \/ LeaveFailure
           \/ MasroofiLayout \/ HisabLayout \/ MasroofiPhoneTabs \/ HisabPhoneTabs
    PROVE  ConnectionInv'
<1>1. {"welcome", "home", "more", "connect"} \subseteq Views
  BY DEF Views
<1>2. CASE RefreshAuth
  BY <1>2, DeviceHas, ScreenStep DEF RefreshAuth, outside
<1>3. CASE Gate
  BY <1>1, <1>3, DeviceHas, ScreenStep DEF Gate, outside
<1>4. CASE AlreadyConnected
  BY <1>1, <1>4, DeviceHas, ScreenStep DEF AlreadyConnected, outside
<1>5. CASE OpenDashboard
  <2>1. view' \in Views
    BY <1>1, <1>5, GotoShowsAView DEF OpenDashboard
  <2> QED
    BY <1>5, <2>1, DeviceHas, ScreenStep DEF OpenDashboard, outside
<1>6. CASE LeaveFailure
  <2>1. view' \in Views
    BY <1>1, <1>6, GotoShowsAView DEF LeaveFailure
  <2> QED
    BY <1>6, <2>1, DeviceHas, ScreenStep DEF LeaveFailure, outside
<1>7. ASSUME NEW pages \in SUBSET {"home", "more"}, Navigate(pages) PROVE ConnectionInv'
  <2>1. view' \in Views
    BY <1>1, <1>7, GotoShowsAView DEF Navigate
  <2> QED
    BY <1>7, <2>1, DeviceHas, ScreenStep DEF Navigate, outside
<1>8. {"home"} \in SUBSET {"home", "more"} /\ {"home", "more"} \in SUBSET {"home", "more"}
  OBVIOUS
<1> QED
  BY <1>2, <1>3, <1>4, <1>5, <1>6, <1>7, <1>8 DEF MasroofiLayout, HisabLayout, MasroofiPhoneTabs,
     HisabPhoneTabs

(* Signing out touches no record.                                          *)
LEMMA SignOutStep ==
    ASSUME ConnectionInv,
           MasroofiSignOut \/ HisabSignOut \/ MasroofiPhoneSignOut \/ HisabPhoneSignOut \/ CloseTab
    PROVE  ConnectionInv'
<1>1. {"welcome", "landing"} \subseteq Views /\ "none" \in Consents /\ Holdable("none")
  BY DEF Views, Consents, Holdable
<1>2. CASE HandleLogout
  <2>1. writes' = writes
    BY <1>2 DEF HandleLogout, WebLeave, Written
  <2> QED
    BY <1>1, <1>2, <2>1, DeviceHas, DeviceAlone DEF HandleLogout, WebLeave
<1>3. ASSUME NEW rest \in {"none", held}, PhoneSignOut(rest) PROVE ConnectionInv'
  BY <1>1, <1>3, DeviceHas, DeviceAlone DEF PhoneSignOut, outside
<1>4. CASE CloseTab
  BY <1>1, <1>4, DeviceHas, DeviceAlone DEF CloseTab, outside
<1> QED
  BY <1>2, <1>3, <1>4 DEF MasroofiSignOut, HisabSignOut, MasroofiPhoneSignOut, HisabPhoneSignOut

(* Disconnecting asks for the record's consent to go.                      *)
LEMMA DisconnectStep ==
    ASSUME ConnectionInv, BankConnectionCard \/ MasroofiPhoneMore \/ HisabPhoneMore
    PROVE  ConnectionInv'
<1>0. AggregatorsTypes /\ ConsentsAreGranted /\ CutsAreAskedFor /\ DisconnectBank
  BY DEF ConnectionInv, BankConnectionCard, MasroofiPhoneMore, HisabPhoneMore
<1>1. GrantsStay
  BY <1>0 DEF DisconnectBank, GrantsStay, AggregatorsTypes
<1>h. /\ Members' = Members /\ Grants' = Grants /\ Consents' = Consents
      /\ \A g : Holdable(g) => Holdable(g)' /\ \A g1 : Granted(g1) => Granted(g1)'
  BY <1>1, HoldableStays
<1>2. /\ "none" \in Consents /\ Holdable("none")
      /\ \A w \in writes' : w \in writes \/ (w \in [who : {member}, grant : {"none"}] /\ member # "none")
  BY <1>0 DEF Consents, Holdable, DisconnectBank, Written
<1>3. /\ cut \subseteq cut' /\ cut' \subseteq Members
      /\ member # "none" => member \in cut' /\ member \in Members
  BY <1>0 DEF DisconnectBank, AggregatorsTypes
<1>4. /\ writes' \subseteq [who : Members, grant : Consents]
      /\ \A w \in writes' : Holdable(w.grant) /\ (w.grant = "none" => w.who \in cut')
  BY <1>0, <1>2, <1>3 DEF AggregatorsTypes, ConsentsAreGranted, CutsAreAskedFor
<1>5. /\ SigningType' = SigningType /\ ExchangeType' = ExchangeType /\ LinkType' = LinkType
      /\ UNCHANGED <<member, known, view, attempt, sheet, landing, signing, exchanges, record, links,
                     client, grants>>
      /\ held' = "none"
  BY <1>0, <1>h DEF SigningType, ExchangeType, LinkType, DisconnectBank
<1>6. AggregatorsTypes'
  BY <1>0, <1>h, <1>2, <1>3, <1>4, <1>5 DEF AggregatorsTypes
<1>7. ConsentsAreGranted'
  BY <1>0, <1>h, <1>2, <1>4, <1>5 DEF ConsentsAreGranted
<1>8. CutsAreAskedFor'
  BY <1>4 DEF CutsAreAskedFor
<1> QED
  BY <1>6, <1>7, <1>8 DEF ConnectionInv

(* An update arrives, or is lost.                                          *)
LEMMA UpdateStep == ASSUME ConnectionInv, NEW w \in writes, UpdateBank(w) PROVE ConnectionInv'
<1>0. AggregatorsTypes /\ ConsentsAreGranted /\ CutsAreAskedFor
  BY DEF ConnectionInv
<1>1. w.who \in Members /\ w.grant \in Consents /\ Holdable(w.grant)
  BY <1>0 DEF AggregatorsTypes, ConsentsAreGranted
<1>2. /\ record' \in [Members -> Consents \cup {"unregistered"}]
      /\ \A m \in Members : record'[m] \in {record[m], w.grant}
  BY <1>0, <1>1 DEF UpdateBank, AggregatorsTypes
<1>3. GrantsStay
  BY <1>0, <1>2 DEF UpdateBank, GrantsStay, AggregatorsTypes
<1>4. /\ \A m \in Members : record'[m] = "unregistered" \/ Holdable(record'[m])
      /\ writes' \subseteq [who : Members, grant : Consents]
      /\ \A v \in writes' : Holdable(v.grant) /\ (v.grant = "none" => v.who \in cut)
  BY <1>0, <1>1, <1>2 DEF UpdateBank, ConsentsAreGranted, CutsAreAskedFor, AggregatorsTypes
<1> QED
  BY <1>3, <1>4, DeviceHas, DeviceMoves DEF UpdateBank, deviceVars

-----------------------------------------------------------------------------
(* The bank's side: the sheet, the links and the consents also move.       *)

LEMMA BankMovesOn ==
    ASSUME ConnectionInv, GrantsStay, UNCHANGED <<member, known, held, landing, signing, writes, record, cut>>,
           view' \in Views, attempt' \in Consents,
           sheet' \in [who : Members \cup {"none"}, grant : Consents],
           sheet' # NoSheet => sheet'.who \in Members,
           exchanges' \subseteq ExchangeType,
           \A e \in exchanges' : e.stage = "ok" => Granted(e.grant) \/ Granted(e.grant)',
           links' \subseteq LinkType
    PROVE  ConnectionInv'
<1>0. AggregatorsTypes /\ ConsentsAreGranted /\ CutsAreAskedFor
  BY DEF ConnectionInv
<1>h. /\ Members' = Members /\ Grants' = Grants /\ Consents' = Consents
      /\ \A g : Holdable(g) => Holdable(g)'
      /\ \A g : Granted(g) => Granted(g)'
  BY HoldableStays
<1>t. SigningType' = SigningType /\ ExchangeType' = ExchangeType /\ LinkType' = LinkType
  BY <1>h DEF SigningType, ExchangeType, LinkType
<1>1. AggregatorsTypes'
  BY <1>0, <1>h, <1>t DEF AggregatorsTypes, GrantsStay
<1>2. ConsentsAreGranted'
  BY <1>0, <1>h DEF ConsentsAreGranted
<1>3. CutsAreAskedFor'
  BY <1>0 DEF CutsAreAskedFor
<1> QED
  BY <1>1, <1>2, <1>3 DEF ConnectionInv

(* A consent is created once, and decided while it waits.                  *)
LEMMA GrantStep ==
    ASSUME ConnectionInv, NEW g \in Grants,
           \/ NoAnswer(g) \/ MasroofiConnect(g) \/ HisabConnect(g) \/ OpenBankConsent(g)
           \/ ConnectBank(g) \/ Decide(g)
    PROVE  ConnectionInv'
<1>0. /\ AggregatorsTypes
      /\ view \in Views /\ attempt \in Consents /\ g \in Consents /\ "bank" \in Views
      /\ sheet \in [who : Members \cup {"none"}, grant : Consents] /\ links \subseteq LinkType
      /\ sheet # NoSheet => sheet.who \in Members
      /\ exchanges \subseteq ExchangeType /\ \A e \in exchanges : e.stage = "ok" => Granted(e.grant)
  BY DEF ConnectionInv, AggregatorsTypes, ConsentsAreGranted, Consents, Views
<1>1. CASE Decide(g)
  <2>1. GrantsStay
    BY <1>0, <1>1 DEF Decide, GrantsStay, AggregatorsTypes, GrantStatuses
  <2>2. links' \subseteq LinkType
    BY <1>0, <1>1 DEF Decide, LinkType
  <2> QED
    BY <1>0, <1>1, <2>1, <2>2, BankMovesOn DEF Decide, deviceVars
<1>2. ASSUME CreateConsent(g), view' \in {view, "bank"}, attempt' \in {attempt, g},
             sheet' \in {sheet, [who |-> member, grant |-> g]},
             sheet' = sheet \/ member # "none"
      PROVE  ConnectionInv'
  <2>1. GrantsStay
    BY <1>0, <1>2 DEF CreateConsent, GrantsStay, AggregatorsTypes, GrantStatuses
  <2>2. /\ sheet' \in [who : Members \cup {"none"}, grant : Consents]
        /\ sheet' # NoSheet => sheet'.who \in Members
    BY <1>0, <1>2 DEF AggregatorsTypes
  <2> QED
    BY <1>0, <1>2, <2>1, <2>2, BankMovesOn DEF CreateConsent
<1>3. CASE NoAnswer(g)
  BY <1>2, <1>3 DEF NoAnswer
<1>4. CASE MasroofiConnect(g) \/ HisabConnect(g)
  BY <1>2, <1>4 DEF MasroofiConnect, HisabConnect, BuildConsentRedirectUrl
<1>5. CASE OpenBankConsent(g)
  BY <1>2, <1>5 DEF OpenBankConsent
<1>6. CASE ConnectBank(g)
  BY <1>2, <1>6 DEF ConnectBank
<1> QED
  BY <1>1, <1>3, <1>4, <1>5, <1>6

(* A link starts an exchange, which has granted nothing yet.               *)
LEMMA LinkStep ==
    ASSUME ConnectionInv,
           \/ SheetReturns
           \/ \E l \in links : \/ MasroofiCallback(l) \/ HisabCallback(l)
                               \/ MasroofiPhoneCallback(l) \/ HisabPhoneCallback(l)
    PROVE  ConnectionInv'
<1>0. /\ AggregatorsTypes /\ view \in Views /\ attempt \in Consents /\ "none" \in Consents
      /\ {"callback", "failure"} \subseteq Views
      /\ sheet \in [who : Members \cup {"none"}, grant : Consents] /\ links \subseteq LinkType
      /\ sheet # NoSheet => sheet.who \in Members
      /\ exchanges \subseteq ExchangeType /\ \A e \in exchanges : e.stage = "ok" => Granted(e.grant)
      /\ NoSheet \in [who : Members \cup {"none"}, grant : Consents]
  BY DEF ConnectionInv, AggregatorsTypes, ConsentsAreGranted, Consents, Views, NoSheet
<1>1. ASSUME NEW l \in links, NEW m \in Members \cup {"current"}, ExchangeAuthCode(l, m)
      PROVE  /\ exchanges' \subseteq ExchangeType /\ attempt' \in Consents
             /\ \A e \in exchanges' : e.stage = "ok" => Granted(e.grant)
  BY <1>0, <1>1 DEF ExchangeAuthCode, ExchangeType, LinkType
<1>2. ASSUME NEW l \in links, HandleCallback(l) PROVE ConnectionInv'
  <2>1. GrantsStay
    BY <1>0, <1>2 DEF HandleCallback, outside, GrantsStay, AggregatorsTypes
  <2>2. /\ exchanges' \subseteq ExchangeType /\ attempt' \in Consents
        /\ \A e \in exchanges' : e.stage = "ok" => Granted(e.grant)
    BY <1>1, <1>2 DEF HandleCallback
  <2> QED
    BY <1>0, <1>2, <2>1, <2>2, BankMovesOn DEF HandleCallback, outside
<1>3. CASE SheetReturns
  <2>1. GrantsStay
    BY <1>0, <1>3 DEF SheetReturns, outside, GrantsStay, AggregatorsTypes
  <2>2. /\ exchanges' \subseteq ExchangeType /\ attempt' \in Consents
        /\ \A e \in exchanges' : e.stage = "ok" => Granted(e.grant)
    BY <1>0, <1>1, <1>3 DEF SheetReturns
  <2> QED
    BY <1>0, <1>3, <2>1, <2>2, BankMovesOn DEF SheetReturns, outside
<1> QED
  BY <1>2, <1>3 DEF MasroofiCallback, HisabCallback, MasroofiPhoneCallback, HisabPhoneCallback

(* The bank answers once that a code was exchanged, and then it was.       *)
LEMMA ExchangeStep == ASSUME ConnectionInv, NEW e \in exchanges, ExchangeAtBank(e) PROVE ConnectionInv'
<1>0. /\ AggregatorsTypes /\ e \in ExchangeType
      /\ view \in Views /\ attempt \in Consents
      /\ sheet \in [who : Members \cup {"none"}, grant : Consents] /\ links \subseteq LinkType
      /\ sheet # NoSheet => sheet.who \in Members
      /\ exchanges \subseteq ExchangeType /\ \A f \in exchanges : f.stage = "ok" => Granted(f.grant)
  BY DEF ConnectionInv, AggregatorsTypes, ConsentsAreGranted
<1>1. \A s \in {"ok", "failed"} : LET d == [e EXCEPT !.stage = s]
                                  IN  d \in ExchangeType /\ d.stage = s /\ d.grant = e.grant
  BY <1>0 DEF ExchangeType
<1>2. e.grant \in Grants
  BY <1>0 DEF ExchangeType
<1>3. GrantsStay
  BY <1>0, <1>2 DEF ExchangeAtBank, GrantsStay, AggregatorsTypes, GrantStatuses, deviceVars
<1>4. Grants' = Grants
  BY <1>3, HoldableStays
<1>5. /\ exchanges' \subseteq ExchangeType
      /\ \A f \in exchanges' : f.stage = "ok" => Granted(f.grant) \/ Granted(f.grant)'
  <2>1. CASE exchanges' = (exchanges \ {e}) \cup {[e EXCEPT !.stage = "failed"]}
    BY <1>0, <1>1, <2>1
  <2>2. ASSUME grants' = [grants EXCEPT ![e.grant] = "Exchanged"], NEW s \in {"ok", "failed"},
               exchanges' = (exchanges \ {e}) \cup {[e EXCEPT !.stage = s]}
        PROVE  <1>5!1 /\ <1>5!2
    <3>1. Granted(e.grant)'
      BY <2>2, <1>0, <1>2, <1>4 DEF Granted, AggregatorsTypes
    <3> QED
      BY <1>0, <1>1, <2>2, <3>1
  <2> QED
    BY <2>1, <2>2 DEF ExchangeAtBank
<1> QED
  BY <1>0, <1>3, <1>5, BankMovesOn DEF ExchangeAtBank, deviceVars

(* What was exchanged is stored, and the record told.                      *)
LEMMA ExchangedStep == ASSUME ConnectionInv, NEW e \in exchanges, Exchanged(e) PROVE ConnectionInv'
<1>0. /\ AggregatorsTypes /\ ConsentsAreGranted /\ CutsAreAskedFor /\ e \in ExchangeType
      /\ exchanges' \subseteq exchanges /\ {"success", "failure"} \subseteq Views
  BY DEF ConnectionInv, AggregatorsTypes, Exchanged, Views
<1>1. GrantsStay
  BY <1>0 DEF Exchanged, GrantsStay, AggregatorsTypes
<1>2. CASE e.stage = "failed" /\ view' = (IF view = "callback" THEN "failure" ELSE view)
           /\ UNCHANGED <<held, writes, landing>>
  BY <1>0, <1>2, DeviceHas, DeviceAlone DEF Exchanged
<1>3. CASE e.stage = "ok" /\ StoreCredentials(e)
  <2>1. /\ e.grant \in Grants /\ e.grant \in Consents /\ Holdable(e.grant) /\ e.grant # "none"
    BY <1>0, <1>3 DEF ConsentsAreGranted, Holdable, ExchangeType, Consents, AggregatorsTypes
  <2> DEFINE who == IF e.who = "current" THEN member ELSE e.who
  <2>2. who \in Members \cup {"none"}
    BY <1>0 DEF ExchangeType, AggregatorsTypes
  <2>3. writes' = writes \/ (who \in Members /\ writes' = writes \cup [who : {who}, grant : {e.grant}])
    BY <1>3, <2>2 DEF StoreCredentials, Written
  <2> HIDE DEF who
  <2>4. /\ writes' \subseteq [who : Members, grant : Consents]
        /\ \A w \in writes' : Holdable(w.grant) /\ (w.grant = "none" => w.who \in cut)
    BY <1>0, <2>1, <2>3 DEF AggregatorsTypes, ConsentsAreGranted, CutsAreAskedFor
  <2>5. \A m \in Members : record'[m] = "unregistered" \/ Holdable(record'[m])
    BY <1>0 DEF Exchanged, ConsentsAreGranted
  <2> QED
    BY <1>0, <1>1, <1>3, <2>1, <2>4, <2>5, DeviceHas, DeviceMoves DEF Exchanged, StoreCredentials
<1> QED
  BY <1>2, <1>3 DEF Exchanged

LEMMA ConnectionStep == ConnectionInv /\ [AggregatorsNext]_aggregatorVars => ConnectionInv'
<1> SUFFICES ASSUME ConnectionInv, [AggregatorsNext]_aggregatorVars PROVE ConnectionInv'
  OBVIOUS
<1>1. CASE UNCHANGED aggregatorVars
  BY <1>1, DeviceHas, ScreenStep DEF aggregatorVars, deviceVars
<1> QED
  BY <1>1, FormStep, LoginStep, RegisterStep, SignInStep, LayoutStep, SignOutStep, DisconnectStep,
     UpdateStep, GrantStep, LinkStep, ExchangeStep, ExchangedStep DEF AggregatorsNext

(* For any members, consents and apps: what an app holds, on the device,   *)
(* in the record or on its way there, was authorised and exchanged.        *)
THEOREM ConsentsHeldAreGranted == AggregatorsSpec => []OnlyGrantedConsentsAreHeld
<1>1. ConnectionInv => OnlyGrantedConsentsAreHeld
  BY DEF ConnectionInv, ConsentsAreGranted, Holdable, Granted, OnlyGrantedConsentsAreHeld
<1> QED
  BY AggregatorsInitially, ConnectionStep, <1>1, PTL DEF AggregatorsSpec

(* Only an update that somebody asked for takes a consent out of a record; *)
(* signing out sends none.                                                 *)
THEOREM SigningOutKeepsTheLink == AggregatorsSpec => SignOutKeepsTheLink
<1>1. ConnectionInv /\ [AggregatorsNext]_aggregatorVars =>
         [\A m \in Members : record[m] \in Grants /\ record'[m] = "none" => m \in cut]_aggregatorVars
  <2> SUFFICES ASSUME ConnectionInv, AggregatorsNext, NEW m \in Members,
                      record[m] \in Grants, record'[m] = "none"
               PROVE  m \in cut
    OBVIOUS
  <2>0. AggregatorsTypes /\ CutsAreAskedFor /\ record'[m] # record[m] /\ record[m] # "unregistered"
    BY DEF ConnectionInv, AggregatorsTypes
  <2>1. CASE \E w \in writes : UpdateBank(w)
    BY <2>0, <2>1 DEF UpdateBank, CutsAreAskedFor, AggregatorsTypes
  <2>2. CASE RegisterAtBackend
    BY <2>0, <2>2 DEF RegisterAtBackend, AggregatorsTypes
  <2>3. CASE UNCHANGED record
    BY <2>0, <2>3
  <2> QED
    BY <2>1, <2>2, <2>3 DEF AggregatorsNext, MasroofiLanding, HisabLanding, MasroofiWelcome,
       MasroofiLogin, MasroofiSignup, HisabWelcome, HisabLogin, HisabSignup, LandingPage,
       WelcomeScreen, LoginScreen, SignupScreen, OpenForm, CloseForm, Submit, outside,
       LoginAtBackend, Refused, MasroofiSignIn, HisabSignIn, MasroofiPhoneSignIn, HisabPhoneSignIn,
       Enter, RefreshAuth, Gate, MasroofiSignOut, HisabSignOut, MasroofiPhoneSignOut,
       HisabPhoneSignOut, HandleLogout, WebLeave, PhoneSignOut, CloseTab, BankConnectionCard,
       MasroofiPhoneMore, HisabPhoneMore, DisconnectBank, MasroofiLayout, HisabLayout,
       MasroofiPhoneTabs, HisabPhoneTabs, Navigate, AlreadyConnected, NoAnswer, MasroofiConnect,
       HisabConnect, OpenBankConsent, ConnectBank, BuildConsentRedirectUrl, CreateConsent, Decide,
       MasroofiCallback, HisabCallback, MasroofiPhoneCallback, HisabPhoneCallback, HandleCallback,
       SheetReturns, ExchangeAtBank, Exchanged, OpenDashboard, LeaveFailure
<1> QED
  BY AggregatorsInitially, ConnectionStep, <1>1, PTL DEF AggregatorsSpec, SignOutKeepsTheLink

-----------------------------------------------------------------------------
(* The components run side by side and share nothing: what holds of each   *)
(* alone holds of them together.                                           *)

LEMMA PartsRun == Spec => /\ StatementsSpec /\ AggregatorsSpec /\ AccessSpec
                          /\ RegistrySpec /\ ShowroomSpec
<1>1. Init => /\ StatementsInit /\ AggregatorsInit /\ AccessInit
              /\ RegistryInit /\ ShowroomInit
  BY DEF Init
<1>2. [Next]_vars => /\ [StatementsNext]_statementVars /\ [AggregatorsNext]_aggregatorVars
                     /\ [AccessNext]_accessVars /\ [RegistryNext]_registryVars
                     /\ [ShowroomNext]_showroomVars
  BY DEF Next, vars, StatementsRun, AggregatorsRun, AccessRun, RegistryRun, ShowroomRun
<1> QED
  BY <1>1, <1>2, PTL DEF Spec, StatementsSpec, AggregatorsSpec, AccessSpec, RegistrySpec,
     ShowroomSpec

LEMMA ShowroomWellTyped == ShowroomInv => ShowroomTypeOK
BY DEF ShowroomInv, ShowroomTypes, CreationsAreTheirOwn, Made, LoanType, ShowroomTypeOK

LEMMA AggregatorsWellTyped == ConnectionInv => AggregatorsTypeOK
<1> SUFFICES ASSUME ConnectionInv PROVE AggregatorsTypeOK
  OBVIOUS
<1>1. AggregatorsTypes
  BY DEF ConnectionInv
<1> QED
  BY <1>1 DEF AggregatorsTypes, AggregatorsTypeOK, SigningType, ExchangeType, LinkType, GrantStatuses

(* In every part and at any time the state is well-formed, no account is   *)
(* overdrawn, and no page shows what was never booked.                     *)
THEOREM ClientsTypeCorrect == Spec => []ClientsTypeOK
<1>1. /\ AccessInv => AccessTypeOK
      /\ RegistryInv => RegistryTypeOK
  BY DEF AccessInv, RegistryInv
<1>2. /\ StatementsTypeOK /\ AggregatorsTypeOK /\ AccessTypeOK /\ RegistryTypeOK /\ ShowroomTypeOK
         => ClientsTypeOK
  BY DEF ClientsTypeOK
<1> QED
  BY <1>1, <1>2, PartsRun, StatementsInitially, StatementStep, StatementsWellTyped,
     AggregatorsInitially, ConnectionStep, AggregatorsWellTyped, AccessInitially, AccessStep,
     RegistryInitially, RegistryStep, ShowroomInitially, ShowroomStep, ShowroomWellTyped, PTL
     DEF StatementsSpec, AggregatorsSpec, AccessSpec, RegistrySpec, ShowroomSpec
====
