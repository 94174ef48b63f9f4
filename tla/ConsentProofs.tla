---------------------------- MODULE ConsentProofs ----------------------------
(***************************************************************************)
(* Proofs about ConsentLifecycle for any number of consents, customers,    *)
(* validations and replicas.                                               *)
(***************************************************************************)
EXTENDS ConsentLifecycle, TLAPS

\* What a validation or a sweep read some time ago still holds: time does not
\* run back, so a consent found past its time stays past its time, whatever
\* else happened to it since.
StaleIsOverdue ==
    /\ \A v \in Validations :
        stale[v] # NoConsent => deadline[stale[v]] = "passed" /\ customer[stale[v]] # NoCustomer
    /\ \A w \in Sweepers : sweep[w] # Asleep => \A c \in sweep[w] : deadline[c] = "passed"

ConsentInv == TypeOK /\ StaleIsOverdue

----------------------------------------------------------------------------
(* One transaction on one row                                              *)

\* What a move leaves behind, and that only the moves of the state machine
\* are made.
LEMMA MoveRow ==
  ASSUME TypeOK, NEW c \in Consents, NEW to \in Statuses, Move(c, to)
  PROVE  /\ status' \in [Consents -> Statuses]
         /\ status'[c] = to
         /\ \A d \in Consents : d # c => status'[d] = status[d]
         /\ history' \in [Consents -> Seq(Statuses \X Statuses)]
         /\ <<status[c], to>> \in Transitions
  BY DEF Move, TypeOK

LEMMA InitConsentInv == Init => ConsentInv
  BY NoConsentAssumption, NoCustomerAssumption, AsleepAssumption
  DEF Init, ConsentInv, TypeOK, StaleIsOverdue, Statuses, Terminal

LEMMA ConsentInvStep == ConsentInv /\ [Next]_vars => ConsentInv'
<1> SUFFICES ASSUME ConsentInv, [Next]_vars PROVE ConsentInv'
  OBVIOUS
<1> USE DEF ConsentInv
<1>1. ASSUME NEW c \in Consents, CreateConsent(c) PROVE ConsentInv'
  <2>1. TypeOK'
    BY <1>1, MoveRow, NoCustomerAssumption DEF CreateConsent, TypeOK, Statuses, Terminal, Transitions
  <2>2. StaleIsOverdue'
    BY <1>1, MoveRow DEF CreateConsent, StaleIsOverdue, TypeOK, Statuses
  <2> QED
    BY <2>1, <2>2
<1>2. ASSUME NEW c \in Consents, RejectConsent(c) PROVE ConsentInv'
  <2>1. TypeOK'
    BY <1>2, MoveRow DEF RejectConsent, TypeOK, Statuses, Terminal, Transitions
  <2>2. StaleIsOverdue'
    BY <1>2, MoveRow DEF RejectConsent, StaleIsOverdue, TypeOK, Statuses
  <2> QED
    BY <2>1, <2>2
<1>3. ASSUME NEW c \in Consents, RevokeConsent(c) PROVE ConsentInv'
  <2>1. TypeOK'
    BY <1>3, MoveRow DEF RevokeConsent, TypeOK, Statuses, Terminal, Transitions
  <2>2. StaleIsOverdue'
    BY <1>3, MoveRow DEF RevokeConsent, StaleIsOverdue, TypeOK, Statuses
  <2> QED
    BY <2>1, <2>2
<1>4. ASSUME NEW c \in Consents, ConsumeConsent(c) PROVE ConsentInv'
  <2>1. TypeOK'
    BY <1>4, MoveRow DEF ConsumeConsent, TypeOK, Statuses, Terminal, Transitions
  <2>2. StaleIsOverdue'
    BY <1>4, MoveRow DEF ConsumeConsent, StaleIsOverdue, TypeOK, Statuses
  <2> QED
    BY <2>1, <2>2
<1>5. ASSUME NEW c \in Consents, NEW u \in Customers, AuthorizeConsent(c, u) PROVE ConsentInv'
  <2>1. TypeOK'
    BY <1>5, MoveRow DEF AuthorizeConsent, TypeOK, Statuses, Terminal, Transitions
  <2>2. \A d \in Consents : customer[d] # NoCustomer => customer'[d] # NoCustomer
    BY <1>5, NoCustomerAssumption DEF AuthorizeConsent, TypeOK
  <2>3. UNCHANGED <<deadline, stale, sweep>>
    BY <1>5 DEF AuthorizeConsent
  <2>4. StaleIsOverdue'
    BY <2>2, <2>3 DEF StaleIsOverdue, TypeOK
  <2> QED
    BY <2>1, <2>4
<1>6. ASSUME NEW c \in Consents, DeadlinePasses(c) PROVE ConsentInv'
  <2>1. TypeOK'
    BY <1>6 DEF DeadlinePasses, TypeOK, Deadlines
  <2>2. \A d \in Consents : deadline[d] = "passed" => deadline'[d] = "passed"
    BY <1>6 DEF DeadlinePasses, TypeOK
  <2>3. StaleIsOverdue'
    BY <1>6, <2>2 DEF DeadlinePasses, StaleIsOverdue, TypeOK
  <2> QED
    BY <2>1, <2>3
<1>7. ASSUME NEW v \in Validations, NEW c \in Consents, ValidateStale(v, c) PROVE ConsentInv'
  <2>1. TypeOK'
    BY <1>7 DEF ValidateStale, TypeOK
  <2>2. StaleIsOverdue'
    BY <1>7, NoCustomerAssumption DEF ValidateStale, StaleIsOverdue, TypeOK
  <2> QED
    BY <2>1, <2>2
<1>8. ASSUME NEW v \in Validations, ExpireSingle(v) PROVE ConsentInv'
  <2> DEFINE c == stale[v]
  <2>1. c \in Consents /\ deadline[c] = "passed" /\ customer[c] # NoCustomer
    BY <1>8 DEF ExpireSingle, TypeOK, StaleIsOverdue
  <2>2. status' \in [Consents -> Statuses] /\ history' \in [Consents -> Seq(Statuses \X Statuses)]
    <3>1. <<"Authorised", "Expired">> \in Statuses \X Statuses
      BY DEF Statuses
    <3>2. history' \in [Consents -> Seq(Statuses \X Statuses)]
      BY <1>8, <2>1, <3>1 DEF ExpireSingle, TypeOK
    <3>3. status' \in [Consents -> Statuses]
      BY <1>8, <2>1 DEF ExpireSingle, TypeOK, Statuses
    <3> QED
      BY <3>2, <3>3
  <2>3. \A d \in Consents : status'[d] = status[d] \/ (status[d] = "Authorised" /\ status'[d] = "Expired")
    BY <1>8, <2>1 DEF ExpireSingle, TypeOK
  <2>4. TypeOK'
    BY <1>8, <2>2, <2>3 DEF ExpireSingle, TypeOK, Statuses, Terminal
  <2>5. StaleIsOverdue'
    BY <1>8, <2>3 DEF ExpireSingle, StaleIsOverdue, TypeOK
  <2> QED
    BY <2>4, <2>5
<1>9. ASSUME NEW v \in Validations, ExpireSingleFails(v) PROVE ConsentInv'
  BY <1>9 DEF ExpireSingleFails, StaleIsOverdue, TypeOK
<1>10. ASSUME NEW w \in Sweepers, SweepStarts(w) PROVE ConsentInv'
  BY <1>10, AsleepAssumption DEF SweepStarts, StaleIsOverdue, TypeOK
<1>11. ASSUME NEW w \in Sweepers, SweepCommits(w) PROVE ConsentInv'
  <2>1. status' \in [Consents -> Statuses] /\ history' \in [Consents -> Seq(Statuses \X Statuses)]
    BY <1>11 DEF SweepCommits, TypeOK, Statuses
  <2>2. \A d \in Consents : status'[d] = status[d] \/ (status[d] = "Authorised" /\ status'[d] = "Expired")
    BY <1>11 DEF SweepCommits, TypeOK
  <2>3. TypeOK'
    BY <1>11, <2>1, <2>2 DEF SweepCommits, TypeOK, Terminal
  <2>4. StaleIsOverdue'
    BY <1>11, <2>2 DEF SweepCommits, StaleIsOverdue, TypeOK
  <2> QED
    BY <2>3, <2>4
<1>12. ASSUME NEW w \in Sweepers, SweepFails(w) PROVE ConsentInv'
  BY <1>12 DEF SweepFails, StaleIsOverdue, TypeOK
<1>13. CASE UNCHANGED vars
  BY <1>13 DEF vars, StaleIsOverdue, TypeOK
<1> QED
  BY <1>1, <1>2, <1>3, <1>4, <1>5, <1>6, <1>7, <1>8, <1>9, <1>10, <1>11, <1>12, <1>13 DEF Next

\* Every variable keeps its type, and exactly the consents that were ever
\* authorised are bound to a customer, whatever requests and sweeps interleave.
THEOREM ConsentTypeCorrect == Spec => []TypeOK
<1>1. ConsentInv => TypeOK
  BY DEF ConsentInv
<1> QED
  BY InitConsentInv, ConsentInvStep, <1>1, PTL DEF Spec

----------------------------------------------------------------------------
(* The rows implement the abstract consent                                 *)

LEMMA GrantInit == Init => Grant!Init
  BY DEF Init, Grant!Init, Terminal

\* A move of one row, as the abstract consent sees it.
LEMMA GrantMove ==
  ASSUME TypeOK, NEW c \in Consents, NEW to \in Statuses, Move(c, to)
  PROVE  /\ {d \in Consents : status'[d] # "none"} =
              {d \in Consents : status[d] # "none"} \cup {c}
         /\ [d \in Consents |-> IF status'[d] \in Terminal THEN status'[d] ELSE "open"] =
              [d \in Consents |-> IF d \in {c} /\ to \in Terminal THEN to
                                  ELSE IF status[d] \in Terminal THEN status[d] ELSE "open"]
<1>1. /\ status'[c] = to
      /\ \A d \in Consents : d # c => status'[d] = status[d]
      /\ <<status[c], to>> \in Transitions
  BY MoveRow
<1>2. to # "none" /\ status[c] \notin Terminal
  BY <1>1 DEF Transitions, Terminal
<1> QED
  BY <1>1, <1>2

LEMMA GrantStep == ConsentInv /\ [Next]_vars => [Grant!Next]_(Grant!gvars)
<1> SUFFICES ASSUME ConsentInv, [Next]_vars PROVE [Grant!Next]_(Grant!gvars)
  OBVIOUS
<1> USE DEF ConsentInv
<1>1. ASSUME NEW c \in Consents, CreateConsent(c) PROVE Grant!Ask(c)
  BY <1>1, GrantMove, MoveRow DEF CreateConsent, Grant!Ask, Statuses, Terminal, Transitions
<1>2. ASSUME NEW c \in Consents, RejectConsent(c) PROVE Grant!Refuse(c)
  <2>1. status[c] = "AwaitingAuthorisation"
    BY <1>2, MoveRow DEF RejectConsent, Statuses, Transitions
  <2>2. customer[c] = NoCustomer
    BY <2>1 DEF TypeOK, Terminal
  <2> QED
    BY <1>2, <2>1, <2>2, GrantMove
    DEF RejectConsent, Grant!Refuse, Grant!End, Grant!Open, Grant!Granted, Statuses, Terminal
<1>3. ASSUME NEW c \in Consents, RevokeConsent(c) PROVE Grant!Withdraw(c)
  <2>1. status[c] = "Authorised"
    BY <1>3, MoveRow DEF RevokeConsent, Statuses, Transitions
  <2>2. customer[c] # NoCustomer
    BY <2>1, NoCustomerAssumption DEF TypeOK, Terminal
  <2> QED
    BY <1>3, <2>1, <2>2, GrantMove
    DEF RevokeConsent, Grant!Withdraw, Grant!End, Grant!Open, Grant!Granted, Statuses, Terminal
<1>4. ASSUME NEW c \in Consents, ConsumeConsent(c) PROVE Grant!UseUp(c)
  <2>1. status[c] = "Authorised"
    BY <1>4, MoveRow DEF ConsumeConsent, Statuses, Transitions
  <2>2. customer[c] # NoCustomer
    BY <2>1, NoCustomerAssumption DEF TypeOK, Terminal
  <2> QED
    BY <1>4, <2>1, <2>2, GrantMove
    DEF ConsumeConsent, Grant!UseUp, Grant!End, Grant!Open, Grant!Granted, Statuses, Terminal
<1>5. ASSUME NEW c \in Consents, NEW u \in Customers, AuthorizeConsent(c, u) PROVE Grant!Grant(c, u)
  <2>1. status[c] = "AwaitingAuthorisation"
    BY <1>5, MoveRow DEF AuthorizeConsent, Statuses, Transitions
  <2>2. customer[c] = NoCustomer
    BY <2>1 DEF TypeOK, Terminal
  <2> QED
    BY <1>5, <2>1, <2>2, GrantMove
    DEF AuthorizeConsent, Grant!Grant, Grant!Open, Grant!Granted, Statuses, Terminal
<1>6. ASSUME NEW c \in Consents, DeadlinePasses(c) PROVE Grant!TimePasses(c)
  BY <1>6 DEF DeadlinePasses, Grant!TimePasses, TypeOK
<1>7. ASSUME NEW v \in Validations, NEW c \in Consents, ValidateStale(v, c)
      PROVE  UNCHANGED Grant!gvars
  BY <1>7 DEF ValidateStale, Grant!gvars
<1>8. ASSUME NEW v \in Validations, ExpireSingle(v)
      PROVE  (\E S \in SUBSET Consents : Grant!Expire(S)) \/ UNCHANGED Grant!gvars
  <2>1. PICK c \in Consents : c = stale[v] /\ deadline[c] = "passed" /\ customer[c] # NoCustomer
    BY <1>8 DEF ExpireSingle, TypeOK, StaleIsOverdue
  <2>2. CASE status[c] = "Authorised"
    <3>1. \A d \in Consents : status'[d] = IF d \in {c} THEN "Expired" ELSE status[d]
      BY <1>8, <2>1, <2>2 DEF ExpireSingle, TypeOK
    <3>2. Grant!Expire({c})
      BY <1>8, <2>1, <2>2, <3>1
      DEF ExpireSingle, Grant!Expire, Grant!End, Grant!Open, Grant!Granted, Terminal
    <3> QED
      BY <3>2
  <2>3. CASE status[c] # "Authorised"
    BY <1>8, <2>1, <2>3 DEF ExpireSingle, Grant!gvars
  <2> QED
    BY <2>2, <2>3
<1>9. ASSUME NEW v \in Validations, ExpireSingleFails(v) PROVE UNCHANGED Grant!gvars
  BY <1>9 DEF ExpireSingleFails, Grant!gvars
<1>10. ASSUME NEW w \in Sweepers, SweepStarts(w) PROVE UNCHANGED Grant!gvars
  BY <1>10 DEF SweepStarts, Grant!gvars
<1>11. ASSUME NEW w \in Sweepers, SweepCommits(w)
       PROVE  \E S \in SUBSET Consents : Grant!Expire(S)
  <2>1. PICK due \in SUBSET Consents :
            due = {c \in Consents : status[c] = "Authorised" /\ c \in sweep[w]}
    OBVIOUS
  <2>2. \A c \in Consents : status'[c] = IF c \in due THEN "Expired" ELSE status[c]
    BY <1>11, <2>1 DEF SweepCommits
  <2>3. \A c \in due : status[c] = "Authorised" /\ deadline[c] = "passed" /\ customer[c] # NoCustomer
    BY <1>11, <2>1, NoCustomerAssumption DEF SweepCommits, StaleIsOverdue, TypeOK, Terminal
  <2>4. UNCHANGED <<customer, oneTime, deadline>>
    BY <1>11 DEF SweepCommits
  <2>5. Grant!Expire(due)
    BY <2>2, <2>3, <2>4
    DEF Grant!Expire, Grant!End, Grant!Open, Grant!Granted, Terminal
  <2> QED
    BY <2>5
<1>12. ASSUME NEW w \in Sweepers, SweepFails(w) PROVE UNCHANGED Grant!gvars
  BY <1>12 DEF SweepFails, Grant!gvars
<1>13. CASE UNCHANGED vars
  BY <1>13 DEF vars, Grant!gvars
<1> QED
  BY <1>1, <1>2, <1>3, <1>4, <1>5, <1>6, <1>7, <1>8, <1>9, <1>10, <1>11, <1>12, <1>13
  DEF Next, Grant!Next

\* A consent has one owner, ends once, is used at most once, and expires only
\* when its time has passed - for any number of sweepers and of validations
\* that act on what they read earlier.
THEOREM ConsentImplementsGrant == Spec => ImplementsGrant
<1>1. Init => ConsentInv /\ Grant!Init
  BY InitConsentInv, GrantInit
<1>2. ConsentInv /\ [Next]_vars => ConsentInv'
  BY ConsentInvStep
<1>3. ConsentInv /\ [Next]_vars => [Grant!Next]_(Grant!gvars)
  BY GrantStep
<1> QED
  BY <1>1, <1>2, <1>3, PTL DEF Spec, ImplementsGrant, Grant!Spec

----------------------------------------------------------------------------
(* The history explains the status                                         *)

Rows == Seq(Statuses \X Statuses)

\* The row of a move of the state machine, appended in the same transaction.
LEMMA MoveExplained ==
  ASSUME NEW rows \in Rows, NEW s \in Statuses \ Terminal, NEW to \in Statuses,
         to # "none", Explains(rows, s)
  PROVE  Explains(Append(rows, <<s, to>>), to)
<1> DEFINE new == Append(rows, <<s, to>>)
<1>1. /\ Len(rows) \in Nat /\ DOMAIN rows = 1..Len(rows)
      /\ Len(new) = Len(rows) + 1 /\ DOMAIN new = 1..Len(new)
      /\ new[Len(new)] = <<s, to>>
      /\ \A i \in DOMAIN rows : new[i] = rows[i]
  BY DEF Rows
<1>2. \A i \in DOMAIN rows : rows[i][2] \notin Terminal
  BY DEF Explains
<1>3. new # <<>>
  BY <1>1
<1> HIDE DEF new
<1>4. CASE to \in Terminal
  <2>1. Len(new) \in {i \in DOMAIN new : new[i][2] \in Terminal}
    BY <1>1, <1>4
  <2> QED
    BY <1>1, <2>1 DEF Explains, new
<1>5. CASE to \notin Terminal
  <2>1. {i \in DOMAIN new : new[i][2] \in Terminal} = {}
    BY <1>1, <1>2, <1>5
  <2> QED
    BY <1>1, <1>3, <2>1 DEF Explains, new
<1> QED
  BY <1>4, <1>5

\* The row of a validation that comes after the consent has ended.
LEMMA LateRowExplained ==
  ASSUME NEW rows \in Rows, NEW s \in Terminal, Explains(rows, s)
  PROVE  Explains(Append(rows, <<"Authorised", "Expired">>), s)
<1> DEFINE new == Append(rows, <<"Authorised", "Expired">>)
<1>1. /\ Len(rows) \in Nat /\ DOMAIN rows = 1..Len(rows)
      /\ Len(new) = Len(rows) + 1 /\ DOMAIN new = 1..Len(new)
      /\ new[Len(new)] = <<"Authorised", "Expired">>
      /\ \A i \in DOMAIN rows : new[i] = rows[i]
  BY DEF Rows, Statuses
<1>2. PICK first \in DOMAIN rows :
        /\ rows[first][2] = s
        /\ \A i \in DOMAIN rows : i > first => rows[i] = <<"Authorised", "Expired">>
  <2>1. CASE {i \in DOMAIN rows : rows[i][2] \in Terminal} = {}
    <3>1. rows # <<>> /\ rows[Len(rows)][2] = s
      BY <2>1 DEF Explains, Terminal
    <3>2. Len(rows) \in DOMAIN rows
      BY <1>1, <3>1 DEF Rows
    <3> QED
      BY <2>1, <3>1, <3>2
  <2> QED
    BY <2>1 DEF Explains
<1> HIDE DEF new
<1>3. first \in {i \in DOMAIN new : new[i][2] \in Terminal}
  BY <1>1, <1>2
<1>4. \A i \in DOMAIN new : i > first => new[i] = <<"Authorised", "Expired">>
  BY <1>1, <1>2
<1>5. new[first][2] = s
  BY <1>1, <1>2
<1> QED
  BY <1>3, <1>4, <1>5 DEF Explains, new

LEMMA HistoryMove ==
  ASSUME TypeOK, HistoryExplainsStatus, NEW c \in Consents, NEW to \in Statuses, Move(c, to)
  PROVE  HistoryExplainsStatus'
<1>1. status[c] \in Statuses \ Terminal /\ to # "none" /\ history[c] \in Rows
  BY MoveRow DEF TypeOK, Transitions, Terminal, Rows
<1>2. Explains(Append(history[c], <<status[c], to>>), to)
  BY <1>1, MoveExplained DEF HistoryExplainsStatus
<1>3. \A d \in Consents : history'[d] = IF d = c THEN Append(history[c], <<status[c], to>>)
                                                ELSE history[d]
  BY DEF Move, TypeOK
<1>4. \A d \in Consents : status'[d] = IF d = c THEN to ELSE status[d]
  BY MoveRow
<1> QED
  BY <1>2, <1>3, <1>4 DEF HistoryExplainsStatus

LEMMA HistoryStep ==
  ConsentInv /\ HistoryExplainsStatus /\ [Next]_vars => HistoryExplainsStatus'
<1> SUFFICES ASSUME ConsentInv, HistoryExplainsStatus, [Next]_vars PROVE HistoryExplainsStatus'
  OBVIOUS
<1> USE DEF ConsentInv
<1>1. ASSUME NEW c \in Consents,
             CreateConsent(c) \/ RejectConsent(c) \/ RevokeConsent(c) \/ ConsumeConsent(c)
      PROVE  HistoryExplainsStatus'
  BY <1>1, HistoryMove DEF CreateConsent, RejectConsent, RevokeConsent, ConsumeConsent, Statuses
<1>2. ASSUME NEW c \in Consents, NEW u \in Customers, AuthorizeConsent(c, u)
      PROVE  HistoryExplainsStatus'
  BY <1>2, HistoryMove DEF AuthorizeConsent, Statuses
<1>3. ASSUME UNCHANGED <<status, history>> PROVE HistoryExplainsStatus'
  BY <1>3 DEF HistoryExplainsStatus
<1>4. ASSUME NEW v \in Validations, ExpireSingle(v) PROVE HistoryExplainsStatus'
  <2>1. PICK c \in Consents : c = stale[v] /\ customer[c] # NoCustomer
    BY <1>4 DEF ExpireSingle, TypeOK, StaleIsOverdue
  <2>2. history[c] \in Rows /\ status[c] \in {"Authorised"} \cup Terminal
    BY <2>1 DEF TypeOK, Rows
  <2>3. \A d \in Consents :
          /\ history'[d] = IF d = c THEN Append(history[c], <<"Authorised", "Expired">>)
                                    ELSE history[d]
          /\ status'[d] = IF d = c /\ status[c] = "Authorised" THEN "Expired" ELSE status[d]
    BY <1>4, <2>1 DEF ExpireSingle, TypeOK
  <2>4. Explains(history'[c], status'[c])
    <3>1. CASE status[c] = "Authorised"
      BY <2>2, <2>3, <3>1, MoveExplained DEF HistoryExplainsStatus, Statuses, Terminal
    <3>2. CASE status[c] \in Terminal
      BY <2>2, <2>3, <3>2, LateRowExplained DEF HistoryExplainsStatus, Terminal
    <3> QED
      BY <2>2, <3>1, <3>2
  <2> QED
    BY <2>3, <2>4 DEF HistoryExplainsStatus
<1>5. ASSUME NEW w \in Sweepers, SweepCommits(w) PROVE HistoryExplainsStatus'
  <2> SUFFICES ASSUME NEW c \in Consents PROVE Explains(history'[c], status'[c])
    BY DEF HistoryExplainsStatus
  <2>1. history[c] \in Rows /\ Explains(history[c], status[c])
    BY DEF TypeOK, Rows, HistoryExplainsStatus
  <2>2. CASE status[c] = "Authorised" /\ c \in sweep[w]
    <3>1. status'[c] = "Expired" /\ history'[c] = Append(history[c], <<"Authorised", "Expired">>)
      BY <1>5, <2>2 DEF SweepCommits
    <3> QED
      BY <2>1, <2>2, <3>1, MoveExplained DEF Statuses, Terminal
  <2>3. CASE ~(status[c] = "Authorised" /\ c \in sweep[w])
    BY <1>5, <2>1, <2>3 DEF SweepCommits
  <2> QED
    BY <2>2, <2>3
<1> QED
  BY <1>1, <1>2, <1>3, <1>4, <1>5
  DEF Next, vars, DeadlinePasses, ValidateStale, ExpireSingleFails, SweepStarts, SweepFails

\* However late a validation writes its EXPIRED row, the history still tells
\* how each consent ended.
THEOREM HistoryExplains == Spec => []HistoryExplainsStatus
<1>1. Init => HistoryExplainsStatus
  <2>1. Explains(<<>>, "none")
    BY DEF Explains
  <2> QED
    BY <2>1 DEF Init, HistoryExplainsStatus
<1> QED
  BY InitConsentInv, ConsentInvStep, <1>1, HistoryStep, PTL DEF Spec
=============================================================================
