--------------------------- MODULE DealerWebhooks ---------------------------
(***************************************************************************)
(* Delivery of the dealer_webhooks rows that the loan handlers queue.      *)
(* Every replica of ob-loan-service runs webhook_loop: it drains a batch   *)
(* of pending rows that are due, POSTs all of them concurrently, and       *)
(* writes each outcome when its POST has ended.  A drain claims nothing:   *)
(* its locks end with its statement and it leaves the rows pending, so     *)
(* other drains may take a row that is being delivered.  The outcome is    *)
(* written without a condition and with the attempt count the drain read.  *)
(*                                                                         *)
(* A batch k is one drain in flight.  There is one per replica, and one    *)
(* more while deliveries of a drain that raised an exception still run.    *)
(*                                                                         *)
(* Abstracted: payload, signature and secret, the time stamps (only        *)
(* whether next_retry_at has passed is kept), metrics.                     *)
(***************************************************************************)
EXTENDS Integers, FiniteSets

CONSTANTS
    Webhooks,     \* webhook ids
    Batches,      \* slots for drains in flight
    BatchSize,    \* rows a drain takes at most (25)
    MaxAttempts,  \* dealer_webhooks.max_attempts (8)
    MaxReplays,   \* bound: replays a dealer asks for, per webhook
    MaxDeaths     \* bound: deliveries that die, in all

ASSUME AttemptsAssumption == MaxAttempts \in Nat \ {0}
ASSUME BoundsAssumption == {BatchSize, MaxReplays, MaxDeaths} \subseteq Nat

VARIABLES
    status,    \* dealer_webhooks.status ("none": not queued yet)
    attempts,  \* dealer_webhooks.delivery_attempts
    due,       \* next_retry_at <= NOW()
    job,       \* job[k][w]: where batch k's delivery of w stands
    tries,     \* POSTs sent for w
    heard,     \* the dealer has accepted w at least once
    replays,   \* replays requested for w
    deaths     \* deliveries that died

vars == <<status, attempts, due, job, tries, heard, replays, deaths>>

\* The schema's statuses; no code writes "failed".
Statuses == {"none", "pending", "delivered", "failed", "dead_letter"}
Ended == {"delivered", "dead_letter"}
Stages == {"none", "post", "ok", "failed"}
NoJob == [at |-> "none", read |-> 0]
At(k, w, stage) == job[k][w].at = stage
SetJob(k, w, new) == job' = [job EXCEPT ![k][w] = new]

Init ==
    /\ status = [w \in Webhooks |-> "none"]
    /\ attempts = [w \in Webhooks |-> 0]
    /\ due = [w \in Webhooks |-> FALSE]
    /\ job = [k \in Batches |-> [w \in Webhooks |-> NoJob]]
    /\ tries = [w \in Webhooks |-> 0]
    /\ heard = [w \in Webhooks |-> FALSE]
    /\ replays = [w \in Webhooks |-> 0]
    /\ deaths = 0

\* A loan handler inserts the row; its columns take their defaults.
Enqueue(w) ==
    /\ status[w] = "none"
    /\ status' = [status EXCEPT ![w] = "pending"]
    /\ due' = [due EXCEPT ![w] = TRUE]
    /\ UNCHANGED <<attempts, job, tries, heard, replays, deaths>>

\* The clock passes next_retry_at.
RetryDue(w) ==
    /\ status[w] = "pending"
    /\ ~due[w]
    /\ due' = [due EXCEPT ![w] = TRUE]
    /\ UNCHANGED <<status, attempts, job, tries, heard, replays, deaths>>

\* Mutant of Drain: the sub-select forgets status = 'pending', so that the
\* UPDATE, which sets it, reopens rows that ended.
DrainAnyDue(k, S) ==
    /\ \A w \in Webhooks : At(k, w, "none")
    /\ S # {} /\ Cardinality(S) <= BatchSize
    /\ \A w \in S : due[w]
    /\ status' = [w \in Webhooks |-> IF w \in S THEN "pending" ELSE status[w]]
    /\ job' = [job EXCEPT ![k] =
           [w \in Webhooks |-> IF w \in S THEN [at |-> "post", read |-> attempts[w]] ELSE NoJob]]
    /\ UNCHANGED <<attempts, due, tries, heard, replays, deaths>>

\* _drain_one_batch: the rows that are due, oldest first and up to BatchSize
\* (fewer if another drain's statement has them locked at that moment).  The
\* loop drains again when every delivery of its batch has ended.
Drain(k, S) ==
    /\ \A w \in Webhooks : At(k, w, "none")
    /\ S # {} /\ Cardinality(S) <= BatchSize
    /\ \A w \in S : status[w] = "pending" /\ due[w]
    /\ job' = [job EXCEPT ![k] =
           [w \in Webhooks |-> IF w \in S THEN [at |-> "post", read |-> attempts[w]] ELSE NoJob]]
    /\ UNCHANGED <<status, attempts, due, tries, heard, replays, deaths>>

\* The POST of _deliver_one: the dealer answers 2xx; or does not, or cannot be
\* reached; or accepts it but the answer is lost (timeout).
Post(k, w) ==
    /\ At(k, w, "post")
    /\ tries' = [tries EXCEPT ![w] = @ + 1]
    /\ \E accepted, answered \in BOOLEAN :
        /\ heard' = [heard EXCEPT ![w] = @ \/ accepted]
        /\ SetJob(k, w, [job[k][w] EXCEPT !.at = IF accepted /\ answered THEN "ok" ELSE "failed"])
    /\ UNCHANGED <<status, attempts, due, replays, deaths>>

RecordDelivered(k, w) ==
    /\ At(k, w, "ok")
    /\ status' = [status EXCEPT ![w] = "delivered"]
    /\ attempts' = [attempts EXCEPT ![w] = job[k][w].read + 1]
    /\ SetJob(k, w, NoJob)
    /\ UNCHANGED <<due, tries, heard, replays, deaths>>

\* Mutants of RecordDeadLetter: gives up one attempt early; counts the attempt
\* twice.
RecordDeadLetterEarly(k, w) ==
    /\ At(k, w, "failed")
    /\ job[k][w].read + 2 >= MaxAttempts
    /\ status' = [status EXCEPT ![w] = "dead_letter"]
    /\ attempts' = [attempts EXCEPT ![w] = job[k][w].read + 1]
    /\ SetJob(k, w, NoJob)
    /\ UNCHANGED <<due, tries, heard, replays, deaths>>

RecordDeadLetterTwice(k, w) ==
    /\ At(k, w, "failed")
    /\ job[k][w].read + 1 >= MaxAttempts
    /\ status' = [status EXCEPT ![w] = "dead_letter"]
    /\ attempts' = [attempts EXCEPT ![w] = job[k][w].read + 2]
    /\ SetJob(k, w, NoJob)
    /\ UNCHANGED <<due, tries, heard, replays, deaths>>

RecordDeadLetter(k, w) ==
    /\ At(k, w, "failed")
    /\ job[k][w].read + 1 >= MaxAttempts
    /\ status' = [status EXCEPT ![w] = "dead_letter"]
    /\ attempts' = [attempts EXCEPT ![w] = job[k][w].read + 1]
    /\ SetJob(k, w, NoJob)
    /\ UNCHANGED <<due, tries, heard, replays, deaths>>

\* Mutant of RecordRetry: the row waits as "failed", which no drain selects.
RecordRetryAsFailed(k, w) ==
    /\ At(k, w, "failed")
    /\ job[k][w].read + 1 < MaxAttempts
    /\ status' = [status EXCEPT ![w] = "failed"]
    /\ attempts' = [attempts EXCEPT ![w] = job[k][w].read + 1]
    /\ due' = [due EXCEPT ![w] = FALSE]
    /\ SetJob(k, w, NoJob)
    /\ UNCHANGED <<tries, heard, replays, deaths>>

RecordRetry(k, w) ==
    /\ At(k, w, "failed")
    /\ job[k][w].read + 1 < MaxAttempts
    /\ status' = [status EXCEPT ![w] = "pending"]
    /\ attempts' = [attempts EXCEPT ![w] = job[k][w].read + 1]
    /\ due' = [due EXCEPT ![w] = FALSE]
    /\ SetJob(k, w, NoJob)
    /\ UNCHANGED <<tries, heard, replays, deaths>>

\* The pod stops, or the outcome cannot be written: it is lost, before or
\* after the dealer has seen the POST.
DeliveryDies(k, w) ==
    /\ ~At(k, w, "none")
    /\ deaths < MaxDeaths
    /\ deaths' = deaths + 1
    /\ SetJob(k, w, NoJob)
    /\ UNCHANGED <<status, attempts, due, tries, heard, replays>>

\* Mutant of Replay: it takes an attempt back, also from a row that had none.
ReplayRefunding(w) ==
    /\ status[w] # "none"
    /\ replays[w] < MaxReplays
    /\ replays' = [replays EXCEPT ![w] = @ + 1]
    /\ status' = [status EXCEPT ![w] = "pending"]
    /\ due' = [due EXCEPT ![w] = TRUE]
    /\ attempts' = [attempts EXCEPT ![w] = @ - 1]
    /\ UNCHANGED <<job, tries, heard, deaths>>

\* POST /webhooks/replay/{id}: whatever the row's status is; the attempts stay.
Replay(w) ==
    /\ status[w] # "none"
    /\ replays[w] < MaxReplays
    /\ replays' = [replays EXCEPT ![w] = @ + 1]
    /\ status' = [status EXCEPT ![w] = "pending"]
    /\ due' = [due EXCEPT ![w] = TRUE]
    /\ UNCHANGED <<attempts, job, tries, heard, deaths>>

----------------------------------------------------------------------------
Record(k, w) == RecordDelivered(k, w) \/ RecordDeadLetter(k, w) \/ RecordRetry(k, w)

Next ==
    \/ \E w \in Webhooks : Enqueue(w) \/ RetryDue(w) \/ Replay(w)
    \/ \E k \in Batches, S \in SUBSET Webhooks : Drain(k, S)
    \/ \E k \in Batches, w \in Webhooks : Post(k, w) \/ Record(k, w) \/ DeliveryDies(k, w)

\* Each loop goes on after any exception and takes the oldest rows first, so a
\* row that is due is drained in the end; a POST has a timeout, and what it
\* returned is written; the clock runs.  A handler need not queue anything.
Fairness ==
    /\ \A w \in Webhooks :
        /\ WF_vars(RetryDue(w))
        /\ SF_vars(\E k \in Batches, S \in SUBSET Webhooks : w \in S /\ Drain(k, S))
    /\ \A k \in Batches, w \in Webhooks : WF_vars(Post(k, w)) /\ WF_vars(Record(k, w))

Spec == Init /\ [][Next]_vars
FairSpec == Spec /\ Fairness

----------------------------------------------------------------------------
(* Properties                                                              *)

\* Every variable has its type.
TypeOK ==
    /\ status \in [Webhooks -> Statuses]
    /\ attempts \in [Webhooks -> Nat]
    /\ due \in [Webhooks -> BOOLEAN]
    /\ job \in [Batches -> [Webhooks -> [at : Stages, read : Nat]]]
    /\ tries \in [Webhooks -> Nat]
    /\ heard \in [Webhooks -> BOOLEAN]
    /\ replays \in [Webhooks -> Nat]
    /\ deaths \in Nat

\* Though drains overlap and overwrite each other's counts, the service never
\* claims an attempt it did not make: the count is at most the number of
\* POSTs, a webhook is given up only after max_attempts of them, and one that
\* is called delivered was accepted by the dealer.
OutcomesAreEarned ==
    \A w \in Webhooks :
        /\ attempts[w] <= tries[w]
        /\ status[w] = "dead_letter" => tries[w] >= MaxAttempts
        /\ status[w] = "delivered" => heard[w]

\* The attempts recorded for a webhook stay within max_attempts and one more
\* for each replay, which keeps them.
AttemptsBounded == \A w \in Webhooks : attempts[w] <= MaxAttempts + replays[w]

\* A webhook that ended is pending again only through a replay, or through the
\* late failure of a delivery that was in flight when it ended.
OnlyLateFailuresReopen ==
    [][\A w \in Webhooks :
        status[w] \in Ended /\ status'[w] = "pending"
            => \/ replays'[w] > replays[w]
               \/ \E k \in Batches : At(k, w, "failed") /\ ~At(k, w, "failed")']_vars

\* However drains overlap and lose counts, every queued webhook ends, and for
\* good once nobody replays it: the loop does not retry for ever.
WebhooksSettle == \A w \in Webhooks : status[w] = "pending" ~> [](status[w] \in Ended)
=============================================================================
