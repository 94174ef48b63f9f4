------------------------ MODULE DealerWebhooksProofs ------------------------
(***************************************************************************)
(* Proofs about DealerWebhooks for any number of webhooks and of drains in *)
(* flight, and for any max_attempts, batch size, replays and deaths.       *)
(***************************************************************************)
EXTENDS DealerWebhooks, TLAPS

----------------------------------------------------------------------------
(* The inductive invariant                                                 *)

\* No count runs ahead of the POSTs: neither the row's, nor the one a
\* delivery carries and writes back, plus one once its own POST is sent.
CountsAreEarned ==
    /\ \A w \in Webhooks : attempts[w] <= tries[w]
    /\ \A k \in Batches, w \in Webhooks :
        /\ At(k, w, "post") => job[k][w].read <= tries[w]
        /\ At(k, w, "ok") \/ At(k, w, "failed") => job[k][w].read + 1 <= tries[w]
        /\ At(k, w, "ok") => heard[w]

\* A row that can be drained, and a delivery in flight, leave room for one
\* more attempt.
RoomForOneMore ==
    /\ \A w \in Webhooks : status[w] \notin Ended => attempts[w] < MaxAttempts + replays[w]
    /\ \A k \in Batches, w \in Webhooks :
        ~At(k, w, "none") => job[k][w].read < MaxAttempts + replays[w]

IInv == TypeOK /\ CountsAreEarned /\ RoomForOneMore /\ OutcomesAreEarned /\ AttemptsBounded

----------------------------------------------------------------------------
(* What one delivery's step leaves behind                                  *)

\* Only the delivery of w by batch k changed, to new.
OnlyJob(k, w, new) ==
    /\ job' \in [Batches -> [Webhooks -> [at : Stages, read : Nat]]]
    /\ job'[k][w] = new
    /\ \A j \in Batches, v \in Webhooks : j # k \/ v # w => job'[j][v] = job[j][v]

LEMMA SetJobOnly ==
  ASSUME TypeOK, NEW k \in Batches, NEW w \in Webhooks,
         NEW new \in [at : Stages, read : Nat], SetJob(k, w, new)
  PROVE  OnlyJob(k, w, new)
<1>1. job' = [job EXCEPT ![k] = [job[k] EXCEPT ![w] = new]]
  BY DEF SetJob, TypeOK
<1>2. [job[k] EXCEPT ![w] = new] \in [Webhooks -> [at : Stages, read : Nat]]
  BY DEF TypeOK
<1>3. job' \in [Batches -> [Webhooks -> [at : Stages, read : Nat]]]
  BY <1>1, <1>2 DEF TypeOK
<1>4. job'[k] = [job[k] EXCEPT ![w] = new] /\ \A j \in Batches : j # k => job'[j] = job[j]
  BY <1>1 DEF TypeOK
<1>5. job'[k][w] = new /\ \A v \in Webhooks : v # w => job'[k][v] = job[k][v]
  BY <1>4 DEF TypeOK
<1> QED
  BY <1>3, <1>4, <1>5 DEF OnlyJob

LEMMA NoJobIsAJob == NoJob \in [at : Stages, read : Nat]
  BY DEF NoJob, Stages

\* The outcome of k's delivery of w is written with the count it had read.
Recorded(k, w, outcome) ==
    /\ status' = [status EXCEPT ![w] = outcome]
    /\ attempts' = [attempts EXCEPT ![w] = job[k][w].read + 1]
    /\ SetJob(k, w, NoJob)
    /\ due' \in [Webhooks -> BOOLEAN]
    /\ UNCHANGED <<tries, heard, replays, deaths>>

\* Any outcome keeps the invariant, if the POST it reports was earned.
LEMMA RecordedStep ==
  ASSUME IInv, NEW k \in Batches, NEW w \in Webhooks,
         NEW outcome \in {"pending", "delivered", "dead_letter"},
         At(k, w, "ok") \/ At(k, w, "failed"),
         outcome = "delivered" => At(k, w, "ok"),
         outcome = "dead_letter" => job[k][w].read + 1 >= MaxAttempts,
         outcome = "pending" => job[k][w].read + 1 < MaxAttempts,
         Recorded(k, w, outcome)
  PROVE  IInv'
<1> USE AttemptsAssumption
<1>1. OnlyJob(k, w, NoJob)
  BY SetJobOnly, NoJobIsAJob DEF IInv, Recorded
<1>2. TypeOK'
  BY <1>1 DEF IInv, TypeOK, Recorded, OnlyJob, Statuses
<1>3. /\ job[k][w].read \in Nat
      /\ job[k][w].read + 1 <= tries[w]
      /\ job[k][w].read < MaxAttempts + replays[w]
      /\ At(k, w, "ok") => heard[w]
  BY DEF IInv, TypeOK, CountsAreEarned, RoomForOneMore, At
<1>4. /\ status'[w] = outcome /\ attempts'[w] = job[k][w].read + 1
      /\ \A v \in Webhooks : v # w => status'[v] = status[v] /\ attempts'[v] = attempts[v]
  BY DEF IInv, TypeOK, Recorded
<1>5. \A j \in Batches, v \in Webhooks : ~(j = k /\ v = w) => job'[j][v] = job[j][v]
  BY <1>1 DEF OnlyJob
<1>6. job'[k][w].at = "none"
  BY <1>1 DEF OnlyJob, NoJob
<1>7. UNCHANGED <<tries, heard, replays>>
  BY DEF Recorded
<1>8. CountsAreEarned'
  <2>1. \A v \in Webhooks : attempts'[v] <= tries'[v]
    BY <1>3, <1>4, <1>7 DEF IInv, CountsAreEarned
  <2>2. ASSUME NEW j \in Batches, NEW v \in Webhooks
        PROVE  /\ At(j, v, "post")' => job'[j][v].read <= tries'[v]
               /\ At(j, v, "ok")' \/ At(j, v, "failed")' => job'[j][v].read + 1 <= tries'[v]
               /\ At(j, v, "ok")' => heard'[v]
    <3>1. CASE j = k /\ v = w
      BY <3>1, <1>6 DEF At
    <3>2. CASE ~(j = k /\ v = w)
      BY <3>2, <1>5, <1>7 DEF At, IInv, CountsAreEarned
    <3> QED
      BY <3>1, <3>2
  <2> QED
    BY <2>1, <2>2 DEF CountsAreEarned
<1>9. RoomForOneMore'
  <2>1. ASSUME NEW v \in Webhooks, status'[v] \notin Ended
        PROVE  attempts'[v] < MaxAttempts + replays'[v]
    <3>1. CASE v = w
      <4>1. outcome = "pending"
        BY <2>1, <3>1, <1>4 DEF Ended
      <4>2. replays[w] \in Nat
        BY DEF IInv, TypeOK
      <4> QED
        BY <4>1, <4>2, <3>1, <1>3, <1>4, <1>7
    <3>2. CASE v # w
      BY <2>1, <3>2, <1>4, <1>7 DEF IInv, RoomForOneMore
    <3> QED
      BY <3>1, <3>2
  <2>2. ASSUME NEW j \in Batches, NEW v \in Webhooks, ~At(j, v, "none")'
        PROVE  job'[j][v].read < MaxAttempts + replays'[v]
    BY <2>2, <1>5, <1>6, <1>7 DEF At, IInv, RoomForOneMore
  <2> QED
    BY <2>1, <2>2 DEF RoomForOneMore
<1>10. OutcomesAreEarned'
  <2>1. ASSUME NEW v \in Webhooks
        PROVE  /\ attempts'[v] <= tries'[v]
               /\ status'[v] = "dead_letter" => tries'[v] >= MaxAttempts
               /\ status'[v] = "delivered" => heard'[v]
    <3>1. CASE v = w
      <4>1. tries[w] \in Nat
        BY DEF IInv, TypeOK
      <4>2. outcome = "dead_letter" => tries[w] >= MaxAttempts
        BY <4>1, <1>3
      <4>3. outcome = "delivered" => heard[w]
        BY <1>3
      <4> QED
        BY <3>1, <4>2, <4>3, <1>3, <1>4, <1>7
    <3>2. CASE v # w
      BY <3>2, <1>4, <1>7 DEF IInv, OutcomesAreEarned
    <3> QED
      BY <3>1, <3>2
  <2> QED
    BY <2>1 DEF OutcomesAreEarned
<1>11. AttemptsBounded'
  <2>1. replays[w] \in Nat
    BY DEF IInv, TypeOK
  <2> QED
    BY <2>1, <1>3, <1>4, <1>7 DEF IInv, AttemptsBounded
<1> QED
  BY <1>2, <1>8, <1>9, <1>10, <1>11 DEF IInv

\* A delivery that ends without an outcome takes nothing with it.
LEMMA DeathStep ==
  ASSUME IInv, NEW k \in Batches, NEW w \in Webhooks, DeliveryDies(k, w)
  PROVE  IInv'
<1>1. OnlyJob(k, w, NoJob)
  BY SetJobOnly, NoJobIsAJob DEF IInv, DeliveryDies
<1>2. TypeOK'
  BY <1>1 DEF IInv, TypeOK, DeliveryDies, OnlyJob
<1>3. UNCHANGED <<status, attempts, tries, heard, replays>>
  BY DEF DeliveryDies
<1>4. OutcomesAreEarned' /\ AttemptsBounded'
  BY <1>3 DEF IInv, OutcomesAreEarned, AttemptsBounded
<1>5. \A j \in Batches, v \in Webhooks :
          job'[j][v] = job[j][v] \/ job'[j][v].at = "none"
  BY <1>1 DEF OnlyJob, NoJob
<1>6. CountsAreEarned' /\ RoomForOneMore'
  BY <1>3, <1>5 DEF IInv, CountsAreEarned, RoomForOneMore, At
<1> QED
  BY <1>2, <1>4, <1>6 DEF IInv

\* A POST earns one attempt.
LEMMA PostStep ==
  ASSUME IInv, NEW k \in Batches, NEW w \in Webhooks, Post(k, w)
  PROVE  IInv'
<1>1. PICK accepted \in BOOLEAN, answered \in BOOLEAN :
          /\ heard' = [heard EXCEPT ![w] = @ \/ accepted]
          /\ SetJob(k, w, [job[k][w] EXCEPT !.at = IF accepted /\ answered THEN "ok" ELSE "failed"])
  BY DEF Post
<1>2. PICK new \in [at : {"ok", "failed"}, read : Nat] :
          /\ new.read = job[k][w].read
          /\ new.at = "ok" => accepted
          /\ SetJob(k, w, new)
  BY <1>1 DEF IInv, TypeOK
<1>3. OnlyJob(k, w, new)
  BY <1>2, SetJobOnly DEF IInv, Stages
<1>4. /\ tries' = [tries EXCEPT ![w] = @ + 1]
      /\ UNCHANGED <<status, attempts, due, replays, deaths>>
  BY DEF Post
<1>5. TypeOK'
  BY <1>1, <1>3, <1>4 DEF IInv, TypeOK, OnlyJob
<1>6. \A v \in Webhooks : /\ tries[v] \in Nat /\ tries'[v] \in Nat
                          /\ tries[v] <= tries'[v] /\ (heard[v] => heard'[v])
  BY <1>1, <1>4 DEF IInv, TypeOK
<1>7. tries'[w] = tries[w] + 1 /\ (accepted => heard'[w])
  BY <1>1, <1>4 DEF IInv, TypeOK
<1>8. job'[k][w] = new /\ \A j \in Batches, v \in Webhooks : ~(j = k /\ v = w) => job'[j][v] = job[j][v]
  BY <1>3 DEF OnlyJob
<1>9. /\ job[k][w].read <= tries[w] /\ job[k][w].read < MaxAttempts + replays[w]
      /\ job[k][w].read \in Nat
  BY DEF Post, At, IInv, TypeOK, CountsAreEarned, RoomForOneMore
<1>10. CountsAreEarned'
  <2>1. \A v \in Webhooks : attempts'[v] <= tries'[v]
    BY <1>4, <1>6 DEF IInv, TypeOK, CountsAreEarned
  <2>2. ASSUME NEW j \in Batches, NEW v \in Webhooks
        PROVE  /\ At(j, v, "post")' => job'[j][v].read <= tries'[v]
               /\ At(j, v, "ok")' \/ At(j, v, "failed")' => job'[j][v].read + 1 <= tries'[v]
               /\ At(j, v, "ok")' => heard'[v]
    <3>1. CASE j = k /\ v = w
      <4>1. job'[j][v].read = job[k][w].read /\ job'[j][v].at \in {"ok", "failed"}
            /\ (job'[j][v].at = "ok" => accepted)
        BY <3>1, <1>2, <1>8
      <4>2. job'[j][v].read + 1 <= tries'[v]
        BY <4>1, <3>1, <1>6, <1>7, <1>9
      <4> QED
        BY <4>1, <4>2, <3>1, <1>7 DEF At
    <3>2. CASE ~(j = k /\ v = w)
      <4>1. job'[j][v] = job[j][v] /\ job[j][v].read \in Nat
        BY <3>2, <1>8 DEF IInv, TypeOK
      <4> QED
        BY <4>1, <1>6 DEF At, IInv, CountsAreEarned
    <3> QED
      BY <3>1, <3>2
  <2> QED
    BY <2>1, <2>2 DEF CountsAreEarned
<1>11. RoomForOneMore'
  <2>1. \A v \in Webhooks : status'[v] \notin Ended => attempts'[v] < MaxAttempts + replays'[v]
    BY <1>4 DEF IInv, RoomForOneMore
  <2>2. ASSUME NEW j \in Batches, NEW v \in Webhooks, ~At(j, v, "none")'
        PROVE  job'[j][v].read < MaxAttempts + replays'[v]
    <3>1. CASE j = k /\ v = w
      BY <3>1, <1>2, <1>4, <1>8, <1>9
    <3>2. CASE ~(j = k /\ v = w)
      BY <3>2, <2>2, <1>4, <1>8 DEF At, IInv, RoomForOneMore
    <3> QED
      BY <3>1, <3>2
  <2> QED
    BY <2>1, <2>2 DEF RoomForOneMore
<1>12. OutcomesAreEarned' /\ AttemptsBounded'
  <2>1. \A v \in Webhooks : /\ attempts'[v] <= tries'[v]
                            /\ status'[v] = "dead_letter" => tries'[v] >= MaxAttempts
                            /\ status'[v] = "delivered" => heard'[v]
    BY <1>4, <1>6, AttemptsAssumption DEF IInv, TypeOK, OutcomesAreEarned
  <2> QED
    BY <2>1, <1>4 DEF IInv, OutcomesAreEarned, AttemptsBounded
<1> QED
  BY <1>5, <1>10, <1>11, <1>12 DEF IInv

\* Handlers, the clock and replays do not touch deliveries in flight.
LEMMA RowStep ==
  ASSUME IInv, NEW w \in Webhooks, Enqueue(w) \/ RetryDue(w) \/ Replay(w)
  PROVE  IInv'
<1> USE AttemptsAssumption
<1>1. TypeOK'
  <2>1. CASE Enqueue(w)
    BY <2>1 DEF IInv, TypeOK, Enqueue, Statuses
  <2>2. CASE RetryDue(w)
    BY <2>2 DEF IInv, TypeOK, RetryDue
  <2>3. CASE Replay(w)
    BY <2>3 DEF IInv, TypeOK, Replay, Statuses
  <2> QED
    BY <2>1, <2>2, <2>3
<1>2. /\ UNCHANGED <<attempts, job, tries, heard>>
      /\ \A v \in Webhooks : /\ status'[v] = status[v] \/ status'[v] = "pending"
                             /\ replays[v] \in Nat /\ replays'[v] \in Nat
                             /\ attempts[v] \in Nat
                             /\ replays[v] <= replays'[v]
  BY DEF IInv, TypeOK, Enqueue, RetryDue, Replay
<1>3. CountsAreEarned'
  BY <1>2 DEF IInv, CountsAreEarned, At
<1>4. ASSUME NEW v \in Webhooks, status'[v] \notin Ended
      PROVE  attempts'[v] < MaxAttempts + replays'[v]
  <2>1. CASE status[v] \notin Ended
    BY <2>1, <1>2 DEF IInv, RoomForOneMore
  <2>2. CASE status[v] \in Ended
    <3>1. Replay(w) /\ v = w
      BY <2>2, <1>4 DEF Enqueue, RetryDue, Replay, Ended, IInv, TypeOK
    <3>2. replays'[v] = replays[v] + 1
      BY <3>1 DEF Replay, IInv, TypeOK
    <3>3. attempts[v] <= MaxAttempts + replays[v]
      BY DEF IInv, AttemptsBounded
    <3> QED
      BY <3>2, <3>3, <1>2
  <2> QED
    BY <2>1, <2>2
<1>5. ASSUME NEW k \in Batches, NEW v \in Webhooks, ~At(k, v, "none")'
      PROVE  job'[k][v].read < MaxAttempts + replays'[v]
  <2>1. job'[k][v].read = job[k][v].read /\ job[k][v].read \in Nat
    BY <1>2 DEF IInv, TypeOK
  <2>2. job[k][v].read < MaxAttempts + replays[v]
    BY <1>2, <1>5 DEF IInv, RoomForOneMore, At
  <2> QED
    BY <2>1, <2>2, <1>2
<1>6. RoomForOneMore'
  BY <1>4, <1>5 DEF RoomForOneMore
<1>7. OutcomesAreEarned' /\ AttemptsBounded'
  <2>1. AttemptsBounded'
    BY <1>2 DEF IInv, AttemptsBounded
  <2>2. OutcomesAreEarned'
    BY <1>2 DEF IInv, OutcomesAreEarned
  <2> QED
    BY <2>1, <2>2
<1> QED
  BY <1>1, <1>3, <1>6, <1>7 DEF IInv

\* A drain copies the counts of rows that are pending.
LEMMA DrainStep ==
  ASSUME IInv, NEW k \in Batches, NEW S \in SUBSET Webhooks, Drain(k, S)
  PROVE  IInv'
<1>1. job' = [job EXCEPT ![k] =
          [w \in Webhooks |-> IF w \in S THEN [at |-> "post", read |-> attempts[w]] ELSE NoJob]]
  BY DEF Drain
<1>2. UNCHANGED <<status, attempts, due, tries, heard, replays, deaths>>
  BY DEF Drain
<1>3. \A w \in Webhooks :
          (IF w \in S THEN [at |-> "post", read |-> attempts[w]] ELSE NoJob)
              \in [at : Stages, read : Nat]
  BY DEF IInv, TypeOK, Stages, NoJob
<1>4. job' \in [Batches -> [Webhooks -> [at : Stages, read : Nat]]]
  BY <1>1, <1>3 DEF IInv, TypeOK
<1>5. TypeOK'
  BY <1>2, <1>4 DEF IInv, TypeOK
<1>6. \A j \in Batches, w \in Webhooks :
          \/ job'[j][w] = job[j][w]
          \/ job'[j][w].at = "none"
          \/ status[w] = "pending" /\ job'[j][w] = [at |-> "post", read |-> attempts[w]]
  <2>1. ASSUME NEW w \in Webhooks
        PROVE  \/ job'[k][w].at = "none"
               \/ status[w] = "pending" /\ job'[k][w] = [at |-> "post", read |-> attempts[w]]
    <3>1. job'[k][w] = IF w \in S THEN [at |-> "post", read |-> attempts[w]] ELSE NoJob
      BY <1>1 DEF IInv, TypeOK
    <3>2. w \in S => status[w] = "pending"
      BY DEF Drain
    <3> QED
      BY <3>1, <3>2 DEF NoJob
  <2>2. \A j \in Batches : j # k => job'[j] = job[j]
    BY <1>1 DEF IInv, TypeOK
  <2> QED
    BY <2>1, <2>2
<1>7. OutcomesAreEarned' /\ AttemptsBounded'
  BY <1>2 DEF IInv, OutcomesAreEarned, AttemptsBounded
<1>8. CountsAreEarned'
  <2>1. \A w \in Webhooks : attempts'[w] <= tries'[w]
    BY <1>2 DEF IInv, CountsAreEarned
  <2>2. ASSUME NEW j \in Batches, NEW w \in Webhooks
        PROVE  /\ At(j, w, "post")' => job'[j][w].read <= tries'[w]
               /\ At(j, w, "ok")' \/ At(j, w, "failed")' => job'[j][w].read + 1 <= tries'[w]
               /\ At(j, w, "ok")' => heard'[w]
    <3>1. CASE job'[j][w] = job[j][w]
      BY <3>1, <1>2 DEF IInv, CountsAreEarned, At
    <3>2. CASE job'[j][w].at = "none"
      BY <3>2 DEF At
    <3>3. CASE job'[j][w] = [at |-> "post", read |-> attempts[w]]
      <4>1. job'[j][w].at = "post" /\ job'[j][w].read = attempts[w]
        BY <3>3
      <4> QED
        BY <4>1, <2>1, <1>2 DEF At
    <3> QED
      BY <3>1, <3>2, <3>3, <1>6
  <2> QED
    BY <2>1, <2>2 DEF CountsAreEarned
<1>9. RoomForOneMore'
  <2>1. \A w \in Webhooks : status[w] = "pending" => attempts[w] < MaxAttempts + replays[w]
    BY DEF IInv, RoomForOneMore, Ended
  <2>2. ASSUME NEW j \in Batches, NEW w \in Webhooks, ~At(j, w, "none")'
        PROVE  job'[j][w].read < MaxAttempts + replays'[w]
    <3>1. CASE job'[j][w] = job[j][w]
      BY <2>2, <3>1, <1>2 DEF IInv, RoomForOneMore, At
    <3>2. CASE job'[j][w].at = "none"
      BY <2>2, <3>2 DEF At
    <3>3. CASE status[w] = "pending" /\ job'[j][w] = [at |-> "post", read |-> attempts[w]]
      <4>1. job'[j][w].read = attempts[w]
        BY <3>3
      <4> QED
        BY <4>1, <3>3, <2>1, <1>2
    <3> QED
      BY <3>1, <3>2, <3>3, <1>6
  <2> QED
    BY <2>2, <1>2 DEF IInv, RoomForOneMore
<1> QED
  BY <1>5, <1>7, <1>8, <1>9 DEF IInv

----------------------------------------------------------------------------
(* The theorems                                                            *)

\* The invariant holds in every reachable state of webhook_worker.py and
\* api/webhooks.py.
THEOREM Invariant == Spec => []IInv
<1>1. Init => IInv
  <2> SUFFICES ASSUME Init PROVE IInv
    OBVIOUS
  <2> USE AttemptsAssumption
  <2>1. \A k \in Batches, w \in Webhooks : job[k][w] = NoJob
    BY DEF Init
  <2>2. TypeOK
    BY NoJobIsAJob DEF Init, TypeOK, Statuses
  <2>3. CountsAreEarned /\ RoomForOneMore
    BY <2>1 DEF Init, CountsAreEarned, RoomForOneMore, At, NoJob
  <2>4. OutcomesAreEarned /\ AttemptsBounded
    BY DEF Init, OutcomesAreEarned, AttemptsBounded
  <2> QED
    BY <2>2, <2>3, <2>4 DEF IInv
<1>2. IInv /\ [Next]_vars => IInv'
  <2> SUFFICES ASSUME IInv, [Next]_vars PROVE IInv'
    OBVIOUS
  <2>1. CASE UNCHANGED vars
    <3>1. UNCHANGED <<status, attempts, due, job, tries, heard, replays, deaths>>
      BY <2>1 DEF vars
    <3> QED
      BY <3>1 DEF IInv, TypeOK, CountsAreEarned, RoomForOneMore, At, OutcomesAreEarned,
                  AttemptsBounded
  <2>2. CASE \E w \in Webhooks : Enqueue(w) \/ RetryDue(w) \/ Replay(w)
    BY <2>2, RowStep
  <2>3. CASE \E k \in Batches, S \in SUBSET Webhooks : Drain(k, S)
    BY <2>3, DrainStep
  <2>4. ASSUME NEW k \in Batches, NEW w \in Webhooks,
               Post(k, w) \/ Record(k, w) \/ DeliveryDies(k, w)
        PROVE  IInv'
    <3>1. CASE Post(k, w)
      BY <3>1, PostStep
    <3>2. CASE RecordDelivered(k, w)
      <4>1. Recorded(k, w, "delivered")
        BY <3>2 DEF RecordDelivered, Recorded, IInv, TypeOK
      <4>2. At(k, w, "ok")
        BY <3>2 DEF RecordDelivered
      <4> QED
        BY <4>1, <4>2, RecordedStep
    <3>3. CASE RecordDeadLetter(k, w)
      <4>1. Recorded(k, w, "dead_letter")
        BY <3>3 DEF RecordDeadLetter, Recorded, IInv, TypeOK
      <4>2. At(k, w, "failed") /\ job[k][w].read + 1 >= MaxAttempts
        BY <3>3 DEF RecordDeadLetter
      <4> QED
        BY <4>1, <4>2, RecordedStep
    <3>4. CASE RecordRetry(k, w)
      <4>1. Recorded(k, w, "pending")
        BY <3>4 DEF RecordRetry, Recorded, IInv, TypeOK
      <4>2. At(k, w, "failed") /\ job[k][w].read + 1 < MaxAttempts
        BY <3>4 DEF RecordRetry
      <4> QED
        BY <4>1, <4>2, RecordedStep
    <3>5. CASE DeliveryDies(k, w)
      BY <3>5, DeathStep
    <3> QED
      BY <2>4, <3>1, <3>2, <3>3, <3>4, <3>5 DEF Record
  <2> QED
    BY <2>1, <2>2, <2>3, <2>4 DEF Next
<1> QED
  BY <1>1, <1>2, PTL DEF Spec

\* Every variable keeps its type.
THEOREM DeliveryTypeCorrect == Spec => []TypeOK
<1>1. IInv => TypeOK
  BY DEF IInv
<1> QED
  BY <1>1, Invariant, PTL

\* Drains that overlap and lose each other's counts never claim an attempt or
\* a delivery that was not made, nor give up before max_attempts POSTs.
THEOREM OutcomesEarned == Spec => []OutcomesAreEarned
<1>1. IInv => OutcomesAreEarned
  BY DEF IInv
<1> QED
  BY <1>1, Invariant, PTL

\* Stale counts never carry a webhook beyond max_attempts and its replays.
THEOREM AttemptsStayBounded == Spec => []AttemptsBounded
<1>1. IInv => AttemptsBounded
  BY DEF IInv
<1> QED
  BY <1>1, Invariant, PTL

\* Nothing but a replay or the late failure of a delivery reopens a webhook
\* that ended; in particular no drain does.
THEOREM OnlyLateReopen == Spec => OnlyLateFailuresReopen
<1> DEFINE Reopening ==
      \A w \in Webhooks :
        status[w] \in Ended /\ status'[w] = "pending"
            => \/ replays'[w] > replays[w]
               \/ \E k \in Batches : At(k, w, "failed") /\ ~At(k, w, "failed")'
<1>1. IInv /\ [Next]_vars => Reopening
  <2> SUFFICES ASSUME IInv, [Next]_vars, NEW w \in Webhooks,
                      status[w] \in Ended, status'[w] = "pending"
               PROVE  \/ replays'[w] > replays[w]
                      \/ \E k \in Batches : At(k, w, "failed") /\ ~At(k, w, "failed")'
    OBVIOUS
  <2>1. status'[w] # status[w]
    BY DEF Ended
  <2>2. CASE \E v \in Webhooks : Enqueue(v) \/ RetryDue(v) \/ Replay(v)
    <3>1. PICK v \in Webhooks : Enqueue(v) \/ RetryDue(v) \/ Replay(v)
      BY <2>2
    <3>2. Replay(v) /\ v = w
      BY <2>1, <3>1 DEF Enqueue, RetryDue, Replay, Ended, IInv, TypeOK
    <3> QED
      BY <3>2 DEF Replay, IInv, TypeOK
  <2>3. CASE \E k \in Batches, v \in Webhooks : Post(k, v) \/ Record(k, v) \/ DeliveryDies(k, v)
    <3>1. PICK k \in Batches, v \in Webhooks : Post(k, v) \/ Record(k, v) \/ DeliveryDies(k, v)
      BY <2>3
    <3>2. RecordRetry(k, v) /\ v = w
      BY <2>1, <3>1 DEF Post, Record, RecordDelivered, RecordDeadLetter, RecordRetry,
                        DeliveryDies, IInv, TypeOK
    <3>3. OnlyJob(k, w, NoJob)
      BY <3>2, SetJobOnly, NoJobIsAJob DEF RecordRetry, IInv
    <3> QED
      BY <3>2, <3>3 DEF RecordRetry, At, OnlyJob, NoJob
  <2>4. CASE \E k \in Batches, S \in SUBSET Webhooks : Drain(k, S)
    BY <2>1, <2>4 DEF Drain
  <2>5. CASE UNCHANGED vars
    BY <2>1, <2>5 DEF vars
  <2> QED
    BY <2>2, <2>3, <2>4, <2>5 DEF Next
<1>2. Spec => []IInv /\ [][Next]_vars
  BY Invariant, PTL DEF Spec
<1>3. IInv /\ [Next]_vars => [Reopening]_vars
  BY <1>1
<1> QED
  BY <1>2, <1>3, PTL DEF OnlyLateFailuresReopen
=============================================================================
