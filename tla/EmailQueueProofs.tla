-------------------------- MODULE EmailQueueProofs --------------------------
(***************************************************************************)
(* Theorems about EmailQueue for any finite set of mails, any batch size,  *)
(* any cap on attempts and any number of faults: the retries stay bounded, *)
(* no update of the counter is lost, repeated copies are explained, and    *)
(* every step is a step of the outbox.                                     *)
(***************************************************************************)
EXTENDS EmailQueue, FiniteSetTheorems, TLAPS

-----------------------------------------------------------------------------
(***************************************************************************)
(* The inductive invariant.  A job of the batch waits until it has been    *)
(* handed to sendMail, and the head of the batch is in hand between the    *)
(* send and the mark.                                                      *)
(***************************************************************************)
Waiting(k) == k \in DOMAIN worker.jobs /\ ~(worker.pc = "mark" /\ k = 1)
InHand(m)  == worker.pc = "mark" /\ worker.jobs[1].mail = m

BatchOK ==
  /\ worker.pc \in {"down", "idle"} <=> worker.jobs = <<>>
  /\ \A k \in DOMAIN worker.jobs :
       /\ worker.jobs[k].mail \in accepted
       /\ worker.jobs[k].attempts < MaxAttempts
  /\ \A j, k \in DOMAIN worker.jobs :
       worker.jobs[j].mail = worker.jobs[k].mail => j = k

\* The counter of a row falls behind the tries by one for a fault, and by one
\* while the failed try is in hand.
RowsOK ==
  /\ schema \/ DOMAIN queue = {}
  /\ \A m \in DOMAIN queue :
       LET n == queue[m].attempts
       IN  /\ n <= tries[m]
           /\ InHand(m) /\ worker.error => n + 1 <= tries[m]
           /\ tries[m] <= n + faults + IF InHand(m) /\ worker.error THEN 1 ELSE 0
           /\ n <= MaxAttempts
           /\ queue[m].status = "failed" <=> n = MaxAttempts

\* A mail that is still to be tried has room for one more error and one more
\* copy, even when its row is gone.
TriesOK ==
  /\ \A m \in Mails \ accepted : tries[m] = 0 /\ copies[m] = 0
  /\ \A m \in Mails : tries[m] <= MaxAttempts + faults
  /\ \A k : Waiting(k) => tries[worker.jobs[k].mail] < MaxAttempts + faults

CopiesOK ==
  /\ \A m \in Mails :
       /\ copies[m] <= 1 + tries[m] + faults
       /\ InHand(m) /\ worker.error => copies[m] <= tries[m] + faults
       /\ InHand(m) /\ ~worker.error => copies[m] > 0
  /\ \A m \in DOMAIN queue : queue[m].status = "pending" /\ ~InHand(m) =>
       copies[m] <= tries[m] + faults
  /\ \A k : Waiting(k) =>
       copies[worker.jobs[k].mail] <= tries[worker.jobs[k].mail] + faults

Inv == TypeOK /\ BatchOK /\ BatchIsFresh /\ RowsOK /\ TriesOK /\ CopiesOK

-----------------------------------------------------------------------------
(***************************************************************************)
(* Lemmas about batches.                                                   *)
(***************************************************************************)
LEMMA Bounds == /\ IsFiniteSet(Mails) /\ MaxAttempts \in Nat \ {0}
                /\ Take \in Nat \ {0} /\ MaxFaults \in Nat
BY QueueAssumption

LEMMA TailFacts ==
  ASSUME NEW s \in Seq(Job), s # <<>>
  PROVE  /\ 1 \in DOMAIN s /\ Head(s) = s[1] /\ s[1] \in Job
         /\ Tail(s) \in Seq(Job)
         /\ DOMAIN Tail(s) = 1..Len(s) - 1
         /\ \A k \in DOMAIN Tail(s) :
              k + 1 \in DOMAIN s /\ k + 1 # 1 /\ Tail(s)[k] = s[k + 1]
OBVIOUS

\* A batch names eligible rows, each once.
LEMMA BatchFacts ==
  ASSUME TypeOK, NEW b \in Batches
  PROVE  /\ Len(b) \in Nat /\ b \in [1..Len(b) -> Eligible]
         /\ \A j, k \in 1..Len(b) : b[j] = b[k] => j = k
<1> DEFINE n == IF Cardinality(Eligible) < Take THEN Cardinality(Eligible)
                                                ELSE Take
<1>1. Cardinality(Eligible) \in Nat
  <2>1. Eligible \subseteq Mails
    BY DEF Eligible, TypeOK
  <2> QED  BY <2>1, Bounds, FS_Subset, FS_CardinalityType
<1>2. n \in Nat
  BY <1>1, Bounds
<1>3. /\ b \in [1..n -> Eligible]
      /\ \A j, k \in 1..n : j < k => b[j] # b[k]
  BY DEF Batches
<1> HIDE DEF n
<1>4. Len(b) = n
  BY <1>2, <1>3
<1>5. ASSUME NEW j \in 1..n, NEW k \in 1..n, b[j] = b[k] PROVE j = k
  BY <1>2, <1>3, <1>5
<1> QED  BY <1>2, <1>3, <1>4, <1>5

\* Nothing of the batch is left, or the head of what is left comes next.
LEMMA ContinueFacts ==
  ASSUME NEW s \in Seq(Job)
  PROVE  /\ Continue(s) \in Worker
         /\ Continue(s).jobs = s
         /\ Continue(s).pc \in {"idle", "send"}
         /\ Continue(s).pc = "idle" <=> s = <<>>
BY DEF Continue, At, Worker

-----------------------------------------------------------------------------
(***************************************************************************)
(* The actions.                                                            *)
(***************************************************************************)
LEMMA EnqueueStep ==
  ASSUME Inv, NEW m \in Mails, Enqueue(m)  PROVE  Inv'
<1>1. /\ accepted' = accepted \cup {m} /\ m \notin accepted
      /\ UNCHANGED <<schema, worker, faults, copies, tries>>
      /\ m \notin DOMAIN queue /\ schema
  BY DEF Enqueue, Inv, TypeOK
<1>2. /\ DOMAIN queue' = DOMAIN queue \cup {m}
      /\ queue'[m] = [status |-> "pending", attempts |-> 0]
      /\ \A x \in DOMAIN queue : queue'[x] = queue[x]
  BY <1>1 DEF Enqueue
<1>3. TypeOK'
  <2>1. \A x \in DOMAIN queue' : queue'[x] \in Row
    BY <1>2 DEF Inv, TypeOK, Row
  <2>2. queue' \in [DOMAIN queue' -> Row]
    BY <1>1, <2>1 DEF Enqueue
  <2> QED  BY <1>1, <1>2, <2>2 DEF Inv, TypeOK
<1>4. BatchOK'
  BY <1>1 DEF Inv, BatchOK
<1>5. ~InHand(m)
  BY <1>1, TailFacts DEF Inv, BatchOK, InHand, TypeOK, Worker
<1>6. BatchIsFresh'
  BY <1>1, <1>2 DEF Inv, BatchOK, BatchIsFresh
<1>7. tries[m] = 0 /\ copies[m] = 0
  BY <1>1 DEF Inv, TriesOK
<1>8. RowsOK'
  <2>1. ASSUME NEW x \in DOMAIN queue', x # m
        PROVE  x \in DOMAIN queue /\ queue'[x] = queue[x]
    BY <1>2, <2>1
  <2> QED  BY <1>1, <1>2, <1>5, <1>7, <2>1, Bounds
           DEF Inv, RowsOK, InHand, TypeOK
<1>9. TriesOK'
  BY <1>1 DEF Inv, TriesOK, Waiting
<1>10. CopiesOK'
  <2>1. ASSUME NEW x \in DOMAIN queue', x # m
        PROVE  x \in DOMAIN queue /\ queue'[x] = queue[x]
    BY <1>2, <2>1
  <2> QED  BY <1>1, <1>2, <1>7, <2>1
           DEF Inv, CopiesOK, InHand, Waiting, TypeOK
<1> QED  BY <1>3, <1>4, <1>6, <1>8, <1>9, <1>10 DEF Inv

\* The worker takes a batch, or the part of one that it could read.
LEMMA TakesBatch ==
  ASSUME Inv, worker.pc = "idle", NEW b \in Batches, NEW n \in 0..Len(b),
         worker' = Continue(Jobs(b, n)), faults' \in {faults, faults + 1},
         faults' <= MaxFaults,
         UNCHANGED <<queue, accepted, schema, copies, tries>>
  PROVE  Inv'
<1> DEFINE s == Jobs(b, n)
<1>1. /\ Len(b) \in Nat /\ b \in [1..Len(b) -> Eligible]
      /\ \A j, k \in 1..Len(b) : b[j] = b[k] => j = k
  BY BatchFacts DEF Inv
<1>2. \A m \in Eligible : /\ m \in DOMAIN queue /\ m \in accepted /\ m \in Mails
                          /\ queue[m] \in Row /\ queue[m].status = "pending"
                          /\ queue[m].attempts < MaxAttempts
  BY DEF Eligible, Inv, TypeOK
<1>3. /\ DOMAIN s = 1..n
      /\ \A k \in 1..n : /\ k \in 1..Len(b) /\ b[k] \in Eligible
                         /\ s[k].mail = b[k]
                         /\ s[k].attempts = queue[b[k]].attempts
  BY <1>1 DEF Jobs
<1>4. s \in Seq(Job)
  <2>1. \A k \in 1..n : s[k] \in Job
    BY <1>2, <1>3 DEF Jobs, Job, Row
  <2>2. n \in Nat
    BY <1>1
  <2> QED  BY <2>1, <2>2 DEF Jobs
<1>5. /\ worker' \in Worker /\ worker'.jobs = s
      /\ worker'.pc \in {"idle", "send"}
      /\ worker'.pc = "idle" <=> s = <<>>
  BY <1>4, ContinueFacts
<1>6. TypeOK' /\ faults' >= faults /\ faults \in Nat
  BY <1>5, Bounds DEF Inv, TypeOK
<1>7. BatchOK'
  BY <1>1, <1>2, <1>3, <1>5 DEF BatchOK
<1>8. BatchIsFresh'
  <2>1. ASSUME NEW k \in 1..n
        PROVE  queue[s[k].mail] = [status |-> "pending",
                                   attempts |-> s[k].attempts]
    BY <1>2, <1>3 DEF Row
  <2> QED  BY <1>3, <1>5, <2>1 DEF BatchIsFresh
<1>9. \A m : ~InHand(m) /\ ~InHand(m)'
  BY <1>5 DEF InHand
<1>10. \A k : Waiting(k)' <=> k \in 1..n
  BY <1>3, <1>5 DEF Waiting
<1>11. RowsOK'
  BY <1>6, <1>9 DEF Inv, RowsOK, TypeOK, Row
<1>12. TriesOK'
  <2>1. ASSUME NEW k \in 1..n
        PROVE  tries[s[k].mail] < MaxAttempts + faults
    <3>1. /\ b[k] \in DOMAIN queue /\ queue[b[k]].attempts \in Nat
          /\ queue[b[k]].attempts < MaxAttempts /\ tries[b[k]] \in Nat
      BY <1>2, <1>3 DEF Row, Inv, TypeOK
    <3>2. tries[b[k]] <= queue[b[k]].attempts + faults
      BY <1>6, <1>9, <3>1 DEF Inv, RowsOK
    <3> QED  BY <1>3, <1>6, <3>1, <3>2, Bounds
  <2>2. faults' \in Nat /\ \A m \in Mails : tries[m] \in Nat
    BY <1>6 DEF Inv, TypeOK
  <2>3. ASSUME NEW k \in 1..n
        PROVE  tries[s[k].mail] < MaxAttempts + faults'
    <3>1. s[k].mail \in Mails
      BY <1>2, <1>3
    <3> QED  BY <1>6, <2>1, <2>2, <3>1, Bounds
  <2>4. ASSUME NEW m \in Mails PROVE tries[m] <= MaxAttempts + faults'
    BY <1>6, <2>2, Bounds DEF Inv, TriesOK
  <2> QED  BY <1>5, <1>10, <2>3, <2>4 DEF Inv, TriesOK
<1>13. CopiesOK'
  <2>1. ASSUME NEW k \in 1..n
        PROVE  copies[s[k].mail] <= tries[s[k].mail] + faults
    BY <1>2, <1>3, <1>9 DEF Inv, CopiesOK
  <2> QED  BY <1>2, <1>3, <1>5, <1>6, <1>9, <1>10, <2>1
           DEF Inv, CopiesOK, TypeOK
<1> QED  BY <1>6, <1>7, <1>8, <1>11, <1>12, <1>13 DEF Inv

LEMMA PollStep ==
  ASSUME Inv, Poll  PROVE  Inv'
<1>1. PICK b \in Batches : worker' = Continue(Jobs(b, Len(b)))
  BY DEF Poll
<1>2. Len(b) \in 0..Len(b)
  BY BatchFacts DEF Inv
<1>3. faults' \in {faults, faults + 1} /\ faults' <= MaxFaults
  BY Bounds DEF Poll, Inv, TypeOK
<1> QED  BY <1>1, <1>2, <1>3, TakesBatch DEF Poll

LEMMA PollFailsStep ==
  ASSUME Inv, PollFails  PROVE  Inv'
<1>1. PICK b \in Batches : \E n \in 0..Len(b) - 1 : worker' = Continue(Jobs(b, n))
  BY DEF PollFails
<1>2. PICK n \in 0..Len(b) - 1 : worker' = Continue(Jobs(b, n))
  BY <1>1
<1>3. n \in 0..Len(b)
  BY <1>2, BatchFacts DEF Inv
<1>4. faults' \in {faults, faults + 1} /\ faults' <= MaxFaults
  BY Bounds DEF PollFails, Fault, Inv, TypeOK
<1> QED  BY <1>2, <1>3, <1>4, TakesBatch DEF PollFails

LEMMA PollRecreatesStep ==
  ASSUME Inv, PollRecreates  PROVE  Inv'
BY DEF PollRecreates, Inv, TypeOK, BatchOK, BatchIsFresh, RowsOK, TriesOK,
       CopiesOK, InHand, Waiting

LEMMA SendStep ==
  ASSUME Inv, Send  PROVE  Inv'
<1> DEFINE s == worker.jobs
           m == s[1].mail
<1>1. /\ worker.pc = "send" /\ s # <<>> /\ s \in Seq(Job)
      /\ UNCHANGED <<queue, accepted, schema, faults>>
  BY DEF Send, Inv, BatchOK, TypeOK, Worker
<1>2. /\ 1 \in DOMAIN s /\ Head(s) = s[1] /\ m \in Mails /\ m \in accepted
  BY <1>1, TailFacts DEF Inv, BatchOK, Job
<1>3. PICK taken \in BOOLEAN, error \in BOOLEAN :
        /\ taken \/ error
        /\ copies' = [copies EXCEPT ![m] = IF taken THEN @ + 1 ELSE @]
        /\ tries' = [tries EXCEPT ![m] = IF error THEN @ + 1 ELSE @]
        /\ worker' = [worker EXCEPT !.pc = "mark", !.error = error]
  BY <1>2 DEF Send
<1>4. /\ worker' \in Worker /\ worker'.jobs = s /\ worker'.pc = "mark"
      /\ worker'.error = error
  BY <1>3 DEF Inv, TypeOK, Worker
<1>5. /\ copies' \in [Mails -> Nat] /\ tries' \in [Mails -> Nat]
      /\ copies \in [Mails -> Nat] /\ tries \in [Mails -> Nat]
      /\ \A x \in Mails \ {m} : copies'[x] = copies[x] /\ tries'[x] = tries[x]
      /\ tries'[m] = IF error THEN tries[m] + 1 ELSE tries[m]
      /\ copies'[m] = IF taken THEN copies[m] + 1 ELSE copies[m]
  BY <1>2, <1>3 DEF Inv, TypeOK
<1>6. TypeOK' /\ faults \in Nat
  BY <1>1, <1>4, <1>5, Bounds DEF Inv, TypeOK
<1>7. BatchOK'
  BY <1>1, <1>4 DEF Inv, BatchOK
<1>8. BatchIsFresh'
  BY <1>1, <1>4 DEF Inv, BatchIsFresh
<1>9. \A x : ~InHand(x) /\ (InHand(x)' <=> x = m)
  BY <1>1, <1>4 DEF InHand
<1>10. \A k : Waiting(k)' => /\ Waiting(k) /\ s[k].mail \in Mails
                             /\ s[k].mail # m
  BY <1>1, <1>2, <1>4 DEF Waiting, Inv, BatchOK, TypeOK
<1>11. Waiting(1)
  BY <1>1, <1>2 DEF Waiting
<1>12. RowsOK'
  <2>1. ASSUME NEW x \in DOMAIN queue
        PROVE  LET n == queue[x].attempts
               IN  /\ n <= tries'[x]
                   /\ x = m /\ error => n + 1 <= tries'[x]
                   /\ tries'[x] <= n + faults
                        + IF x = m /\ error THEN 1 ELSE 0
    <3>1. x \in Mails /\ queue[x].attempts \in Nat
      BY DEF Inv, TypeOK, Row
    <3>2. queue[x].attempts <= tries[x] /\ tries[x] <= queue[x].attempts + faults
      BY <1>6, <1>9, <3>1 DEF Inv, RowsOK
    <3> QED  BY <1>5, <1>6, <3>1, <3>2
  <2> QED  BY <1>1, <1>4, <1>9, <2>1 DEF Inv, RowsOK
<1>13. TriesOK'
  <2>1. tries[m] < MaxAttempts + faults
    BY <1>11 DEF Inv, TriesOK
  <2>2. \A x \in Mails : tries'[x] <= MaxAttempts + faults
    BY <1>2, <1>5, <1>6, <2>1, Bounds DEF Inv, TriesOK
  <2>3. \A x \in Mails \ accepted : tries'[x] = 0 /\ copies'[x] = 0
    BY <1>2, <1>5 DEF Inv, TriesOK
  <2> QED  BY <1>1, <1>4, <1>5, <1>10, <2>2, <2>3 DEF Inv, TriesOK
<1>14. CopiesOK'
  <2>1. copies[m] <= tries[m] + faults
    BY <1>11 DEF Inv, CopiesOK
  <2>2. /\ copies'[m] <= 1 + tries'[m] + faults
        /\ error => copies'[m] <= tries'[m] + faults
        /\ ~error => copies'[m] > 0
    BY <1>2, <1>3, <1>5, <1>6, <2>1
  <2>3. \A x \in Mails \ {m} : copies'[x] <= 1 + tries'[x] + faults
    BY <1>5 DEF Inv, CopiesOK
  <2>4. \A x \in DOMAIN queue \ {m} : queue[x].status = "pending" =>
          copies'[x] <= tries'[x] + faults
    BY <1>5, <1>9 DEF Inv, CopiesOK, TypeOK
  <2>5. \A k : Waiting(k)' => copies'[s[k].mail] <= tries'[s[k].mail] + faults
    BY <1>5, <1>10 DEF Inv, CopiesOK
  <2> QED  BY <1>1, <1>4, <1>9, <2>2, <2>3, <2>4, <2>5 DEF CopiesOK
<1> QED  BY <1>6, <1>7, <1>8, <1>12, <1>13, <1>14 DEF Inv

\* What is left of the batch when the worker goes on.
LEMMA GoesOn ==
  ASSUME Inv, worker.pc = "mark", worker' = Continue(Tail(worker.jobs))
  PROVE  /\ worker' \in Worker /\ worker'.pc # "mark"
         /\ worker'.pc # "down"
         /\ worker'.pc = "idle" <=> worker'.jobs = <<>>
         /\ \A k \in DOMAIN worker'.jobs :
              /\ k + 1 \in DOMAIN worker.jobs /\ Waiting(k + 1)
              /\ worker'.jobs[k] = worker.jobs[k + 1]
              /\ ~InHand(worker'.jobs[k].mail)
         /\ \A k \in DOMAIN worker'.jobs : k \in Int
         /\ 1 \in DOMAIN worker.jobs /\ worker.jobs[1] \in Job
         /\ Head(worker.jobs) = worker.jobs[1]
         /\ \A m : InHand(m) <=> m = worker.jobs[1].mail
         /\ \A m : ~InHand(m)'
         /\ \A k : Waiting(k)' <=> k \in DOMAIN worker'.jobs
<1> DEFINE s == worker.jobs
<1>1. s \in Seq(Job) /\ s # <<>>
  BY DEF Inv, BatchOK, TypeOK, Worker
<1>2. /\ 1 \in DOMAIN s /\ Head(s) = s[1] /\ s[1] \in Job
      /\ Tail(s) \in Seq(Job) /\ DOMAIN Tail(s) = 1..Len(s) - 1
      /\ \A k \in DOMAIN Tail(s) :
           k + 1 \in DOMAIN s /\ k + 1 # 1 /\ Tail(s)[k] = s[k + 1]
  BY <1>1, TailFacts
<1>3. /\ worker' \in Worker /\ worker'.jobs = Tail(s)
      /\ worker'.pc \in {"idle", "send"}
      /\ worker'.pc = "idle" <=> Tail(s) = <<>>
  BY <1>2, ContinueFacts
<1>4. \A k \in DOMAIN Tail(s) : s[k + 1].mail # s[1].mail
  BY <1>2 DEF Inv, BatchOK
<1>5. /\ \A m : InHand(m) <=> m = s[1].mail
      /\ \A m : ~InHand(m)'
      /\ \A k : Waiting(k)' <=> k \in DOMAIN worker'.jobs
  BY <1>3 DEF Waiting, InHand
<1>6. \A k \in DOMAIN Tail(s) : Waiting(k + 1) /\ ~InHand(Tail(s)[k].mail)
  BY <1>2, <1>4 DEF Waiting, InHand
<1>7. \A k \in DOMAIN worker'.jobs :
        /\ k + 1 \in DOMAIN worker.jobs /\ Waiting(k + 1)
        /\ worker'.jobs[k] = worker.jobs[k + 1]
        /\ ~InHand(worker'.jobs[k].mail)
  BY <1>2, <1>3, <1>6
<1>8. \A k \in DOMAIN worker'.jobs : k \in Int
  <2>1. \A k \in 1..Len(s) - 1 : k \in Int
    BY <1>1
  <2>2. \A k \in DOMAIN Tail(s) : k \in Int
    BY <1>2, <2>1
  <2> QED  BY <1>3, <2>2
<1> QED  BY <1>2, <1>3, <1>5, <1>7, <1>8

LEMMA BatchShrinks ==
  ASSUME Inv, worker.pc = "mark", worker' = Continue(Tail(worker.jobs)),
         UNCHANGED accepted
  PROVE  BatchOK'
BY GoesOn DEF Inv, BatchOK

LEMMA MarkFailsStep ==
  ASSUME Inv, MarkFails  PROVE  Inv'
<1>1. /\ worker.pc = "mark" /\ worker' = Continue(Tail(worker.jobs))
      /\ UNCHANGED <<queue, accepted, schema, copies, tries>>
  BY DEF MarkFails
<1>2. /\ faults \in Nat /\ faults' \in 0..MaxFaults /\ faults' >= faults
      /\ faults' = faults + 1 \/ DOMAIN queue = {}
  BY Bounds DEF MarkFails, Fault, Inv, TypeOK, RowsOK
<1>3. TypeOK'
  BY <1>1, <1>2, GoesOn DEF Inv, TypeOK
<1>4. BatchIsFresh'
  BY <1>1, GoesOn DEF Inv, BatchIsFresh
<1>5. /\ \A m \in Mails : tries[m] \in Nat /\ copies[m] \in Nat
      /\ \A m \in DOMAIN queue : m \in Mails /\ queue[m].attempts \in Nat
      /\ \A k \in DOMAIN worker.jobs : worker.jobs[k].mail \in Mails
  BY DEF Inv, TypeOK, Row, BatchOK
<1>6. RowsOK'
  <2>1. ASSUME NEW m \in DOMAIN queue
        PROVE  tries[m] <= queue[m].attempts + faults'
    BY <1>2, <1>5 DEF Inv, RowsOK
  <2> QED  BY <1>1, <2>1, <1>2, <1>5, GoesOn DEF Inv, RowsOK
<1>7. TriesOK'
  <2>1. \A m \in Mails : tries[m] <= MaxAttempts + faults'
    BY <1>2, <1>5, Bounds DEF Inv, TriesOK
  <2>2. ASSUME NEW k \in DOMAIN worker'.jobs
        PROVE  tries[worker'.jobs[k].mail] < MaxAttempts + faults'
    <3>1. tries[worker.jobs[k + 1].mail] < MaxAttempts + faults
      BY <1>1, GoesOn DEF Inv, TriesOK
    <3> QED  BY <1>1, <1>2, <1>5, <3>1, GoesOn, Bounds
  <2> QED  BY <1>1, <2>1, <2>2, GoesOn DEF Inv, TriesOK
<1>8. CopiesOK'
  <2>1. \A m \in Mails : copies[m] <= 1 + tries[m] + faults'
    BY <1>2, <1>5 DEF Inv, CopiesOK
  <2>2. \A m \in DOMAIN queue : copies[m] <= tries[m] + faults'
    BY <1>2, <1>5 DEF Inv, CopiesOK
  <2>3. ASSUME NEW k \in DOMAIN worker'.jobs
        PROVE  copies[worker'.jobs[k].mail]
                 <= tries[worker'.jobs[k].mail] + faults'
    <3>1. copies[worker.jobs[k + 1].mail] <= tries[worker.jobs[k + 1].mail] + faults
      BY <1>1, GoesOn DEF Inv, CopiesOK
    <3> QED  BY <1>1, <1>2, <1>5, <3>1, GoesOn
  <2> QED  BY <1>1, <2>1, <2>2, <2>3, GoesOn DEF CopiesOK
<1> QED  BY <1>1, <1>3, <1>4, <1>6, <1>7, <1>8, BatchShrinks DEF Inv

LEMMA MarkStep ==
  ASSUME Inv, Mark  PROVE  Inv'
<1> DEFINE job == worker.jobs[1]
           m == job.mail
<1>1. /\ worker.pc = "mark" /\ worker' = Continue(Tail(worker.jobs))
      /\ UNCHANGED <<accepted, schema, faults, copies, tries>>
  BY DEF Mark
<1>2. /\ 1 \in DOMAIN worker.jobs /\ Head(worker.jobs) = job /\ job \in Job
      /\ \A x : InHand(x) <=> x = m
      /\ job.attempts < MaxAttempts
  BY <1>1, GoesOn DEF Inv, BatchOK
<1>3. queue' = [x \in DOMAIN queue |-> IF x = m THEN AfterSend(job) ELSE queue[x]]
  BY <1>2 DEF Mark
<1>4. /\ faults \in Nat /\ tries \in [Mails -> Nat] /\ copies \in [Mails -> Nat]
      /\ m \in Mails /\ job.attempts \in Nat
      /\ \A x \in DOMAIN queue : x \in Mails /\ queue[x] \in Row
  BY <1>2 DEF Inv, TypeOK, Job
<1>5. ASSUME m \in DOMAIN queue
      PROVE  /\ queue[m].status = "pending" /\ queue[m].attempts = job.attempts
             /\ AfterSend(job) \in Row
             /\ worker.error =>
                  /\ AfterSend(job).attempts = job.attempts + 1
                  /\ AfterSend(job).status = "failed" <=>
                       job.attempts + 1 = MaxAttempts
             /\ ~worker.error => /\ AfterSend(job).attempts = job.attempts
                                 /\ AfterSend(job).status = "sent"
  <2>1. queue[m] = [status |-> "pending", attempts |-> job.attempts]
    BY <1>2, <1>5 DEF Inv, BatchIsFresh
  <2>2. CASE worker.error
    <3>1. AfterSend(job) =
            [status |-> IF job.attempts + 1 >= MaxAttempts THEN "failed"
                        ELSE "pending",
             attempts |-> job.attempts + 1]
      BY <2>2 DEF AfterSend, AfterError
    <3> QED  BY <1>2, <1>4, <2>1, <2>2, <3>1, Bounds DEF Row
  <2>3. CASE ~worker.error
    <3>1. AfterSend(job) = [status |-> "sent", attempts |-> job.attempts]
      BY <2>1, <2>3 DEF AfterSend
    <3> QED  BY <1>4, <2>1, <2>3, <3>1 DEF Row
  <2> QED  BY <2>2, <2>3
<1>6. /\ DOMAIN queue' = DOMAIN queue
      /\ \A x \in DOMAIN queue : x # m => queue'[x] = queue[x]
      /\ m \in DOMAIN queue => queue'[m] = AfterSend(job)
  BY <1>3
<1>7. TypeOK'
  <2>1. \A x \in DOMAIN queue : queue'[x] \in Row
    BY <1>4, <1>5, <1>6
  <2>2. queue' \in [DOMAIN queue' -> Row]
    BY <1>3, <1>6, <2>1
  <2> QED  BY <1>1, <1>6, <2>2, GoesOn DEF Inv, TypeOK
<1>8. BatchIsFresh'
  <2>1. ASSUME NEW k \in DOMAIN worker'.jobs,
               worker'.jobs[k].mail \in DOMAIN queue
        PROVE  queue'[worker'.jobs[k].mail] =
                 [status |-> "pending", attempts |-> worker'.jobs[k].attempts]
    <3>1. /\ k + 1 \in DOMAIN worker.jobs
          /\ worker'.jobs[k] = worker.jobs[k + 1] /\ worker'.jobs[k].mail # m
      BY <1>1, <1>2, GoesOn
    <3> QED  BY <1>6, <2>1, <3>1 DEF Inv, BatchIsFresh
  <2> QED  BY <1>6, <2>1 DEF BatchIsFresh
<1>9. RowsOK'
  <2>1. ASSUME NEW x \in DOMAIN queue
        PROVE  /\ queue'[x].attempts <= tries[x]
               /\ tries[x] <= queue'[x].attempts + faults
               /\ queue'[x].attempts <= MaxAttempts
               /\ queue'[x].status = "failed" <=> queue'[x].attempts = MaxAttempts
    <3>1. CASE x # m
      <4>1. queue'[x] = queue[x] /\ ~InHand(x) /\ queue[x].attempts \in Nat
        BY <1>2, <1>4, <1>6, <3>1 DEF Row
      <4> QED  BY <1>4, <4>1 DEF Inv, RowsOK
    <3>2. CASE x = m /\ worker.error
      <4>1. /\ queue[m].attempts + 1 <= tries[m]
            /\ tries[m] <= queue[m].attempts + faults + 1
        BY <1>2, <3>2 DEF Inv, RowsOK
      <4> QED  BY <1>2, <1>4, <1>5, <1>6, <3>2, <4>1, Bounds
    <3>3. CASE x = m /\ ~worker.error
      <4>1. queue[m].attempts <= tries[m] /\ tries[m] <= queue[m].attempts + faults
        BY <1>4, <1>5, <3>3 DEF Inv, RowsOK
      <4> QED  BY <1>2, <1>4, <1>5, <1>6, <3>3, <4>1, Bounds
    <3> QED  BY <3>1, <3>2, <3>3
  <2>2. \A x : ~InHand(x)'
    BY <1>1, GoesOn
  <2>3. \A x \in DOMAIN queue : queue'[x].attempts \in Nat
    BY <1>6, <1>7 DEF TypeOK, Row
  <2> QED  BY <1>1, <1>4, <1>6, <2>1, <2>2, <2>3 DEF Inv, RowsOK
<1>10. TriesOK'
  BY <1>1, GoesOn DEF Inv, TriesOK
<1>11. CopiesOK'
  <2>1. ASSUME NEW x \in DOMAIN queue, queue'[x].status = "pending"
        PROVE  copies[x] <= tries[x] + faults
    <3>1. CASE x # m
      BY <1>2, <1>6, <2>1, <3>1 DEF Inv, CopiesOK
    <3>2. CASE x = m
      <4>1. worker.error
        BY <1>5, <1>6, <2>1, <3>2
      <4> QED  BY <1>2, <1>4, <3>2, <4>1 DEF Inv, CopiesOK
    <3> QED  BY <3>1, <3>2
  <2>2. \A k \in DOMAIN worker'.jobs :
          copies[worker'.jobs[k].mail] <= tries[worker'.jobs[k].mail] + faults
    BY <1>1, GoesOn DEF Inv, CopiesOK
  <2> QED  BY <1>1, <1>6, <2>1, <2>2, GoesOn DEF Inv, CopiesOK
<1> QED  BY <1>1, <1>7, <1>8, <1>9, <1>10, <1>11, BatchShrinks DEF Inv

\* One more fault only widens the bounds.
LEMMA CrashStep ==
  ASSUME Inv, Crash  PROVE  Inv'
<1>1. /\ worker' = At("down", <<>>) /\ faults' = faults + 1
      /\ faults \in Nat /\ faults + 1 \in 0..MaxFaults
      /\ UNCHANGED <<queue, accepted, schema, copies, tries>>
  BY Bounds DEF Crash, Fault, Inv, TypeOK
<1>2. /\ worker' \in Worker /\ worker'.jobs = <<>> /\ worker'.pc = "down"
  BY <1>1 DEF At, Worker
<1>3. (\A m : ~InHand(m)') /\ (\A k : ~Waiting(k)')
  BY <1>2 DEF InHand, Waiting
<1>4. /\ \A m \in Mails : tries[m] \in Nat /\ copies[m] \in Nat
      /\ \A m \in DOMAIN queue : m \in Mails /\ queue[m].attempts \in Nat
  BY DEF Inv, TypeOK, Row
<1>5. TypeOK'
  BY <1>1, <1>2 DEF Inv, TypeOK
<1>6. BatchOK' /\ BatchIsFresh'
  BY <1>2 DEF BatchOK, BatchIsFresh
<1>7. RowsOK'
  <2>1. ASSUME NEW m \in DOMAIN queue
        PROVE  tries[m] <= queue[m].attempts + faults'
    BY <1>1, <1>4 DEF Inv, RowsOK
  <2> QED  BY <1>1, <1>3, <1>4, <2>1 DEF Inv, RowsOK
<1>8. TriesOK'
  BY <1>1, <1>3, <1>4, Bounds DEF Inv, TriesOK
<1>9. CopiesOK'
  BY <1>1, <1>3, <1>4 DEF Inv, CopiesOK
<1> QED  BY <1>5, <1>6, <1>7, <1>8, <1>9 DEF Inv

LEMMA BootStep ==
  ASSUME Inv, Boot  PROVE  Inv'
<1>1. /\ worker' = At("idle", <<>>) /\ schema' = TRUE /\ worker.pc = "down"
      /\ UNCHANGED <<queue, accepted, faults, copies, tries>>
  BY DEF Boot
<1>2. worker' \in Worker /\ worker'.jobs = <<>> /\ worker'.pc = "idle"
  BY <1>1 DEF At, Worker
<1>3. \A m : ~InHand(m) /\ ~InHand(m)'
  BY <1>1, <1>2 DEF InHand
<1>4. \A k : ~Waiting(k)'
  BY <1>2 DEF Waiting
<1>5. TypeOK' /\ BatchOK' /\ BatchIsFresh'
  BY <1>1, <1>2 DEF Inv, TypeOK, BatchOK, BatchIsFresh
<1>6. RowsOK'
  BY <1>1, <1>3 DEF Inv, RowsOK
<1>7. TriesOK' /\ CopiesOK'
  BY <1>1, <1>3, <1>4 DEF Inv, TriesOK, CopiesOK
<1> QED  BY <1>5, <1>6, <1>7 DEF Inv

LEMMA ResetStep ==
  ASSUME Inv, Reset  PROVE  Inv'
<1>1. /\ faults' = faults + 1 /\ faults \in Nat /\ faults + 1 \in 0..MaxFaults
      /\ queue' = [m \in {} |-> 0] /\ DOMAIN queue' = {} /\ schema' = FALSE
      /\ UNCHANGED <<accepted, worker, copies, tries>>
  BY Bounds DEF Reset, Fault, Inv, TypeOK
<1>2. /\ \A m \in Mails : tries[m] \in Nat /\ copies[m] \in Nat
      /\ \A k : Waiting(k) => worker.jobs[k].mail \in Mails
  BY DEF Inv, TypeOK, BatchOK, Waiting
<1>3. (\A m : InHand(m)' <=> InHand(m)) /\ (\A k : Waiting(k)' <=> Waiting(k))
  BY <1>1 DEF InHand, Waiting
<1>4. TypeOK'
  BY <1>1 DEF Inv, TypeOK
<1>5. BatchOK' /\ BatchIsFresh' /\ RowsOK'
  BY <1>1 DEF Inv, BatchOK, BatchIsFresh, RowsOK
<1>6. TriesOK'
  BY <1>1, <1>2, <1>3, Bounds DEF Inv, TriesOK
<1>7. CopiesOK'
  BY <1>1, <1>2, <1>3 DEF Inv, CopiesOK
<1> QED  BY <1>4, <1>5, <1>6, <1>7 DEF Inv

-----------------------------------------------------------------------------
LEMMA InitIsInv == Init => Inv
<1> SUFFICES ASSUME Init PROVE Inv
  OBVIOUS
<1>1. worker \in Worker /\ worker.jobs = <<>> /\ worker.pc = "down"
  BY DEF Init, At, Worker
<1>2. TypeOK
  <2>1. DOMAIN queue = {} /\ queue \in [{} -> Row]
    BY DEF Init
  <2>2. /\ copies \in [Mails -> Nat] /\ tries \in [Mails -> Nat]
        /\ faults \in 0..MaxFaults
    BY Bounds DEF Init
  <2> QED  BY <1>1, <2>1, <2>2 DEF Init, TypeOK
<1>3. BatchOK /\ BatchIsFresh
  BY <1>1 DEF BatchOK, BatchIsFresh
<1>4. RowsOK
  BY DEF Init, RowsOK
<1>5. (\A m : ~InHand(m)) /\ (\A k : ~Waiting(k))
  BY <1>1 DEF InHand, Waiting
<1>6. TriesOK /\ CopiesOK
  BY <1>5, Bounds DEF Init, TriesOK, CopiesOK
<1> QED  BY <1>2, <1>3, <1>4, <1>6 DEF Inv

LEMMA StepKeepsInv == Inv /\ [Next]_vars => Inv'
<1> SUFFICES ASSUME Inv, [Next]_vars PROVE Inv'
  OBVIOUS
<1>1. CASE UNCHANGED vars
  BY <1>1 DEF vars, Inv, TypeOK, BatchOK, BatchIsFresh, RowsOK, TriesOK,
              CopiesOK, InHand, Waiting
<1>2. CASE Next
  BY <1>2, EnqueueStep, PollStep, PollRecreatesStep, PollFailsStep, SendStep,
     MarkStep, MarkFailsStep, CrashStep, BootStep, ResetStep DEF Next
<1> QED  BY <1>1, <1>2

LEMMA InvHolds == Spec => []Inv
BY InitIsInv, StepKeepsInv, PTL DEF Spec

-----------------------------------------------------------------------------
(***************************************************************************)
(* What the invariant says of the queue.                                   *)
(***************************************************************************)
\* Every step of a handler, of the worker and of a fault keeps the types.
THEOREM EmailTypeCorrect == Spec => []TypeOK
<1>1. Inv => TypeOK
  BY DEF Inv
<1> QED  BY <1>1, InvHolds, PTL

\* processEmailQueue writes back a counter it read several sends earlier; with
\* one worker no other update comes in between, whatever is killed or reset.
THEOREM CounterIsFresh == Spec => []BatchIsFresh
<1>1. Inv => BatchIsFresh
  BY DEF Inv
<1> QED  BY <1>1, InvHolds, PTL

\* MaxAttempts bounds the failed calls of sendMail up to one for each fault.
THEOREM RetriesAreBounded == Spec => []CapHolds
<1>1. Inv => CapHolds
  BY DEF Inv, CapHolds, RowsOK, TriesOK
<1> QED  BY <1>1, InvHolds, PTL

\* Only a reported error or a fault makes the worker send a mail again.
THEOREM RepeatsExplained == Spec => []RepeatsAreExplained
<1>1. Inv => RepeatsAreExplained
  BY DEF Inv, CopiesOK, RepeatsAreExplained
<1> QED  BY <1>1, InvHolds, PTL

-----------------------------------------------------------------------------
(***************************************************************************)
(* The safety part of the refinement, for every instance.                  *)
(***************************************************************************)
\* The phases of two states that differ in one mail.
LEMMA OneMoves ==
  ASSUME NEW m \in Mails, NEW p \in STRING, Phase(m)' = p,
         \A x \in Mails \ {m} : Phase(x)' = Phase(x)
  PROVE  [x \in Mails |-> Phase(x)]' =
           [[x \in Mails |-> Phase(x)] EXCEPT ![m] = p]
OBVIOUS

LEMMA PhasesKept ==
  ASSUME \A x \in Mails : Phase(x)' = Phase(x), UNCHANGED <<copies, tries>>
  PROVE  UNCHANGED Abstract!ovars
BY DEF Abstract!ovars

LEMMA RowsUntouched ==
  ASSUME UNCHANGED <<queue, accepted, copies, tries>>
  PROVE  UNCHANGED Abstract!ovars
BY DEF Abstract!ovars, Phase

LEMMA EnqueueHandsOver ==
  ASSUME Inv, NEW m \in Mails, Enqueue(m)  PROVE  Abstract!HandOver(m)
<1>1. Phase(m) = "none" /\ Phase(m)' = "owed"
  BY DEF Enqueue, Phase
<1>2. \A x \in Mails \ {m} : Phase(x)' = Phase(x)
  BY DEF Enqueue, Phase, Inv, TypeOK
<1>3. [x \in Mails |-> Phase(x)]' =
        [[x \in Mails |-> Phase(x)] EXCEPT ![m] = "owed"]
  BY <1>1, <1>2, OneMoves
<1> QED  BY <1>1, <1>3 DEF Abstract!HandOver, Abstract!Move, Enqueue

LEMMA SendTries ==
  ASSUME Inv, Send  PROVE  \E m \in Mails : Abstract!Try(m)
<1> DEFINE m == worker.jobs[1].mail
<1>1. worker.pc = "send" /\ worker.jobs # <<>> /\ worker.jobs \in Seq(Job)
  BY DEF Send, Inv, BatchOK, TypeOK, Worker
<1>2. /\ 1 \in DOMAIN worker.jobs /\ Head(worker.jobs) = worker.jobs[1]
      /\ m \in Mails /\ m \in accepted
  BY <1>1, TailFacts DEF Inv, BatchOK, Job
<1>3. ASSUME m \in DOMAIN queue PROVE queue[m].status = "pending"
  <2>1. queue[m] = [status |-> "pending", attempts |-> worker.jobs[1].attempts]
    BY <1>2, <1>3 DEF Inv, BatchIsFresh
  <2> QED  BY <2>1
<1>4. Phase(m) \in {"owed", "lost"}
  BY <1>2, <1>3 DEF Phase
<1>5. \A x \in Mails : Phase(x)' = Phase(x)
  BY DEF Send, Phase
<1> QED  BY <1>2, <1>4, <1>5 DEF Send, Abstract!Try

LEMMA MarkSettles ==
  ASSUME Inv, Mark
  PROVE  \/ \E m \in Mails : Abstract!Settle(m) \/ Abstract!GiveUp(m)
         \/ UNCHANGED Abstract!ovars
<1>0. PICK job, m : job = worker.jobs[1] /\ m = job.mail
  OBVIOUS
<1>1. /\ worker.pc = "mark" /\ worker' = Continue(Tail(worker.jobs))
      /\ UNCHANGED <<accepted, schema, faults, copies, tries>>
  BY DEF Mark
<1>2. /\ 1 \in DOMAIN worker.jobs /\ Head(worker.jobs) = job /\ job \in Job
      /\ InHand(m) /\ m \in Mails /\ m \in accepted
  BY <1>0, <1>1, GoesOn DEF Inv, BatchOK, Job
<1>3. queue' = [x \in DOMAIN queue |-> IF x = m THEN AfterSend(job) ELSE queue[x]]
  BY <1>0, <1>2 DEF Mark
<1>4. \A x \in Mails \ {m} : Phase(x)' = Phase(x)
  BY <1>1, <1>3 DEF Phase
<1>5. CASE m \notin DOMAIN queue
  BY <1>1, <1>3, <1>4, <1>5, PhasesKept DEF Phase
<1>6. CASE m \in DOMAIN queue
  <2>1. /\ queue[m] = [status |-> "pending", attempts |-> job.attempts]
        /\ Phase(m) = "owed" /\ queue'[m] = AfterSend(job)
        /\ Phase(m)' = IF AfterSend(job).status = "pending" THEN "owed"
                       ELSE AfterSend(job).status
    <3>1. queue[m] = [status |-> "pending", attempts |-> job.attempts]
      BY <1>0, <1>2, <1>6 DEF Inv, BatchIsFresh
    <3>2. queue'[m] = AfterSend(job) /\ m \in DOMAIN queue'
      BY <1>3, <1>6
    <3> QED  BY <1>1, <1>2, <1>6, <3>1, <3>2 DEF Phase
  <2>2. CASE ~worker.error
    <3>1. AfterSend(job).status = "sent"
      BY <2>1, <2>2 DEF AfterSend
    <3>2. copies[m] > 0
      BY <1>2, <2>2 DEF Inv, CopiesOK
    <3>3. [x \in Mails |-> Phase(x)]' =
            [[x \in Mails |-> Phase(x)] EXCEPT ![m] = "sent"]
      BY <1>2, <1>4, <2>1, <3>1, OneMoves
    <3> QED  BY <1>1, <1>2, <2>1, <3>2, <3>3 DEF Abstract!Settle, Abstract!Move
  <2>3. CASE worker.error /\ job.attempts + 1 >= MaxAttempts
    <3>1. AfterSend(job).status = "failed"
      BY <2>3 DEF AfterSend, AfterError
    <3>2. tries[m] >= MaxAttempts
      <4>1. queue[m].attempts + 1 <= tries[m]
        BY <1>2, <1>6, <2>3 DEF Inv, RowsOK
      <4>2. tries[m] \in Nat /\ job.attempts \in Nat
        BY <1>2 DEF Inv, TypeOK, Job
      <4> QED  BY <2>1, <2>3, <4>1, <4>2, Bounds
    <3>3. [x \in Mails |-> Phase(x)]' =
            [[x \in Mails |-> Phase(x)] EXCEPT ![m] = "failed"]
      BY <1>2, <1>4, <2>1, <3>1, OneMoves
    <3> QED  BY <1>1, <1>2, <2>1, <3>2, <3>3 DEF Abstract!GiveUp, Abstract!Move
  <2>4. CASE worker.error /\ ~(job.attempts + 1 >= MaxAttempts)
    <3>1. AfterSend(job).status = "pending"
      BY <2>4 DEF AfterSend, AfterError
    <3> QED  BY <1>1, <1>4, <2>1, <3>1, PhasesKept
  <2> QED  BY <2>2, <2>3, <2>4
<1> QED  BY <1>5, <1>6

LEMMA ResetWipes ==
  ASSUME Inv, Reset  PROVE  Abstract!Wipe
<1>1. \A x \in Mails :
        Phase(x)' = IF Phase(x) = "none" THEN "none" ELSE "lost"
  BY DEF Reset, Phase, Inv, TypeOK, Row
<1> QED  BY <1>1 DEF Reset, Abstract!Wipe

\* The queue's steps are the outbox's: a row is marked sent only after a copy
\* left and failed only after MaxAttempts errors, and polls, kills, restarts
\* and lost updates change nothing an outside observer sees.
THEOREM ImplementsOutboxSteps ==
  Spec => Abstract!OInit /\ [][Abstract!ONext]_(Abstract!ovars)
<1>1. Init => Abstract!OInit
  BY DEF Init, Phase, Abstract!OInit
<1>2. Inv /\ [Next]_vars => [Abstract!ONext]_(Abstract!ovars)
  <2> SUFFICES ASSUME Inv, [Next]_vars
               PROVE  Abstract!ONext \/ UNCHANGED Abstract!ovars
    OBVIOUS
  <2>1. CASE UNCHANGED vars
    BY <2>1, RowsUntouched DEF vars
  <2>2. CASE \E m \in Mails : Enqueue(m)
    BY <2>2, EnqueueHandsOver DEF Abstract!ONext
  <2>3. CASE Poll \/ PollRecreates \/ PollFails \/ MarkFails \/ Crash \/ Boot
    BY <2>3, RowsUntouched
       DEF Poll, PollRecreates, PollFails, MarkFails, Crash, Boot
  <2>4. CASE Send
    BY <2>4, SendTries DEF Abstract!ONext
  <2>5. CASE Mark
    BY <2>5, MarkSettles DEF Abstract!ONext
  <2>6. CASE Reset
    BY <2>6, ResetWipes DEF Abstract!ONext
  <2> QED  BY <2>1, <2>2, <2>3, <2>4, <2>5, <2>6 DEF Next
<1> QED  BY <1>1, <1>2, InvHolds, PTL DEF Spec

=============================================================================
