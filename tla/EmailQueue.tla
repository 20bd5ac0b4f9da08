----------------------------- MODULE EmailQueue -----------------------------
(***************************************************************************)
(* The email queue of the backend: the table email_queue, the INSERTs that *)
(* other handlers make in their transactions, and the single worker that   *)
(* polls it, sends and marks (backend/queue.go, mail.go, main.go).  The    *)
(* worker's SELECT, each send and each UPDATE are separate steps; the      *)
(* process may be killed between any two of them, an UPDATE may fail and   *)
(* its error is ignored, and the database may be reset under the worker.   *)
(***************************************************************************)
EXTENDS Integers, Sequences, FiniteSets

CONSTANTS
  Mails,         \* the mails the handlers ever enqueue
  Created,       \* Created[m]: when the transaction of m began (now())
  MaxAttempts,   \* cfg.MaxAttempts
  Take,          \* rows taken per poll
  MaxFaults      \* bound on crashes, database errors and resets together

ASSUME QueueAssumption ==
  /\ IsFiniteSet(Mails) /\ Created \in [Mails -> Nat]
  /\ MaxAttempts \in Nat \ {0} /\ Take \in Nat \ {0} /\ MaxFaults \in Nat

VARIABLES
  queue,         \* table email_queue: mail -> row
  accepted,      \* mails whose transaction has committed
  schema,        \* do the tables exist?
  worker,        \* the worker's position and local variables
  faults,        \* faults so far
  copies,        \* copies of a mail the mail server has taken
  tries          \* calls of sendMail for it that returned an error

vars == <<queue, accepted, schema, worker, faults, copies, tries>>

Row == [status : {"pending", "sent", "failed"}, attempts : Nat]

\* A job of a batch carries the attempts its SELECT read.
Job == [mail : Mails, attempts : Nat]

Worker == [pc : {"down", "idle", "send", "mark"}, jobs : Seq(Job),
           error : BOOLEAN]

At(pc, jobs) == [pc |-> pc, jobs |-> jobs, error |-> FALSE]

TypeOK ==
  /\ accepted \subseteq Mails
  /\ DOMAIN queue \subseteq accepted
  /\ queue \in [DOMAIN queue -> Row]
  /\ schema \in BOOLEAN
  /\ worker \in Worker
  /\ faults \in 0..MaxFaults
  /\ copies \in [Mails -> Nat]
  /\ tries \in [Mails -> Nat]

-----------------------------------------------------------------------------
\* The transaction of a handler commits its INSERT INTO email_queue.  Rows
\* become visible in any order, whatever their created_at.
Enqueue(m) ==
  /\ schema /\ m \notin accepted
  /\ accepted' = accepted \cup {m}
  /\ queue' = [x \in DOMAIN queue \cup {m} |->
                 IF x = m THEN [status |-> "pending", attempts |-> 0]
                          ELSE queue[x]]
  /\ UNCHANGED <<schema, worker, faults, copies, tries>>

\* WHERE status = 'pending' AND attempts < $1.
\* RetryAll is the mutated form that forgets the status.
RetryAll == {m \in DOMAIN queue : queue[m].attempts < MaxAttempts}
Eligible == {m \in DOMAIN queue : /\ queue[m].status = "pending"
                                  /\ queue[m].attempts < MaxAttempts}

\* ORDER BY created_at ASC LIMIT take; rows of one instant in any order.
Batches ==
  LET n == IF Cardinality(Eligible) < Take THEN Cardinality(Eligible)
                                           ELSE Take
  IN  {b \in [1..n -> Eligible] :
         /\ \A j, k \in 1..n : j < k => /\ b[j] # b[k]
                                        /\ Created[b[j]] <= Created[b[k]]
         /\ \A m \in Eligible : \A k \in 1..n :
              (\A j \in 1..n : b[j] # m) => Created[b[k]] <= Created[m]}

Jobs(b, n) ==
  [k \in 1..n |-> [mail |-> b[k], attempts |-> queue[b[k]].attempts]]

\* The worker goes on with the rest of its batch, or waits for the next tick.
Continue(jobs) == IF jobs = <<>> THEN At("idle", <<>>) ELSE At("send", jobs)

\* A tick of three seconds: processEmailQueue reads its batch.
Poll ==
  /\ worker.pc = "idle" /\ schema
  /\ \E b \in Batches : worker' = Continue(Jobs(b, Len(b)))
  /\ UNCHANGED <<queue, accepted, schema, faults, copies, tries>>

\* The tables are missing: run the migrations and wait for the next tick.
PollRecreates ==
  /\ worker.pc = "idle" /\ ~schema
  /\ schema' = TRUE
  /\ UNCHANGED <<queue, accepted, worker, faults, copies, tries>>

Fault == faults < MaxFaults /\ faults' = faults + 1

\* The SELECT fails, or its rows stop coming: the rows read so far are the
\* batch (rows.Err is not looked at), or none are (Scan failed).
PollFails ==
  /\ worker.pc = "idle" /\ schema /\ Fault
  /\ \E b \in Batches : \E n \in 0..Len(b) - 1 :
       worker' = Continue(Jobs(b, n))
  /\ UNCHANGED <<queue, accepted, schema, copies, tries>>

-----------------------------------------------------------------------------
\* sendMail: the server takes the mail, refuses it, or takes it and fails
\* afterwards (client.Quit returns an error after the data was accepted).
Send ==
  LET m == Head(worker.jobs).mail
  IN  /\ worker.pc = "send"
      /\ \E taken, error \in BOOLEAN :
           /\ taken \/ error
           /\ copies' = [copies EXCEPT ![m] = IF taken THEN @ + 1 ELSE @]
           /\ tries' = [tries EXCEPT ![m] = IF error THEN @ + 1 ELSE @]
           /\ worker' = [worker EXCEPT !.pc = "mark", !.error = error]
      /\ UNCHANGED <<queue, accepted, schema, faults>>

\* The row after an error, with attempts one above the value the SELECT read.
\* GaveUpEarly, NeverFailed and CountsDown are mutated forms: the cap compared
\* with the next attempt, a row that stays pending when its last attempt is used
\* up, and a counter of attempts left on a column of attempts made.
CountsDown(job) ==
  [status |-> IF job.attempts - 1 <= -MaxAttempts THEN "failed" ELSE "pending",
   attempts |-> job.attempts - 1]
GaveUpEarly(job) ==
  [status |-> IF job.attempts + 2 >= MaxAttempts THEN "failed" ELSE "pending",
   attempts |-> job.attempts + 1]
NeverFailed(job) == [status |-> "pending", attempts |-> job.attempts + 1]
AfterError(job) ==
  [status |-> IF job.attempts + 1 >= MaxAttempts THEN "failed" ELSE "pending",
   attempts |-> job.attempts + 1]

\* The row after the send.  SentAnyway, KeptPending: an error taken for a
\* success, and a success that leaves the row as it is.
SentAnyway(job)  == [queue[job.mail] EXCEPT !.status = "sent"]
KeptPending(job) == IF worker.error THEN AfterError(job) ELSE queue[job.mail]
AfterSend(job)   == IF worker.error THEN AfterError(job)
                    ELSE [queue[job.mail] EXCEPT !.status = "sent"]

\* UPDATE email_queue ... WHERE id = $n.
Mark ==
  LET job == Head(worker.jobs)
  IN  /\ worker.pc = "mark" /\ schema
      /\ queue' = [m \in DOMAIN queue |->
                     IF m = job.mail THEN AfterSend(job) ELSE queue[m]]
      /\ worker' = Continue(Tail(worker.jobs))
      /\ UNCHANGED <<accepted, schema, faults, copies, tries>>

\* The UPDATE fails: its error is dropped and the batch goes on.
MarkFails ==
  /\ worker.pc = "mark"
  /\ IF schema THEN Fault ELSE UNCHANGED faults
  /\ worker' = Continue(Tail(worker.jobs))
  /\ UNCHANGED <<queue, accepted, schema, copies, tries>>

-----------------------------------------------------------------------------
\* The process is killed with whatever batch it held.
Crash ==
  /\ worker.pc # "down" /\ Fault
  /\ worker' = At("down", <<>>)
  /\ UNCHANGED <<queue, accepted, schema, copies, tries>>

\* main: migrate, then startEmailWorker.
Boot ==
  /\ worker.pc = "down"
  /\ schema' = TRUE
  /\ worker' = At("idle", <<>>)
  /\ UNCHANGED <<queue, accepted, faults, copies, tries>>

\* Somebody drops the tables while the process runs.
Reset ==
  /\ schema /\ Fault
  /\ schema' = FALSE
  /\ queue' = [m \in {} |-> 0]
  /\ UNCHANGED <<accepted, worker, copies, tries>>

Init ==
  /\ queue = [m \in {} |-> 0]
  /\ accepted = {}
  /\ schema = FALSE
  /\ worker = At("down", <<>>)
  /\ faults = 0
  /\ copies = [m \in Mails |-> 0]
  /\ tries = [m \in Mails |-> 0]

Next ==
  \/ \E m \in Mails : Enqueue(m)
  \/ Poll \/ PollRecreates \/ PollFails \/ Send \/ Mark \/ MarkFails
  \/ Crash \/ Boot \/ Reset

\* The service manager restarts the process, the ticker ticks, sendMail and
\* the statements return.  Handlers are not obliged to enqueue anything.
Fairness ==
  /\ WF_vars(Boot) /\ WF_vars(Poll) /\ WF_vars(PollRecreates)
  /\ WF_vars(Send) /\ WF_vars(Mark \/ MarkFails)

Spec == Init /\ [][Next]_vars /\ Fairness

-----------------------------------------------------------------------------
\* What became of a mail; a mail whose row is gone was wiped by a reset.
Phase(m) ==
  IF m \notin accepted THEN "none"
  ELSE IF m \notin DOMAIN queue THEN "lost"
  ELSE IF queue[m].status = "pending" THEN "owed" ELSE queue[m].status

Abstract == INSTANCE Outbox WITH phase <- [m \in Mails |-> Phase(m)]

\* The queue implements the outbox: a mail is marked sent only after a copy
\* left, given up only after MaxAttempts errors, and does not stay owed.
ImplementsOutbox == Abstract!OSpec

\* A mail goes out twice only if a send of it reported an error or a fault
\* came between the send and the mark: no other step of the worker repeats it.
RepeatsAreExplained ==
  \A m \in Mails : copies[m] <= 1 + tries[m] + faults

\* The cap on retries holds across crashes: beyond the MaxAttempts counted in
\* the row a mail is tried once more for each fault at most, and a row is given
\* up exactly when the counter read and written by the worker reaches the cap.
CapHolds ==
  /\ \A m \in Mails : tries[m] <= MaxAttempts + faults
  /\ \A m \in DOMAIN queue :
       /\ queue[m].attempts <= tries[m]
       /\ queue[m].status = "failed" <=> queue[m].attempts = MaxAttempts

\* Once the handlers stop, every mail whose row survives is sent or given up,
\* though older rows go first, fail again and again and fill every batch.
EverySettled ==
  \A m \in Mails : m \in accepted ~> Phase(m) \in {"sent", "failed", "lost"}

\* The counter a batch carries is still the row's when it is written back: a
\* read and a write of `attempts` with no transaction lose no update as long as
\* there is one worker.
BatchIsFresh ==
  \A k \in DOMAIN worker.jobs :
    LET job == worker.jobs[k]
    IN  job.mail \in DOMAIN queue =>
          queue[job.mail] = [status |-> "pending", attempts |-> job.attempts]
=============================================================================
