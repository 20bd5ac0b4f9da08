# Formal models of the scheduling backend

TLA+ models of the work-schedule system in `src/backend` (Go over PostgreSQL),
the TLC configurations that check them, and the theorems TLAPS proves about
them. Source paths below are relative to `src/backend` unless they say otherwise.

## 1. Inventory

The program is an HTTP API. Every handler runs in a goroutine of its own, holds
no state between requests and shares one connection pool. **The handlers of the
schedule open no transaction**; signup, the two mails with a link and the two
replacements of a job's lists do. Elsewhere each SQL statement commits by itself
at PostgreSQL's default isolation, so the unit of interleaving is the statement,
and a client that disconnects cancels `r.Context()` and cuts the handler between
two statements.
One background goroutine drains the email queue.

| Component | State | Operations | What makes it correct |
|---|---|---|---|
| Weekly-hour policy (`worker.go`) | `users.worker_type`, `users.hourly_limit` | `workerPolicyFor`, `workerWeekHours`, `allowanceFor` | nobody above the weekly cap; overtime only by approval |
| Work queue (`schedule_workqueue.go`) | `workqueue`, `weekly_schedules` | `pickShift`, `assignWorkqueueShift` (one block, a list, release), `assignBlockToRow`, `createOverflowRequest`, `createWorkqueueShift`, `addWeeklySchedule` | a shift has one holder and keeps it; the pieces of a split shift tile it and stay grouped |
| Requests (`schedule_requests.go`) | `schedule_requests` | `createRequest`, `approveRequest`, `denyRequest`, `cancelRequest` | a decision is final and has its effect in the queue |
| Audit trail (`audit.go`) | `audit_log` | `logAudit`; scoped report and export | every decision is recorded |
| Manager scope (`schedule.go`, `schedule_org.go`) | `departments`, `teams`, `worker_teams` | `callerScopeTeamIDs`, `*InCallerScope` | managers act only within their teams |
| Workers (`schedule_workers.go`) | `student_jobs`, `users` | `setWorkerDetails`, `setDisabled`, `assignWorkerJob`, `removeWorkerJob`, manager appointments | membership and jobs agree |
| Users (`users.go`) | `users` and what cascades from it | `deleteUser`, `patchRole`, `patchVerification`, `createWorker`, password resets | an admin always remains; a deletion leaves consistent rows |
| Organisation (`schedule_departments.go`, `schedule_teams.go`, `schedule_preferences.go`) | `departments`, `teams`, `preferred_times` | `createTeam`, `updateTeam`, `createDepartment`, `updateDepartment`, `addPreference` | who heads a unit decides what they may change |
| Jobs (`schedule_jobs.go`) | `jobs`, `job_schedules`, `job_holidays` | `createJob`, `updateJob`, `replaceJobSchedules`, `replaceJobHolidays` | the hours and closures of a job are one submitted set |
| Accounts (`auth.go`) | `users`, `login_codes`, `login_attempts`, `user_devices` | `signup`, `verify`, `login`, `verifyLogin`, `resendLoginCode`, `forgotPassword`, `resetPassword`, `changePassword` | what is stored was sent; a code or link is spent by its use; the lockout counts every failure; nobody is stuck between two gates |
| Email queue (`queue.go`, `mail.go`) | `email_queue` | `queue*`, `processEmailQueue`, `startEmailWorker` | every mail is sent or given up, with bounded retries |
| Roles and gates (`roles.go`, `app.go`) | token, `users.roles` | `requireAuth`, `onboardingGates`, `requireRole`, `requireDepartmentScope` | the row that is checked is some statements old |
| Profile (`profile.go`) | `user_profiles` | `saveProfile`, `adminUpdateProfile` | opens the profile gate |
| Seed (`seed.go`) | all tables, at every start of a development backend | thirteen `seed*` functions, `planAssignments` | a start repairs what a killed one left; the plan respects the caps |
| Start-up (`main.go`, `cmd/set-role`, `migrations/`) | schema, `schema_migrations` | `migrate`, `seedDevAdmin`, `set-role` | can be repeated after any prefix of itself |
| AI assistant (`ai.go`) | none | `aiChat` | reads only |
| Web client (`../frontend`) | none shared | calls the API; `buildBlocks` cuts shifts on a two-hour grid | |

Components meet in the tables. The queue and the requests share `workqueue`:
`pickShift` and `assignWorkqueueShift` create overflow requests, and
`approveRequest` assigns and releases shifts. All three read the policy's
columns through `allowanceFor`, which `setWorkerDetails` rewrites. `deleteUser`
reaches every table through foreign keys. Every handler that decides something
ends in `logAudit`. The handlers of accounts hand their mails to the email worker
through `email_queue`; the gates of `requireAuth` stand before all others.

The hard behaviours are the check-then-act windows of `allowanceFor`; the
unconditional writes at the end of `approveRequest` and `assignBlockToRow`;
handlers cut short half way; a shift that changes hands while a request about
it is pending; sequences of legal calls (release, split, reclassify, re-request)
that no test walks through; the email worker killed between a send and its mark;
links, codes and lockouts under concurrent requests; administrators who change
each other's rights; and a start-up killed half way. `PROJECT.json` lists them one by
one under `hazards`.

## 2. Modules

| Module | Contents |
|---|---|
| `WorkerPolicy` | the rules of `worker.go` as operators |
| `Workqueue` | the tables and the handlers of the queue and of the requests, statement by statement, and their properties |
| `EmailQueue` | the table `email_queue`, the worker's batch, send and mark, crashes, failing statements, a database reset under the running process |
| `Outbox` | what the email queue promises: the abstract specification it implements |
| `Accounts` | the account of one address: registration, links, passwords, login with lockout and code, the onboarding gates |
| `Organisation` | administrators, scopes of managers, teams, jobs with their lists, and the workers of a job |
| `Seeder` | a development start-up: the migration, the seed functions, `planAssignments` (uses `WorkerPolicy`) |
| `MC*` | the small instances, one module for each of the above |
| `WorkqueueProofs` | the inductive invariant of `Workqueue`, its state properties and theorems about its steps |
| `WorkqueueSerialProofs` | handlers that run one at a time: decisions, approvals, splits |
| `WorkqueueHoursProofs` | handlers that run one at a time: the hours of a worker, the cap and overtime |
| `EmailQueueProofs` | the inductive invariant of `EmailQueue`, and the safety part of the refinement |
| `OrganisationProofs` | the inductive invariants of `Organisation`: types and administrators, people and their jobs, the lists of a job |
| `AccountsProofs` | the inductive invariant of `Accounts`: links, passwords, gates, codes; then what it counts: uses of a link or code, failures under a lock, tries of a code |
| `SeederProofs` | what the start-up process holds at each of its steps; then the work queue, the drawn hours, the plan, the rows of the files, and a boot without a fault |
| `FoldLemmas` | what `FlattenSeq` and `MapThenSumSet` return, for the proofs about the seed and about hours |

All modules that model handlers share one form: the tables are variables,
`frames[i]` holds the local variables of the handler running in slot `i` with
`pc` naming its next SQL statement, an empty slot is `Idle`, and a statement with
the Go code up to the next is one action. `Abort` is the cancelled context, a
failing statement or a killed process: the handler ends where it is.

### Workqueue: state

`shifts` and `requests` are the tables, functions from ids to rows. A deleted
request keeps its id with the value `NULL`, since a serial id is never used
again. `details`, `present` and `weekly` stand for the columns of `users` and
for `weekly_schedules`; `audit` is the set of audit rows of the actions in
`Kept`.

### Workqueue: actions

One action is one statement with the Go code up to the next. A handler's first
action (`Pick`, `Approve`, `Assign`, ...) covers its reads up to the first
value that other handlers can change under it; the checks it merges read rows
no modelled handler changes (scope, membership) or rows it reads again.
`ReadSettings` and `ReadHours` are the two statements of `allowanceFor`, shared
by five handlers, and `AfterCheck` says where each goes on each verdict.
`TakeOpen` is the guarded UPDATE of `pickShift` and `approveRequest`,
`SplitRead`, `SplitTail`, `SplitHead` and `SplitPut` the four statements of
`assignBlockToRow`, `LogAudit` the insert of `logAudit` with its foreign key on
the actor. `Abort` is the cancelled context: the handler returns where it is.
Handlers of one statement (`CreateShift`, `SetWorkerDetails`, `DeleteUser`)
need a free slot and leave no trace in it, so that with one slot nothing
interleaves.

Hours are integers and dates day numbers. Float rounding and the parsing of
times are not modelled; all times in the code are whole minutes on both sides
of every comparison.

### EmailQueue

The transaction of a handler commits its mails in one step (`Enqueue`; the mails
of one transaction share `Created`). `Poll` is a tick: the SELECT with its
ORDER BY and LIMIT, whose rows become the worker's local batch together with the
attempts they had; `Send` is `sendMail`, which may deliver, fail, or deliver and
then report an error; `Mark` is the UPDATE, computed from the batch and not from
the row, as the code does; `MarkFails` is the same with its error dropped.
`PollRecreates` is the branch for a missing table. `Crash`, failing statements
and `Reset` (somebody drops the tables) are bounded together by `MaxFaults`.
`copies` and `tries` count what the mail server saw and exist for the properties.

### Accounts

`db` is one record of tables. A password is who chose it, and for a generated
one which; links and codes are the number of the draw that made them, so that a
stale one differs from the current one. A transaction changes `db` at its commit
and keeps the row (`Held`) or the address (`Inserting`) until then. `EnterLogin`
reads the hash and decides whether the password is right; the lock, the count,
the clear, the device, the code and the mail are statements of their own.
`verifyLogin`, `resendLoginCode`, `verify` and `resetPassword` are a read and a
write each. `Admitted` is what `requireAuth` and `onboardingGates` let through.
`LoginCount` is the upsert of `login_attempts`: the first failure of a key inserts
its row without a look at the maximum, and only an update of the row sets the
lock. `ghost` records uses of links and codes, mails cut off with their handler,
and failures counted under a lock. The model has one address; what two users can do
to each other is in `Organisation`.

### Organisation

The checks of a request only read and are one action (`Enter*`); each statement
or transaction that writes is one more. So a handler acts on rights, scopes and
teams as they were when it was let in. The two transactions that replace a list
of a job are two steps: the DELETE, which remembers the rows it saw, and the
INSERTs with the commit. At READ COMMITTED a DELETE that waited for another
transaction does not see the rows that one inserted; a UNIQUE violation rolls
back. `ghost` records the jobs whose replacements overlapped, the jobs without
their first hours, the workers whose creation was cut short and the jobs that
moved to another team, since the properties except exactly these. `crossed` says
whether a write was made by somebody who was no admin any more at that moment,
or by `set-role` against an admin.

What the code does not check is not in the guards: `updateJob` looks at the
scope of the team in the body and not at that of the job; `removeWorkerJob` has
no scope check; `createTeam` and `updateTeam` take any department. An admin may
call `createWorker` without a job; that is the same insert without the last two
statements and is not modelled.

### Seeder

A seed function first reads and is then a list of statements (`Script`), executed
one by one; `AfterError` is what an error leaves of the list, that is the
`continue`, the `return` and the errors that are only logged. A statement fails by a
fault, which `MaxFaults` bounds and `hit` records for the boot, or because the
database refuses it (`Refused`: a user whose uid is taken, a second 'Staff Work' of
the team), which is no fault: it costs nothing and no ghost variable records it.
`StaffUid` is the numbering of `staff.csv`, which counts on from the highest uid in
the table; `torn` remembers over all boots the users and jobs whose statements a
fault has cut off after their insert. The planner is `BeginPlan` (the shifts and the
target), `PlanShift` (one turn of the loop, the shuffles being a free choice of the
shift and the worker), `PlanDone` and `WriteShift`. The four functions that draw
rows at random are one loop with different lengths (`Turn`). The planner's state
holds its plan together with counters of hours, as the Go code does; that the
counters agree with the plan is proved, not built in. `Kill` may strike before any
step; once the backend serves it is an ordinary stop and counts as no fault.
Departments are rows of their own, which `seed.csv` makes and `jobs.csv` needs;
teams are folded into the jobs that belong to them, except that 'Staff Work' is a
job of the team that comes first and so a job of its own. A shift is a job, a slot
(day and start, with its hours) and a week.

### External behaviour

PostgreSQL is modelled as the schema uses it: foreign keys refuse rows of a
deleted user and cascade or null on deletion, UNIQUE refuses a second row, a row
lock waits for the transaction that holds it, an INSERT fails when the bounded
ids run out, which stands for any failing INSERT. The mail server takes a mail,
refuses it, or takes it and fails afterwards.

## 3. Runs

"Serial" runs have one slot and no abort. They ask whether the handlers are
right when nothing interferes; they are the place for properties that the
interleavings break.

| Run | Instance | Shows |
|---|---|---|
| `wq_serial` | 1 slot, 2 workers, 3 whole shifts in 2 weeks, 1 request id, reclassification | `HoursRiseWithinCap`, `OvertimeNeedsApproval`, `TerminalIsFinal`, `ApprovalTookEffect` |
| `wq_split` | 1 slot, a six-hour shift cut on the two-hour grid into up to 3 pieces (4 ids), single blocks and lists in any order | `SplitsTileTheShift`, `GroupsAreFlat`, `HoursRiseWithinCap` |
| `wq_race` | 2 slots, aborts, deletion, templates, new shifts, lists | `OpenHasNoWorker`, `HolderKeepsShift` |
| `wq_requests` | 2 slots, 2 requests, 1 shift, deletion | `TypeOK`, `RequestsAudited`, `HolderKeepsShift` |
| `wq_cap_race` | 2 slots, 2 shifts | **violates** `HoursRiseWithinCap` |
| `wq_stale_miss` | 1 slot, 1 shift, 1 request | **violates** `MissReturnsOwnShift` |
| `wq_template_overtime` | 1 slot, 1 template | **violates** `OvertimeNeedsApproval` |
| `email_delivery` | 3 mails, batches of 2, 2 attempts, 2 faults | `ImplementsOutbox`, `EverySettled`, `CapHolds`, `RepeatsAreExplained`, `BatchIsFresh` |
| `accounts` | 2 handlers, 4 sets of routes, 1 address, 3 random values | `LinksAreMailed`, `SpentOnce`, `OnboardingIsPossible`, `GatesHold`, `LockHolds`, `CodeIsBounded`, `CurrentCodeIsSent` |
| `org` | 2 handlers, 6 sets of routes, 2 admins, a manager, a place for one more user, 2 teams, 2 jobs | `AnAdminRemains`, `JobHoursAreOneRequest`, `WorkersAreMembers` |
| `seed_boot` | 4 people, 3 jobs, 3 slots, 1 fault, any number of starts and stops | `BootConverges`, `RowsAreIndependent`, `OneShiftPerSlot`, `HoldersStay`, `PlanWithinCap`, `PlanMeetsTarget`, `DrawnHoursInRange`, `ComesUp` |
| `seed_cap` | that of `seed_boot` without faults, 2 guard shifts | **violates** `WeeklyCapRespected` |

**Bounds.** Two workers are the smallest number that can compete for a shift;
they are an hourly worker with ten regular hours and a student, so that all
three verdicts occur (the hourly worker goes past ten hours only by approval,
the student is blocked at twenty), and `wq_serial` swaps their types. Two slots
are enough for each race listed, all of which are between two handlers; the
theorems of section 4 hold for any number. Three shifts in `wq_serial` give one
held, one that would cross the cap in the same week and one in the next week.
Four ids in `wq_split` let one shift be cut into all three of its blocks, plus
the shift in another team whose sixteen hours make the cap bind. Request ids
are never reused, which bounds the number of requests in a behaviour to one or
two; approving and releasing can repeat without bound. Symmetry is used on
slots, requests and spare ids only, none of which an instance distinguishes.

*email_delivery.* Three mails and batches of two make an older mail that keeps
failing compete with younger ones, and let a batch hold two mails of one
transaction in either order. Two attempts are the smallest cap at which a row is
once retried and once given up; two faults allow a kill after a failed mark, or a
reset of the database under a batch. The theorems hold for any values.

*accounts.* Two handlers suffice for each race of the hazards, and the bounds of
`SpentOnce`, `LockHolds` and `CodeIsBounded` are stated in the number of handlers.
The routes are split into four sets because a larger one only adds handlers that
touch different columns; `create` and `delete` are in each or with `signup`. Three
random values let a link or a code be replaced twice. A lockout after two failures
and four counted failures let one be counted before and two under the lock.
`GatesHold` is about the preferred times a worker enters: shifts, templates and
jobs are given to workers by their managers, whose requests pass the gates with
the manager's account, not the worker's.

*org.* Two admins are the smallest number that can remove each other. Six sets of
routes hold the handlers that share a table. Two requests that replace lists are
all that can overlap with two handlers. Two hours sets that share a day and one
that does not make the UNIQUE violation happen and not happen.

*seed_boot.* One worker without, one with a fixed account, a guard and a manager
cover every branch of the two files; two shifts of twelve hours exceed the cap of
twenty together, so that the planner must turn one down, and a target of nine tenths
is reached with the six-hour shift open. One fault can be anywhere. The schema file
is two statements, since only the prefix that ran matters. A stop of a backend that
serves is no fault, so boots without a fault follow the one that had it. The highest
uid is not that of the last row of `seed.csv`, so that a fault can take it and the
rest of the file still run: the run comes to boots in which somebody of `staff.csv`
has that uid and its row is refused. In `seed_cap` the guard's two shifts of 6 and
15 hours stand for a guard's real ones, as 20 hours do for the real cap of 60.

**Deadlock** is checked where a handler can always start, that is in the passing
`wq_*` runs, in `email_delivery` and in `seed_boot`. It is not in the runs of violations, in
`accounts` and `org`, whose bounds on ids, random values and requests are used up
at some point.

**Fairness.** The handlers are never assumed to be called. The two specifications
with liveness assume it of the loops of the process only. `EmailQueue`: weak
fairness of `Boot` (the service manager restarts the process), of `Poll` and
`PollRecreates` (the ticker of `startEmailWorker` ticks), of `Send` and of
`Mark \/ MarkFails` (`sendMail` and the statements return). The last is a real
assumption: `smtp.Dial` has no timeout, and a mail server that never answers stops
the worker for good; it is listed under the hazards. Faults are bounded, so that
a process that is killed for ever is excluded. `Seeder`: weak fairness of `Start`
and of the process's next step, whether it fails or not.

### Findings

1. *The weekly cap is not hard under concurrency* (`wq_cap_race`). `worker.go:17`
   calls it a "hard weekly cap (no assignment beyond this)". The check and the
   write are different statements, and the write does not repeat the check, so
   two handlers for one worker both pass.
2. *An old miss request releases somebody else's shift* (`wq_stale_miss`). A
   worker asks to miss a shift, a manager releases it, another worker picks it,
   and the approval of the request then opens it under its new holder
   (`schedule_requests.go:79-84`).
3. *A weekly template hands out overtime* (`wq_template_overtime`).
   `addWeeklySchedule` refuses only "blocked"; "pending", which
   `worker.go:73-74` says needs a manager's approval as a request, is assigned.
4. *The seed plan exceeds the weekly cap* (`seed_cap`). `seed.go:662` says that
   `seedAssignments` respects each worker's cap and `seed.go:769-770` that
   `seedSecurityAssignments` uses the guards' remaining capacity, but
   `planAssignments` starts each call with no hours used (`seed.go:620`) and is
   given the open shifts only. The hours a guard got from the first call are not
   counted in the second.

Three more disagreements are exceptions of properties above. Each has a configuration
of its own, in which TLC refutes what the source says:

- *The uids of `staff.csv` can collide with those of `seed.csv`* (`seed_uids.cfg`,
  `UidsNeverCollide`). `seed.go:262-263` says that the former start above the highest
  existing one "so they never collide". Existing is what was inserted: if the insert
  of the row with the highest uid fails once, the first row of `staff.csv` takes that
  uid, and the row of `seed.csv` is refused in every later boot, although none of
  these meets a fault. `RowsAreIndependent` excepts the row whose uid is gone
  (`UidGone`), and no other.
- *The staff account can stay without a job for good* (`seed_staff.cfg`,
  `StaffAccountHasJob`). `seed.go:870-871` says that `seedStaff` ensures one. It
  inserts 'Staff Work' and the assignment in two statements; cut between them, it is
  refused at the first of them by every later boot. That takes two faults, since it
  makes the job only if the account's own row of `seed.csv` was cut short before.
  `BootConverges` excepts this case, and a refused statement as such excuses
  nothing: `Clean` is about faults only. With the one fault of `seed_boot` the exception is
  not reached; `seed_again.cfg` is a smaller instance with two faults (no manager, one
  shift a week, two invariants) in which it is, and TLC finds no other.
- *One failure does not lock an account whose maximum is one* (`accounts_lock.cfg`,
  `LocksAtMaxAttempts`). `auth.go:337` says "lock the key after the max attempts",
  `README.md:49` of the repository the same of `LOGIN_MAX_ATTEMPTS`, and `intOr`
  (`app.go:111-116`) accepts 1. The first failure inserts `(identifier, 1, NULL)`
  (`auth.go:339-340`); the comparison with the maximum is in the ON CONFLICT branch
  only. From a maximum of two on the lock is as promised (`LockHolds`).

Other disagreements, without a configuration: the comment of `seedAssignments` says roughly
80% and the call 0.9 (`seed.go:661`, `seed.go:743`). The schema allows several
shifts of a job on one day (`001_schema.sql:211-213`), while `validSchedules`
takes one per day and `parseTime` no "24:00", so that the hours of a Security
Guard job, once seeded, cannot be saved by `updateJob`. `users.go:278-280` keeps
an admin from locking itself "and potentially every other admin" out; two admins
who demote each other at the same moment both pass, which is the one exception
`AnAdminRemains` makes.

## 4. Theorems

TLC checks small instances. The theorems hold for any number of handlers, users,
rows, mails and requests and for any inputs that meet the assumptions:

| Module | Theorem | Says |
|---|---|---|
| `WorkqueueProofs` | `TypeCorrect` | `Spec => []TypeOK` |
| | `SplitsStayGrouped` | `Spec => []GroupsAreFlat` |
| | `OpenIsFree` | `Spec => []OpenHasNoWorker` |
| | `HolderKept` | `Spec => HolderKeepsShift` |
| | `RequestsAreAudited` | `Spec => []RequestsAudited`, if handlers are not cut short and the request actions are kept |
| `WorkqueueSerialProofs` | `DecisionsAreFinal` | `Spec => TerminalIsFinal`, if handlers run one at a time |
| | `ApprovalsTakeEffect` | `Spec => ApprovalTookEffect`, if handlers run one at a time |
| | `SplitsAlwaysTile` | `Spec /\ []RowsFit => []SplitsTileTheShift`, if handlers run one at a time, none is cut short, and shifts and blocks lie on a grid |
| `WorkqueueHoursProofs` | `NobodyOverTheCap` | `Spec => HoursRiseWithinCap`, if handlers run one at a time and shifts, templates and blocks lie on a grid |
| | `OnlyApprovalsGiveOvertime` | `Spec => OvertimeNeedsApproval`, if moreover no weekly template is added |
| `EmailQueueProofs` | `EmailTypeCorrect` | `Spec => []TypeOK` |
| | `CounterIsFresh` | `Spec => []BatchIsFresh` |
| | `RetriesAreBounded` | `Spec => []CapHolds` |
| | `RepeatsExplained` | `Spec => []RepeatsAreExplained` |
| | `ImplementsOutboxSteps` | `Spec => Abstract!OInit /\ [][Abstract!ONext]_(Abstract!ovars)`, the safety part of `Outbox` |
| `OrganisationProofs` | `OrganisationTypeCorrect` | `Spec => []TypeOK` |
| | `AdminKept` | `Spec => []AnAdminRemains` |
| | `WorkersStayMembers` | `Spec => []WorkersAreMembers` |
| | `JobHoursStayOneRequest` | `Spec => []JobHoursAreOneRequest` |
| `AccountsProofs` | `AlwaysTyped` | `Spec => []TypeOK` |
| | `LinksAlwaysMailed` | `Spec => []LinksAreMailed` |
| | `GatesAlwaysHold` | `Spec => []GatesHold` |
| | `OnboardingAlwaysPossible` | `Spec => []OnboardingIsPossible` |
| | `CurrentCodeAlwaysSent` | `Spec => []CurrentCodeIsSent` |
| | `AlwaysSpentOnce` | `Spec => []SpentOnce` |
| | `LockAlwaysHolds` | `Spec => []LockHolds` |
| | `CodeAlwaysBounded` | `Spec => []CodeIsBounded` |
| `SeederProofs` | `SeederTypeCorrect` | `Spec => []TypeOK` |
| | `ShiftsStaySingle` | `Spec => []OneShiftPerSlot` |
| | `DrawnAlwaysInRange` | `Spec => []DrawnHoursInRange` |
| | `PlanAlwaysWithinCap` | `Spec => []PlanWithinCap` |
| | `PlanAlwaysMeetsTarget` | `Spec => []PlanMeetsTarget` |
| | `HoldersAlwaysStay` | `Spec => HoldersStay` |
| | `RowsAlwaysIndependent` | `Spec => []RowsAreIndependent` |
| | `BootAlwaysConverges` | `Spec => []BootConverges` |

Assumptions, all evaluated by TLC in every run: `InputsOK` (the initial rows and the
inputs are well formed, and initial groups are flat) and `NullIsNothing` for the
queue of shifts; `QueueAssumption` (finitely many mails, a positive cap and batch
size) for the mails; `OrganisationAssumption` (an admin who is not disabled among
the seeded users, well-formed first rows) for the organisation; `AccountAssumption`
(finitely many handlers, positive limits) for the accounts; `SeedAssumption` (the
lists are finite and agree with each other as the files in the repository do:
managers are rows of the first file, students are not rows of the second, no file
names a person, a uid or a job of a team twice, none names 'Staff Work', a slot has
at least an hour, and neither list of hours of `seed.go` is empty) for the seed. No
bound of a run is assumed by a proof: ids, draws, faults and handlers are as many as
one likes.

Every strengthened invariant was first checked by TLC as an invariant of the run
of its module.

**The queue of shifts.** None of its properties is inductive alone. A handler inside
`assignBlockToRow` writes `parent_shift_id` from a group id it read two
statements earlier, and the row may have been split by another handler since.
`Inv` therefore adds to the shape of the tables (`OthersOK`, `TableOK`) what a
handler's locals satisfy at each statement (`FramesOK`): its row still exists,
and the group it read is still the row's group. That survives the other
handlers because every statement only makes the table grow in the sense of
`Grows`: rows stay, and stay in their group. `UpdateRow` and `InsertRow` show
that for the two kinds of write, and `FrameKept` carries the locals over; each
action then has one lemma.

`HolderKept` is an action property from the same invariant: a row whose holder
changes was open, hence free by `OpenHasNoWorker`, unless the step is
`SplitPut`.

`RequestsAreAudited` needs more: that each audit row a request calls for is
either in the table or in the locals of a handler that has nothing else left to
do (`AuditInv`), and that a deleted actor, whose audit row the foreign key
refuses, took the request with it (`WorkerKept` and the part of `OthersOK` that
a live request has a live worker).

`DecisionsAreFinal` and `ApprovalsTakeEffect` assume `Serial`, a single slot: with a
second slot in `wq_serial` TLC finds both properties violated. They rest on
`DecidingInv`: what `approveRequest` read of its request still holds of it, and
by the time it writes the status it has done to the shift what the decision
says. A step of another handler cannot disturb that, since there is none (`Alone`),
and a handler keeps its operation until it returns (`OpKept`). Handlers may still be
cut short anywhere, and accounts deleted in between.

`SplitsAlwaysTile` also excludes aborts (`~MayAbort`) and the failing INSERT of a
remainder (`RowsFit`), either of which stops `assignBlockToRow` between its three
writes and leaves rows that overlap. Its blocks are those of the client's
`buildBlocks`: there is a set of hours `P`, the grid, such that no shift starts or
ends off it and the blocks of a list have no hour of it inside, and no shift at the
start is itself a piece (`OnGrid`; the instance of `wq_split` has such a grid, and
TLC checked `TileInv` on it; the handler itself only requires a list's blocks to
start in an open row). In the middle of a cut the rows do not cover the shift, so
the invariant `TileInv` is about `View`, the hours each row will have when the
handler is through: at every statement these are disjoint and cover the shift.
`CutInTwo` is the geometry, one piece replaced by two; `CutOK` says that the block
still fits in the row when it is cut, which for a list follows from the grid
(`CellFits`). A step that changes neither times nor groups keeps it all
(`CalmStep`).

`NobodyOverTheCap` and `OnlyApprovalsGiveOvertime` need neither of these two: a
handler may be cut short at any statement and an INSERT may fail. `HoursOnGrid` is
what Go validates (`hoursBetween` is positive for a new shift and for a template)
and, for the blocks of a list, the grid above: a block that runs over the end of its
row leaves a remainder of negative hours, which lowers the sum. For pure picks,
approvals and single blocks any set of hours is such a grid. `HoursRiseWithinCap` is
not inductive, since its bound is the verdict of a check made some statements
before. `WithinInv` carries it over them: from `ReadHours` on, the hours the worker
has *now* and those the handler will still hand out are together below its `Limit`,
which is the regular hours, or the cap for an approval. A pick or an approval writes
a row as long as the block it asked for, a cut writes the first block of the list
and leaves the rest (`SplitPutWithin`), and the row chosen for the next block holds
all of it (`CoveringRow`: the row covers its start and cannot end inside a cell).
Remainders and releases give hours to nobody. `WeekHours` is a sum over the rows of
a worker and week; `OneRow` says what one written row does to it, `GiveRow` who can
gain by it. A change of classification can lower the limit below the hours already
given, which is why the property is about steps that raise them; no handler holds
the old settings meanwhile, being alone. TLC checked `WithinInv` on the instances of
`wq_serial`, `wq_split` and `wq_template_overtime` with aborts before the proof.
With two handlers it is false, which is finding 1; with templates overtime needs no
approval, finding 3.

**The email queue.** `CapHolds` and `RepeatsAreExplained` bound what the mail server
saw, and a row's counter alone does not: a kill between `Send` and `Mark` leaves
a try that was not counted. `RowsOK` says how far the counter may be behind the
tries, which is one for each fault and one more for the try in hand. A mail whose
row a reset removed is still in the worker's batch and will still be sent, so
`TriesOK` and `CopiesOK` keep room for one more error and one more copy for
every batch job that is still to be sent, with or without a row. `BatchOK` says
that a batch holds a mail once, and `BatchIsFresh`, itself a property, that no one
else wrote the row meanwhile. The refinement maps a mail to its phase (`none`,
`owed`, `sent`, `failed`, `lost`); `SendTries`, `MarkSettles`, `ResetWipes` and
`EnqueueHandsOver` are the four steps that are not stutters.

**The organisation.** A request that changes an account passed the check that
its target is not its caller, several statements before the write. `FrameOK` keeps
that in the locals of the handler. So when a write removes an admin, either its
caller is still an admin, and remains one, or it lost that right in between,
which `crossed` records. Ids of deleted users are not given again (`IdsOK`), or a
deleted caller could come back as somebody else. The rest of `FrameOK` says what
the locals of the other handlers hold; that a membership is granted for a team
needs that jobs keep a team once they have one (`TeamsKept`).

*People* (`PeopleInv`). A worker's job, membership and profile are written by
different statements of one request, and `removeWorkerJob` and `deleteUser` may
come in between. `WorksOK` says of each job of a worker that the membership is
there, or some handler is about to grant it, or its handler was cut short, or the
job moved. `ProfilesOK` says the same of the profile of a new worker. *Lists*
(`ListsInv`). `Alone` says that two replacements of one job's list are in their transactions
together only when the job is recorded as overlapped, and `SeenAll` that the
DELETE of any other saw all the rows there are. So its INSERTs go to an empty list.

**The accounts.** The invariant `Inv` has a part about control and a part for each
property. `Control` is `TypeOK`, what a handler's locals satisfy at each statement
(`FramesOK`: what it drew, it drew itself; what it read, it read of a row that
existed), `IdsOK` (ids are not reused, so a late write of a deleted user's handler
meets no other account), `CodesOwned` and `SignupOK` (of the signups that hold the
UNIQUE address there is one). `PassedGates` carries what `requireAuth` read to the
write behind it: a profile, once there, stays as long as its user, a password an
admin chose for a new account is not chosen for it again, and a mark of verification
goes only when an admin takes it back; `GatesHold` follows. `LinksAreMailed` and
`CurrentCodeIsSent` are inductive together with `Control`: a link and its mail are
one transaction; a code and its mail are two statements, in between which the mail
is in the handler's hands. `Passwords` says who knows the password an account has.

`CountInv` is about numbers. A link or code is in one *place*: a column of an
account or a row of `login_codes`, or in the locals of the one handler that drew
it and has not stored it (`OnePlace`, `Private`). A draw that is in no place is
never in one again (`Drawn`), and one never used is unused (`Unused`). Then the
requests that can still use a link are those that read it before
(`Readers`), and each use takes one out of that set: `UsesOK` bounds the uses so far
plus those readers by the number of handlers as long as the link is spendable by
nobody else. `LockInv` and `TriesInv` are the same argument for the failures under
a lock, with the handlers at the counting statement (`Counting`) and, for any
maximum, the count at which an update sets the lock, and for
the tries and resends of a code (`On`).

**The seed.** `Control` says what the process holds at each step: while it runs a
script, a list of statements each of which is `Sound` (a `works` names a worker and
a job, a `shift` one of the slots and a week, and so on) and `Allowed` to the
function it belongs to; while it plans or writes, a plan for rows of `workqueue`
that are there; while it draws, a subject and a count. The scripts are built with
`Each`, `Keep` and `\o` over the files, so that most of `SeederProofs` is about
these: what is in a flattened sequence comes from one of its parts (`FlattenType`),
what is kept was there. `OneShiftPerSlot` then needs no more than the guard of the
INSERT, and `DrawnHoursInRange` that a turn starts below its target (`Totals`).

The plan's invariant `PlanInv` ties the planner's counters to its plan:
`Booked` (the hours counted for a worker and week are the sum over the plan, and
within the cap; `spent` is the sum over all of it), `Assigned` (a shift is planned
for a worker of its job), `Near` (take the right shift away and the target is not
reached) and `Tried` (a shift that was set aside has no candidate, and a shift
without one never has one again, since counters only rise). `PlanWithinCap` and
`PlanMeetsTarget` follow. That adding a shift adds its hours to the sum is
`HoursFacts`, an instance of `Adds`.

*The order of a script.* The last two properties need the order in which a script
does things, and that takes more than a fold's type. `FlattenPlaces` gives every
element of a flattened sequence its *place* in the parts, and says that places
are in order; `KeepFollows` does the same for what is kept of a list. With these,
`CsvScript` and `StaffScript` show that the script of a file has the `Shape` of
one block per row, the user's insert first, and `AfterErrorThin` and `ShapeThin`
that what `continue` leaves of it still has: no row's later statements survive
without its insert. `Moves` sorts all steps into eight kinds by what they do to the
script and the tables, and `RowsInv` is inductive over them: for a user who was not
torn, what the tables lack the script still holds (`Furnished`). A row whose insert
is refused leaves the script without having been struck; by `Numbered` (a uid is that
of its row in `seed.csv`, or belongs to somebody of `staff.csv`) and the files' distinct
uids the one who holds its uid is then of `staff.csv`, which is `UidGone`.

`Converging` is the conjunction, for a boot that has met no fault (refused statements
do not count as one), of what each
function it is past has done and what the one it runs has left to do: a guard
job's hours come after the one delete of its hours (`Guarding`, from
`GuardScript`), a job without hours has a statement, a slot of a job is queued or has its
INSERT ahead. It holds because no later function undoes it: the default hours skip
guard jobs, which have hours by then, and seedStaff touches only its own job.
That is why `BootConverges` leaves out that one job's shifts. The only statement of such a
boot that `Converging` has to see refused is the insert of 'Staff Work'. `StaffInv` is
about it: 'Staff Work' exists only if the staff account has a job, or seedStaff is
between the two, or a fault came between them in some boot and left it in `torn`
(`WorkInv`, `Settled`), and nothing takes any of these away. So the account is
without a job only in the case that section 3 describes.

*Sums without induction.* The library's induction theorems cannot be instantiated
here, so the proofs about folds argue by least counterexample: `Least` says
that a set of naturals that is not empty has a least element, from `WFMin` and
`NatLessThanWellFounded`. The smallest set (or shortest sequence) for which a claim
on `MapThenSumSet` (or `FlattenSeq`) fails loses one element and contradicts the
recursive definition.

**Model-checked only.**

- Liveness: `EverySettled`, `ComesUp` and the fairness of `Outbox` in
  `ImplementsOutbox`. The prover does not reason about ENABLED.

Every invariant and every action property of the passing runs is proved, under
the conditions the table above names.

## 5. Not modelled

- The read-only rest: listings, calendars, rosters, the scoped audit report and its
  export, `me`, and the AI assistant, which sends a prompt over the caller's data
  to an outside service.
- `createDepartment` and `updateDepartment`, which write a name and an address to one
  row. The manager of a department is set elsewhere and is modelled.
- `seedJobOptimalWorkers`, an UPDATE of one number per job that nothing else in the
  seed reads.
- `createWorker` called by an admin without a job, which is the modelled insert
  without its last two statements.
- The validation of profile fields, passwords and addresses, hashing and the
  signing of tokens, and the reading of the configuration. They give constants or
  accept and refuse a request before anything is written.
- `Workqueue` keeps membership and manager scope constant and has no job of a
  shift. Handlers that change them are in `Organisation`; what a change of scope
  does to a request in flight is therefore only checked there.
- The web client, whose `buildBlocks` gives the inputs of the split runs, and
  the scripts, the brand and the demonstration.

Failures of the database other than a cancelled context, a refused foreign key,
a violated UNIQUE and a failed INSERT are not distinguished: they all end the
handler at a statement, as `Abort` does.

## 6. Plan

1. *Atomic ledger.* An abstract specification of the queue in which picking,
   assigning and approving are single steps; the statement-level handlers
   implement it when serial.
2. *Composition.* `Workqueue` with a membership and a scope that change, as the
   handlers of `Organisation` do.
