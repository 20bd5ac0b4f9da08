------------------------------- MODULE Seeder --------------------------------
(***************************************************************************)
(* What a development backend does before it serves: run the migration,    *)
(* then the seed functions one after the other (backend/main.go, seed.go). *)
(* Nothing else writes the database meanwhile, and no seed function opens  *)
(* a transaction: each statement commits on its own, and the process may   *)
(* be killed, or a statement may fail, after any of them.  The next boot   *)
(* runs everything again, on whatever rows it finds.                       *)
(*                                                                         *)
(* A seed function first reads what it needs and is then a list of         *)
(* statements, kept in boot.script; the planner of the assignments and the *)
(* loops that draw rows at random have actions of their own.               *)
(***************************************************************************)
EXTENDS SequencesExt, WorkerPolicy

CONSTANTS
  NULL,
  Objects,         \* the number of statements of the schema file
  Admin,           \* the development admin
  CsvRows,         \* rows of seed.csv, in order
  StaffRows,       \* rows of staff.csv, in order
  Managers,        \* those rows whose role is manager (or scheduler)
  JobOf,           \* the job a worker's row calls for: the first of its team
                   \* (seed.csv), or the one it names (staff.csv)
  TeamOf,          \* the team of a job
  DepartmentOf,    \* the department of a row of seed.csv or jobs.csv
  UidOf,           \* the uid of a row of seed.csv: "U00001" is 1
  Details,         \* worker_type and hourly_limit of a worker's row
  Students,        \* the workers whose role is student; staff.csv has none
  DefaultJobs,     \* jobs named after their team, made by seed.csv
  ExtraJobs,       \* rows of jobs.csv, in order
  SecurityJobs,    \* those of them named 'Security Guard'
  StaffAccount,    \* staff@mail.edu
  StaffJob,        \* 'Staff Work' of the first team
  DefaultHours,    \* defaultJobSchedules, in order: [key, hours]
  SecurityHours,   \* securityShifts, in order
  MaxFaults        \* bound on kills and failed statements together

VARIABLES
  db,              \* the tables
  boot,            \* where the starting process is, and its local variables
  faults,          \* faults so far
  hit,             \* rows and functions a fault of this boot struck
  torn             \* people, jobs and tables a fault has left half done

vars == <<db, boot, faults, hit, torn>>

Rows(file)  == {file[k] : k \in DOMAIN file}
Workers     == (Rows(CsvRows) \cup Rows(StaffRows)) \ Managers
People      == Workers \cup Managers \cup {Admin}
JobList     == DefaultJobs \o ExtraJobs \o <<StaffJob>>
Jobs        == Rows(JobList)
SlotList    == DefaultHours \o SecurityHours
Slots       == Rows(SlotList)
Weeks       == 0..1

\* No file of backend/seed names a person, or a job of a team, or a uid, twice;
\* none names 'Staff Work'; and neither list of hours of seed.go is empty.
ASSUME SeedAssumption ==
  /\ Objects \in Nat /\ MaxFaults \in Nat
  /\ \A list \in {CsvRows, StaffRows, DefaultJobs, ExtraJobs, DefaultHours,
                 SecurityHours} : list \in Seq(Rows(list))
  /\ \A file \in {CsvRows, StaffRows, ExtraJobs} : IsInjective(file)
  /\ DefaultHours # <<>> /\ SecurityHours # <<>>
  /\ Managers \subseteq Rows(CsvRows) \ Rows(StaffRows)
  /\ StaffAccount \in Rows(CsvRows) \ Managers
  /\ DOMAIN TeamOf = Jobs
  /\ DOMAIN DepartmentOf = Rows(CsvRows) \cup Rows(ExtraJobs)
  /\ UidOf \in [Rows(CsvRows) -> Nat \ {0}] /\ IsInjective(UidOf)
  /\ StaffJob \notin Rows(DefaultJobs) \cup Rows(ExtraJobs)
  /\ JobOf \in [Workers -> Jobs \ {StaffJob}]
  /\ Details \in [Workers -> AllDetails]
  /\ Students \subseteq Workers \ Rows(StaffRows)
  /\ SecurityJobs \subseteq Rows(ExtraJobs)
  /\ \A slot \in Slots : slot.hours \in Nat \ {0}
  /\ NULL \notin People \cup Jobs

\* A row of workqueue.  The key of a slot is a day of the week and a start time,
\* which make the date and the start of the shift.
Shift == [job : Jobs, slot : Slots, week : Weeks, worker : Workers \cup {NULL}]
SlotOf(shift) == <<shift.job, shift.slot.key, shift.week>>

\* The tables of the functions that draw rows at random, once per subject.
Drawn == {"preferred_times", "schedule_requests", "job_holidays",
          "weekly_schedules"}

Tables ==
  [objects : SUBSET (1..Objects),       \* statements of the schema applied
   recorded : BOOLEAN,                  \* the row of schema_migrations
   departments : SUBSET Range(DepartmentOf),
   users : SUBSET People, profiles : SUBSET People,
   uids : [People -> Nat],              \* users.uid, 0 for NULL
   managing : SUBSET Managers,          \* teams' and departments' manager_id
   jobs : SUBSET Jobs,
   hours : [Jobs -> SUBSET Slots],      \* job_schedules
   works : SUBSET (Workers \X Jobs),    \* student_jobs
   members : SUBSET Workers,            \* worker_teams
   queue : Seq(Shift),                  \* workqueue, by id
   drawn : SUBSET (Drawn \X (Workers \cup Jobs))]  \* subjects that have rows

Stages == <<"migrate", "admin", "csv", "extra_jobs", "extra_staff",
            "security_hours", "default_hours", "workqueue",
            "preferred_times", "staff", "assign", "guards",
            "schedule_requests", "job_holidays", "weekly_schedules">>

Operations == {"object", "record", "admin", "department", "user", "profile",
               "staff_user", "staff_profile", "manager", "member", "works",
               "job", "new_job", "hours", "clear", "shift"}

Statement == [op : Operations, row : People \cup Jobs, n : Nat,
              job : Jobs \cup {NULL}, slot : Slots \cup {NULL}]

\* planAssignments: what is left of the shuffled shifts, the result, the hours
\* used per worker and week, the hours assigned and the hours aimed at.
NoPlan == [todo |-> {}, plan |-> <<>>, used |-> [w \in Workers |->
             [k \in Weeks |-> 0]], spent |-> 0, total |-> 0, tenths |-> 10]

Plans(S) == {plan \in [S -> Workers] : S \subseteq DOMAIN db.queue}

Planner(plan) == [todo : SUBSET DOMAIN db.queue, plan : {plan},
                  used : [Workers -> [Weeks -> Nat]], spent : Nat,
                  total : Nat, tenths : {9, 10}]

Boot(plan) ==
  [pc : {"down", "begin", "run", "plan", "write", "draw", "serve"},
   stage : DOMAIN Stages, script : Seq(Statement), planner : Planner(plan),
   subjects : SUBSET (Workers \cup Jobs),
   subject : Workers \cup Jobs \cup {NULL}, count : Nat]

At(pc, stage) == [pc |-> pc, stage |-> stage, script |-> <<>>,
                  planner |-> NoPlan, subjects |-> {}, subject |-> NULL,
                  count |-> 0]

TypeOK ==
  /\ db \in Tables
  /\ boot.planner.plan \in Plans(DOMAIN boot.planner.plan)
  /\ boot \in Boot(boot.planner.plan)
  /\ faults \in 0..MaxFaults
  /\ hit \subseteq People \cup Jobs \cup Rows(Stages)
  /\ torn \subseteq People \cup Jobs \cup (Drawn \X (Workers \cup Jobs))

-----------------------------------------------------------------------------
(***************************************************************************)
(* The statements of the seed functions that are lists.                    *)
(***************************************************************************)
Do(op, row)          == [op |-> op, row |-> row, slot |-> NULL, n |-> 0,
                         job |-> NULL]
DoUser(op, row, uid) == [Do(op, row) EXCEPT !.n = uid]
DoJob(op, row, j)    == [Do(op, row) EXCEPT !.job = j]
DoSlot(row, j, slot) == [DoJob("hours", row, j) EXCEPT !.slot = slot]
DoShift(j, slot, k)  == [op |-> "shift", row |-> j, slot |-> slot, n |-> k,
                         job |-> j]

Each(Op(_), seq) == [k \in DOMAIN seq |-> Op(seq[k])]
Concat(Op(_), seq) == FlattenSeq(Each(Op, seq))
Keep(Test(_), seq) ==
  Concat(LAMBDA x : IF Test(x) THEN <<x>> ELSE <<>>, seq)

\* insertDefaultJobSchedules.
HoursOf(row, j, list) == Each(LAMBDA slot : DoSlot(row, j, slot), list)

\* The operations migrate repeats at every start until all of them are applied.
Migration ==
  IF db.recorded THEN <<>>
  ELSE [k \in 1..Objects |-> [Do("object", Admin) EXCEPT !.n = k]]
       \o <<Do("record", Admin)>>

\* One row of seed.csv: an existing email is skipped.  The department and its
\* team come first.
CsvRow(p) ==
  IF p \in db.users THEN <<>>
  ELSE <<Do("department", p), DoUser("user", p, UidOf[p]), Do("profile", p)>> \o
       (IF p \in Managers THEN <<Do("manager", p)>>
        ELSE <<DoJob("job", p, JobOf[p])>>
             \o HoursOf(p, JobOf[p], DefaultHours)
             \o <<DoJob("works", p, JobOf[p]), Do("member", p)>>)

\* One row of jobs.csv; the row is skipped when its department does not exist.
JobRow(j) ==
  IF j \in db.jobs \/ DepartmentOf[j] \notin db.departments THEN <<>>
  ELSE <<DoJob("job", j, j)>>
       \o (IF j \in SecurityJobs THEN <<>> ELSE HoursOf(j, j, DefaultHours))

\* The highest uid there is, and the one a row of staff.csv gets: each row whose
\* job exists takes the next.
MaxUid == LET uids == {0} \cup {db.uids[p] : p \in db.users}
          IN  CHOOSE n \in uids : \A m \in uids : m <= n
StaffUid(p) ==
  MaxUid + Cardinality({k \in DOMAIN StaffRows :
                          /\ JobOf[StaffRows[k]] \in db.jobs
                          /\ \E j \in DOMAIN StaffRows :
                               k <= j /\ StaffRows[j] = p})

\* One row of staff.csv; the row is skipped when its job does not exist.
StaffRow(p) ==
  IF p \in db.users \/ JobOf[p] \notin db.jobs THEN <<>>
  ELSE <<DoUser("staff_user", p, StaffUid(p)), Do("staff_profile", p),
         DoJob("works", p, JobOf[p]), Do("member", p)>>

\* seedSecuritySchedules.
Replace(j) ==
  IF j \notin db.jobs \cap SecurityJobs THEN <<>>
  ELSE <<DoJob("clear", j, j)>> \o HoursOf(j, j, SecurityHours)

\* seedDefaultJobSchedules.
Backfill(j) == IF j \in db.jobs /\ db.hours[j] = {}
               THEN HoursOf(j, j, DefaultHours) ELSE <<>>

\* seedWorkqueue: this week and next for each of a job's hours.
ShiftsOf(j) ==
  Concat(LAMBDA slot : <<DoShift(j, slot, 0), DoShift(j, slot, 1)>>,
         Keep(LAMBDA slot : slot \in db.hours[j], SlotList))

\* seedStaff: the staff account gets a job if it has none.
StaffWork ==
  IF \/ StaffAccount \notin db.users
     \/ \E j \in Jobs : <<StaffAccount, j>> \in db.works
  THEN <<>>
  ELSE <<DoJob("new_job", StaffAccount, StaffJob)>>
       \o HoursOf(StaffAccount, StaffJob, DefaultHours)
       \o <<DoJob("works", StaffAccount, StaffJob),
            DoJob("member", StaffAccount, StaffJob)>>

Script(stage) ==
  CASE stage = "migrate"        -> Migration
    [] stage = "admin"          -> <<Do("admin", Admin), Do("profile", Admin)>>
    [] stage = "csv"            -> Concat(CsvRow, CsvRows)
    [] stage = "extra_jobs"     -> Concat(JobRow, ExtraJobs)
    [] stage = "extra_staff"    -> Concat(StaffRow, StaffRows)
    [] stage = "security_hours" -> Concat(Replace, ExtraJobs)
    [] stage = "default_hours"  -> Concat(Backfill, JobList)
    [] stage = "workqueue"      -> Concat(ShiftsOf, JobList)
    [] stage = "staff"          -> StaffWork

\* INSERT INTO workqueue ... WHERE NOT EXISTS.  Mutated forms: AlwaysInsert has
\* no condition, AnyDate compares the job and the start time only.
AlwaysInsert(st) == TRUE
AnyDate(st) ==
  \A k \in DOMAIN db.queue :
    \/ db.queue[k].job # st.job
    \/ db.queue[k].slot.key[2] # st.slot.key[2]
NotQueued(st) ==
  \A k \in DOMAIN db.queue :
    SlotOf(db.queue[k]) # <<st.job, st.slot.key, st.n>>

\* The tables after a statement.
Effect(st) ==
  CASE st.op = "object"  -> [db EXCEPT !.objects = @ \cup {st.n}]
    [] st.op = "record"  -> [db EXCEPT !.recorded = TRUE]
    [] st.op = "department" ->
         [db EXCEPT !.departments = @ \cup {DepartmentOf[st.row]}]
    [] st.op = "admin"   -> [db EXCEPT !.users = @ \cup {st.row}]
    [] st.op \in {"user", "staff_user"} ->
         [db EXCEPT !.users = @ \cup {st.row}, !.uids[st.row] = st.n]
    [] st.op \in {"profile", "staff_profile"} ->
         [db EXCEPT !.profiles = @ \cup {st.row}]
    [] st.op = "manager" -> [db EXCEPT !.managing = @ \cup {st.row}]
    [] st.op \in {"job", "new_job"} -> [db EXCEPT !.jobs = @ \cup {st.job}]
    [] st.op = "hours"   -> [db EXCEPT !.hours[st.job] = @ \cup {st.slot}]
    [] st.op = "clear"   -> [db EXCEPT !.hours[st.job] = {}]
    [] st.op = "works"   -> [db EXCEPT !.works = @ \cup {<<st.row, st.job>>}]
    [] st.op = "member"  -> [db EXCEPT !.members = @ \cup {st.row}]
    [] st.op = "shift"   ->
         IF NotQueued(st)
         THEN [db EXCEPT !.queue = Append(@, [job |-> st.job, slot |-> st.slot,
                                              week |-> st.n,
                                              worker |-> NULL])]
         ELSE db

\* Does the database refuse the statement?  Every statement of the schema file
\* says IF NOT EXISTS or OR REPLACE; a second 'Staff Work' of the team violates
\* UNIQUE (name, team_id), and a user whose uid another one has UNIQUE (uid).
\* OnceOnly: a schema that can only be applied once.
UidTaken(uid) == \E p \in db.users : db.uids[p] = uid
OnceOnly(st) == \/ st.op = "object" /\ st.n \in db.objects
                \/ st.op = "new_job" /\ st.job \in db.jobs
Refused(st) ==
  \/ st.op = "new_job" /\ st.job \in db.jobs
  \/ st.op \in {"user", "staff_user"} /\ UidTaken(st.n)

\* What an error of the statement leaves of the function's list: `continue` and
\* `return` of the code, and errors that are only logged.
\* ReturnsAlways is the mutated form that gives the whole function up.
Others(st, rest) == Keep(LAMBDA t : t.row # st.row, rest)
ReturnsAlways(st, rest) == <<>>
AfterError(st, rest) ==
  CASE st.op \in {"department", "user", "profile", "job", "staff_user"} ->
         Others(st, rest)
    [] st.op = "hours" /\ Stages[boot.stage] \in
         {"csv", "extra_jobs", "staff"} ->
         Keep(LAMBDA t : ~(t.op = "hours" /\ t.row = st.row), rest)
    [] st.op \in {"staff_profile", "member", "manager"} -> rest
    [] st.op = "works" /\ Stages[boot.stage] # "staff" -> rest
    [] OTHER -> <<>>

-----------------------------------------------------------------------------
(***************************************************************************)
(* The process: start, one function after the other, serve; kill and start *)
(* again.                                                                  *)
(***************************************************************************)
Drawing(stage) == stage \in Drawn
Planning(stage) == stage \in {"assign", "guards"}

NextStage == IF boot.stage = Len(Stages) THEN At("serve", boot.stage)
             ELSE At("begin", boot.stage + 1)

Start ==
  /\ boot.pc = "down"
  /\ boot' = At("begin", 1) /\ hit' = {}
  /\ UNCHANGED <<db, faults, torn>>

\* The first SELECTs of a function that is a list of statements.
Begin ==
  LET stage == Stages[boot.stage]
  IN  /\ boot.pc = "begin" /\ ~Drawing(stage) /\ ~Planning(stage)
      /\ boot' = [boot EXCEPT !.pc = "run", !.script = Script(stage)]
      /\ UNCHANGED <<db, faults, hit, torn>>

Execute ==
  /\ boot.pc = "run" /\ boot.script # <<>> /\ ~Refused(Head(boot.script))
  /\ db' = Effect(Head(boot.script))
  /\ boot' = [boot EXCEPT !.script = Tail(@)]
  /\ UNCHANGED <<faults, hit, torn>>

Return ==
  /\ boot.pc = "run" /\ boot.script = <<>>
  /\ boot' = NextStage
  /\ UNCHANGED <<db, faults, hit, torn>>

Fault == faults < MaxFaults /\ faults' = faults + 1

\* What a fault leaves half done: the user whose row it strikes, once inserted,
\* and the job that the statement is about.
Half(st) == IF st.row \in db.users THEN {st.row} \cup ({st.job} \cap db.jobs)
            ELSE {}

\* A statement fails, by a fault or because it is refused; an error of migrate
\* ends the process (log.Fatalf).
StatementFails ==
  LET st == Head(boot.script)
  IN  /\ boot.pc = "run" /\ boot.script # <<>>
      /\ IF Refused(st) THEN UNCHANGED <<faults, hit, torn>>
         ELSE Fault /\ hit' = hit \cup {st.row} /\ torn' = torn \cup Half(st)
      /\ IF Stages[boot.stage] = "migrate" THEN boot' = At("down", 1)
         ELSE boot' = [boot EXCEPT !.script = AfterError(st, Tail(@))]
      /\ UNCHANGED db

\* A SELECT at the top of a function, or one of its loop's, fails, or its file
\* cannot be read; without jobs.csv seedExtraData never comes to staff.csv.
ReadError ==
  /\ boot.pc \in {"begin", "draw"} /\ Fault
  /\ boot' = CASE Stages[boot.stage] = "migrate"    -> At("down", 1)
               [] Stages[boot.stage] = "extra_jobs" ->
                    At("begin", boot.stage + 2)
               [] OTHER                             -> NextStage
  /\ hit' = hit \cup {Stages[boot.stage]}
  /\ torn' = torn \cup (IF boot.subject = NULL THEN {}
                        ELSE {<<Stages[boot.stage], boot.subject>>})
  /\ UNCHANGED db

\* The process is killed half way, or stopped once it serves, which is no fault.
Kill ==
  /\ boot.pc # "down"
  /\ IF boot.pc = "serve" THEN UNCHANGED faults ELSE Fault
  /\ boot' = At("down", 1)
  /\ torn' = torn
       \cup (IF boot.script = <<>> THEN {} ELSE Half(Head(boot.script)))
       \cup (IF boot.subject = NULL THEN {}
             ELSE {<<Stages[boot.stage], boot.subject>>})
  /\ UNCHANGED <<db, hit>>

-----------------------------------------------------------------------------
(***************************************************************************)
(* planAssignments and its two callers, seedAssignments and                *)
(* seedSecurityAssignments.                                                *)
(***************************************************************************)
\* The open shifts a caller plans for.  AnyShift is the mutated form without
\* `status = 'open'`.
PlannedJobs(stage) == IF stage = "guards" THEN SecurityJobs ELSE Jobs
AnyShift(stage) == {k \in DOMAIN db.queue : db.queue[k].job \in
                                              PlannedJobs(stage)}
OpenShifts(stage) == {k \in AnyShift(stage) : db.queue[k].worker = NULL}

HoursIn(S) == MapThenSumSet(LAMBDA k : db.queue[k].slot.hours, S)

BeginPlan ==
  LET stage == Stages[boot.stage]
  IN  /\ boot.pc = "begin" /\ Planning(stage)
      /\ boot' = [boot EXCEPT !.pc = "plan",
                    !.planner.todo = OpenShifts(stage),
                    !.planner.total = HoursIn(OpenShifts(stage)),
                    !.planner.tenths = IF stage = "guards" THEN 10 ELSE 9]
      /\ UNCHANGED <<db, faults, hit, torn>>

\* assignedHours >= target.  EightTenths is the mutated form that stops at the
\* 80% of the comment above seedAssignments.
EightTenths(pl) == 10 * pl.spent >= 8 * pl.total
Reached(pl) == 10 * pl.spent >= pl.tenths * pl.total

\* The workers qualified for the shift's job with room left in its week.
\* FirstWeekOnly: one counter for both weeks.  RoomForOneMore: the hours of the
\* shift itself are not counted.
FirstWeekOnly(pl, k) ==
  {w \in Workers : /\ <<w, db.queue[k].job>> \in db.works
                   /\ pl.used[w][0] + db.queue[k].slot.hours
                        <= Cap(Details[w])}
RoomForOneMore(pl, k) ==
  {w \in Workers : /\ <<w, db.queue[k].job>> \in db.works
                   /\ pl.used[w][db.queue[k].week] < Cap(Details[w])}
Candidates(pl, k) ==
  {w \in Workers : /\ <<w, db.queue[k].job>> \in db.works
                   /\ pl.used[w][db.queue[k].week] + db.queue[k].slot.hours
                        <= Cap(Details[w])}

\* One turn of the planner's loop, over the shifts in shuffled order.
PlanShift ==
  LET pl == boot.planner
  IN  /\ boot.pc = "plan" /\ ~Reached(pl)
      /\ \E k \in pl.todo :
           LET row == db.queue[k]
           IN  IF Candidates(pl, k) = {}
               THEN boot' = [boot EXCEPT !.planner.todo = @ \ {k}]
               ELSE \E w \in Candidates(pl, k) :
                      boot' = [boot EXCEPT !.planner =
                        [pl EXCEPT !.todo = @ \ {k},
                           !.plan = [x \in DOMAIN @ \cup {k} |->
                                       IF x = k THEN w ELSE @[x]],
                           !.used[w][row.week] = @ + row.slot.hours,
                           !.spent = @ + row.slot.hours]]
      /\ UNCHANGED <<db, faults, hit, torn>>

\* The plan is complete; its shifts are then written in any order.
PlanDone ==
  LET pl == boot.planner
  IN  /\ boot.pc = "plan" /\ (Reached(pl) \/ pl.todo = {})
      /\ boot' = [boot EXCEPT !.pc = "write", !.planner.todo = DOMAIN pl.plan]
      /\ UNCHANGED <<db, faults, hit, torn>>

\* UPDATE workqueue ... WHERE id = $2 AND status = 'open'.
WriteShift ==
  LET pl == boot.planner
  IN  /\ boot.pc = "write"
      /\ \E k \in pl.todo :
           /\ db' = IF k \in OpenShifts("assign")
                    THEN [db EXCEPT !.queue[k].worker = pl.plan[k]] ELSE db
           /\ boot' = [boot EXCEPT !.planner.todo = @ \ {k}]
      /\ UNCHANGED <<faults, hit, torn>>

WriteDone == /\ boot.pc = "write" /\ boot.planner.todo = {}
             /\ boot' = NextStage
             /\ UNCHANGED <<db, faults, hit, torn>>

\* An UPDATE fails and the function returns.
WriteError == /\ boot.pc = "write" /\ boot.planner.todo # {} /\ Fault
              /\ boot' = NextStage /\ hit' = hit \cup {Stages[boot.stage]}
              /\ UNCHANGED <<db, torn>>

-----------------------------------------------------------------------------
(***************************************************************************)
(* The functions that draw rows at random for every subject that has none: *)
(* availability, requests, closures and weekly templates.  boot.count is   *)
(* `total`, the hours drawn so far, or the number of rows.                 *)
(***************************************************************************)
\* AllUsers is the mutated form without a condition on the role.
AllUsers(stage) == IF stage = "job_holidays" THEN db.jobs ELSE db.users
Subjects(stage) ==
  CASE stage = "job_holidays"      -> db.jobs
    [] stage = "schedule_requests" -> Workers \cap db.users
    [] OTHER                       -> Students \cap db.users

BeginDraw ==
  LET stage == Stages[boot.stage]
  IN  /\ boot.pc = "begin" /\ Drawing(stage)
      /\ boot' = [boot EXCEPT !.pc = "draw", !.subjects = Subjects(stage)]
      /\ UNCHANGED <<db, faults, hit, torn>>

\* The subjects in the order the SELECT returns them.  One that has rows is
\* skipped, and so is a job by the toss of a coin.
NextSubject ==
  LET stage == Stages[boot.stage]
  IN  /\ boot.pc = "draw" /\ boot.subject = NULL
      /\ boot.subjects # {}
      /\ LET s == CHOOSE x \in boot.subjects : TRUE
         IN  \E go \in IF <<stage, s>> \in db.drawn THEN {FALSE}
                       ELSE IF stage = "job_holidays" THEN BOOLEAN ELSE {TRUE} :
               boot' = [boot EXCEPT !.subjects = @ \ {s},
                                    !.subject = IF go THEN s ELSE NULL]
      /\ UNCHANGED <<db, faults, hit, torn>>

\* The lengths a turn of the loop may draw; none when the loop ends.
\* Unclamped is the mutated form that forgets the weekly maximum.
Clamp(lengths, max) ==
  {IF boot.count + n > max THEN max - boot.count ELSE n : n \in lengths}
Unclamped(stage) ==
  CASE stage = "preferred_times"  -> IF boot.count < 18 THEN 2..6 ELSE {}
    [] stage = "weekly_schedules" -> IF boot.count < 10 THEN 2..4 ELSE {}
    [] stage = "schedule_requests" -> IF boot.count < 2 THEN {1} ELSE {}
    [] OTHER                      -> IF boot.count < 1 THEN {1} ELSE {}
Turn(stage) ==
  CASE stage = "preferred_times"  -> IF boot.count < 18 THEN Clamp(2..6, 20)
                                     ELSE {}
    [] stage = "weekly_schedules" -> IF boot.count < 10 THEN Clamp(2..4, 16)
                                     ELSE {}
    [] stage = "schedule_requests" -> IF boot.count < 2 THEN {1} ELSE {}
    [] OTHER                      -> IF boot.count < 1 THEN {1} ELSE {}

\* Is there a shift for a miss, one the worker holds, and for an overflow, an
\* open one of the team of a job the worker has?
ForMiss(w)     == \E k \in DOMAIN db.queue : db.queue[k].worker = w
ForOverflow(w) == \E k \in DOMAIN db.queue :
                    /\ db.queue[k].worker = NULL
                    /\ \E j \in Jobs : /\ <<w, j>> \in db.works
                                      /\ TeamOf[j] = TeamOf[db.queue[k].job]

DrawRow ==
  LET stage == Stages[boot.stage]
  IN  /\ boot.pc = "draw" /\ boot.subject # NULL
      /\ stage = "schedule_requests" =>
           ForMiss(boot.subject) \/ ForOverflow(boot.subject)
      /\ \E n \in Turn(stage) : boot' = [boot EXCEPT !.count = @ + n]
      /\ db' = [db EXCEPT !.drawn = @ \cup {<<stage, boot.subject>>}]
      /\ UNCHANGED <<faults, hit, torn>>

\* The loop ends; a request of a type that has no shift is not made, and the
\* second one only by the toss of a coin.
EndSubject ==
  LET stage == Stages[boot.stage]
  IN  /\ boot.pc = "draw" /\ boot.subject # NULL
      /\ \/ Turn(stage) = {}
         \/ /\ stage = "schedule_requests"
            /\ boot.count > 0 \/ ~ForMiss(boot.subject)
                              \/ ~ForOverflow(boot.subject)
      /\ boot' = [boot EXCEPT !.subject = NULL, !.count = 0]
      /\ UNCHANGED <<db, faults, hit, torn>>

DrawDone == /\ boot.pc = "draw" /\ boot.subject = NULL /\ boot.subjects = {}
            /\ boot' = NextStage
            /\ UNCHANGED <<db, faults, hit, torn>>

Init ==
  /\ db = [objects |-> {}, recorded |-> FALSE, departments |-> {},
           users |-> {}, uids |-> [p \in People |-> 0], profiles |-> {},
           managing |-> {}, jobs |-> {}, hours |-> [j \in Jobs |-> {}],
           works |-> {}, members |-> {}, queue |-> <<>>, drawn |-> {}]
  /\ boot = At("down", 1) /\ faults = 0
  /\ hit = {} /\ torn = {}

\* The steps of the process itself, which it never stops taking.
Step ==
  \/ Begin \/ Execute \/ Return \/ BeginPlan \/ PlanShift \/ PlanDone
  \/ WriteShift \/ WriteDone \/ BeginDraw \/ NextSubject \/ DrawRow
  \/ EndSubject \/ DrawDone

Next == Step \/ Start \/ StatementFails \/ ReadError \/ WriteError \/ Kill

Spec == Init /\ [][Next]_vars /\ WF_vars(Start) /\ WF_vars(Step \/ StatementFails)

-----------------------------------------------------------------------------
Served == boot.pc = "serve"
Clean  == hit = {}

\* The hours a set of shifts gives a worker in a week.
HoursFor(w, week, holder(_), S) ==
  HoursIn({k \in S : holder(k) = w /\ db.queue[k].week = week})

\* planAssignments gives no worker more hours than the weekly cap in either
\* week, for any order of the shuffles.
PlanWithinCap ==
  LET pl == boot.planner
  IN  \A w \in Workers : \A week \in Weeks :
        HoursFor(w, week, LAMBDA k : pl.plan[k], DOMAIN pl.plan)
          <= Cap(Details[w])

\* The planner stops as soon as the target is reached, and stops short of it
\* only when no open shift is left that any qualified worker has room for.
PlanMeetsTarget ==
  LET pl == boot.planner
  IN  boot.pc = "write" /\ db.queue # <<>> =>
        /\ pl.plan # <<>> =>
             \E k \in DOMAIN pl.plan :
               10 * (pl.spent - db.queue[k].slot.hours) < pl.tenths * pl.total
        /\ \/ 10 * pl.spent >= pl.tenths * pl.total
           \/ \A k \in OpenShifts(Stages[boot.stage]) \ DOMAIN pl.plan :
                Candidates(pl, k) = {}

\* No boot, killed or not, queues a shift of a job twice for a day and start.
OneShiftPerSlot ==
  \A j, k \in DOMAIN db.queue :
    SlotOf(db.queue[j]) = SlotOf(db.queue[k]) => j = k

\* The boot that meets no fault converges whatever the boots before it left:
\* the admin can work, every job has hours (the staff account's own job gets its
\* shifts one boot later), a guard job has the three shifts a day and nothing
\* else, and each of the hours has its shift in both weeks.  The staff account
\* has a job as well, unless some fault struck seedStaff after its insert of
\* 'Staff Work' and before its end.
HasJob == \E j \in Jobs : <<StaffAccount, j>> \in db.works
BootConverges ==
  Served /\ Clean =>
    /\ Admin \in db.profiles
    /\ StaffAccount \in db.users => HasJob \/ StaffJob \in torn
    /\ \A j \in db.jobs \ {StaffJob} :
         /\ db.hours[j] # {}
         /\ j \in SecurityJobs => db.hours[j] = Rows(SecurityHours)
         /\ \A slot \in db.hours[j], week \in Weeks :
              \E k \in DOMAIN db.queue :
                SlotOf(db.queue[k]) = <<j, slot.key, week>>

\* The rows of the files are independent: a failing row takes no other row down
\* with it.  A row of seed.csv lacks its user only when a fault struck that row
\* or the whole file in this boot, or somebody of staff.csv has its uid; and a
\* row is left without its profile, job, membership or team only when a fault
\* struck that very row after its user was inserted.
UidGone(p) ==
  \E q \in db.users \cap Rows(StaffRows) : db.uids[q] = UidOf[p]
RowsAreIndependent ==
  Served =>
    /\ \A p \in Rows(CsvRows) :
         p \in db.users \/ p \in hit \/ "csv" \in hit \/ UidGone(p)
    /\ \A p \in db.users \ (torn \cup {Admin}) :
         /\ p \in db.profiles
         /\ p \in Managers => p \in db.managing
         /\ p \in Workers => p \in db.members /\ <<p, JobOf[p]>> \in db.works

\* A subject whose rows are all drawn has 18 to 20 hours of availability, or a
\* template of 10 to 13 hours, whatever lengths came up.
DrawnHoursInRange ==
  LET stage == Stages[boot.stage]
  IN  boot.pc = "draw" /\ boot.subject # NULL /\ Turn(stage) = {} =>
        /\ stage = "preferred_times"  => boot.count \in 18..20
        /\ stage = "weekly_schedules" => boot.count \in 10..13

\* Seeding never takes a shift from the worker who holds it, and only gives it
\* to a worker of the job.
HoldersStay ==
  [][\A k \in DOMAIN db.queue :
       db'.queue[k].worker # db.queue[k].worker =>
         /\ db.queue[k].worker = NULL
         /\ <<db'.queue[k].worker, db.queue[k].job>> \in db.works]_vars

\* The backend comes up: a boot that is killed, or fails half way through the
\* migration, never leaves a database that the next boot cannot start on.
ComesUp == boot.pc = "down" ~> Served

\* "Respects each worker's weekly cap (worker_type)": no worker holds more hours
\* of a week than the cap.
WeeklyCapRespected ==
  \A w \in Workers : \A week \in Weeks :
    HoursFor(w, week, LAMBDA k : db.queue[k].worker, DOMAIN db.queue)
      <= Cap(Details[w])

\* "Start UIDs above the highest existing one so they never collide with users
\* seeded from seed.csv": the uid of nobody of staff.csv is one of seed.csv.
UidsNeverCollide ==
  \A q \in db.users \cap Rows(StaffRows), p \in Rows(CsvRows) :
    db.uids[q] # UidOf[p]

\* "Ensures the seeded staff account has a job": after a boot without a fault it
\* has one.
StaffAccountHasJob ==
  Served /\ Clean /\ StaffAccount \in db.users => HasJob
=============================================================================
