---------------------------- MODULE SeederProofs ----------------------------
(***************************************************************************)
(* The seeder's state keeps its type, for every file and every fault. A    *)
(* type that says anything of the planner's hours or of the scripts needs  *)
(* what FlattenSeq and MapThenSumSet return (FoldLemmas). Then what the    *)
(* plans and the draws guarantee, for every file, every order of the       *)
(* shuffles and every fault; that the rows of the files are independent;   *)
(* and that a boot without a fault converges, whatever it finds.           *)
(***************************************************************************)
EXTENDS Seeder, FoldLemmas

\* What is kept of a sequence over S is a sequence over S.
LEMMA KeepType ==
  ASSUME NEW S, NEW seq \in Seq(S), NEW ss,
         DOMAIN ss = DOMAIN seq, ss = [k \in DOMAIN seq |-> ss[k]],
         \A k \in DOMAIN seq : ss[k] = <<seq[k]>> \/ ss[k] = <<>>
  PROVE  FlattenSeq(ss) \in Seq(S)
<1>1. \A k \in DOMAIN seq : <<seq[k]>> \in Seq(S) /\ <<>> \in Seq(S)
  BY LenProperties, ElementOfSeq
<1>2. \A k \in DOMAIN seq : ss[k] \in Seq(S)
  BY <1>1
<1> QED BY <1>2, FlattenType

-----------------------------------------------------------------------------
(***************************************************************************)
(* The hours of the rows of workqueue, as a sum.                           *)
(***************************************************************************)

\* HoursIn of the rows q of workqueue.
HoursOver(q, S) == MapThenSumSet(LAMBDA k : q[k].slot.hours, S)

\* It is such a function, whatever finite set the function is defined over.
LEMMA OverIs ==
  ASSUME NEW q, NEW U, IsFiniteSet(U), NEW f,
         Adds(f, [k \in U |-> q[k].slot.hours], SUBSET U),
         NEW S \in SUBSET U
  PROVE  HoursOver(q, S) = f[S]
<1> DEFINE h == [k \in S |-> q[k].slot.hours]
           Val(g, s) == IF s = {} THEN 0
                        ELSE LET x == CHOOSE x \in s : TRUE
                             IN  q[x].slot.hours + g[s \ {x}]
           g == CHOOSE g : g = [s \in SUBSET S |-> Val(g, s)]
<1>1. IsFiniteSet(S)
  BY FS_Subset
<1>2. ASSUME NEW e
      PROVE  e = [s \in SUBSET S |-> Val(e, s)] <=> Adds(e, h, SUBSET S)
  <2>1. \A s \in SUBSET S :
          Val(e, s) = IF s = {} THEN 0 ELSE h[Chosen(s)] + e[s \ {Chosen(s)}]
    <3> TAKE s \in SUBSET S
    <3>1. s # {} => Chosen(s) \in s /\ h[Chosen(s)] = q[Chosen(s)].slot.hours
      BY DEF Chosen
    <3> HIDE DEF h
    <3> QED BY <3>1 DEF Chosen
  <2> HIDE DEF Val, h
  <2> QED BY <2>1 DEF Adds
<1>3. \E e : e = [s \in SUBSET S |-> Val(e, s)]
  <2>1. PICK e : Adds(e, h, SUBSET S)
    BY <1>1, AddsExists
  <2> HIDE DEF Val, h
  <2> QED BY <1>2, <2>1
<1>4. g = [s \in SUBSET S |-> Val(g, s)]
  <2> HIDE DEF Val
  <2> QED BY <1>3, Zenon
<1>5. HoursOver(q, S) = g[S]
  BY Zenon DEF HoursOver, MapThenSumSet, MapThenFoldSet
<1>6. Adds(g, h, SUBSET S)
  <2> HIDE DEF g, Val, h
  <2> QED BY <1>2, <1>4
<1>7. Agree(g, f, SUBSET S)
  <2> DEFINE whole == [k \in U |-> q[k].slot.hours]
  <2>1. Agree(h, whole, S)
    BY DEF Agree
  <2>2. Adds(f, whole, SUBSET U)
    OBVIOUS
  <2> HIDE DEF g, h, whole
  <2> QED BY <1>6, <2>1, <2>2, AddsSame
<1> QED BY <1>5, <1>7 DEF Agree

\* What the planner's proofs need of it.
LEMMA HoursFacts ==
  ASSUME NEW q, NEW U, IsFiniteSet(U),
         \A k \in U : q[k].slot.hours \in Nat
  PROVE  /\ HoursOver(q, {}) = 0
         /\ \A S \in SUBSET U : HoursOver(q, S) \in Nat
         /\ \A S \in SUBSET U : \A k \in U \ S :
              HoursOver(q, S \cup {k}) = HoursOver(q, S) + q[k].slot.hours
<1> DEFINE h == [k \in U |-> q[k].slot.hours]
<1>1. PICK f : Adds(f, h, SUBSET U)
  BY AddsExists
<1>2. h \in [U -> Nat]
  OBVIOUS
<1>3. \A S \in SUBSET U : HoursOver(q, S) = f[S]
  BY <1>1, OverIs
<1>4. /\ f[{}] = 0
      /\ \A s \in SUBSET U : f[s] \in Nat
      /\ \A s \in SUBSET U : \A x \in U \ s : f[s \cup {x}] = h[x] + f[s]
  <2> HIDE DEF h
  <2>1. h \in [U -> Int]
    BY <1>2
  <2>2. Additive(f, h, U)
    BY <1>1, <2>1, AddsOne
  <2>3. \A S \in SUBSET U : f[S] \in Nat
    BY <1>2, <2>2, AddsNat
  <2> QED BY <2>2, <2>3 DEF Additive
<1>5. \A S \in SUBSET U : \A k \in U \ S :
        HoursOver(q, S \cup {k}) = HoursOver(q, S) + q[k].slot.hours
  <2> TAKE S \in SUBSET U
  <2> TAKE k \in U \ S
  <2>1. f[S \cup {k}] = h[k] + f[S] /\ h[k] = q[k].slot.hours
    BY <1>4
  <2>2. HoursOver(q, S \cup {k}) = f[S \cup {k}] /\ HoursOver(q, S) = f[S]
    BY <1>3
  <2>3. f[S] \in Nat /\ q[k].slot.hours \in Nat
    BY <1>4
  <2> QED BY <2>1, <2>2, <2>3
<1> QED BY <1>3, <1>4, <1>5

\* The sum depends on the hours of its rows only.
LEMMA HoursSame ==
  ASSUME NEW q, NEW r, NEW S, IsFiniteSet(S),
         \A k \in S : q[k].slot.hours = r[k].slot.hours
  PROVE  HoursOver(q, S) = HoursOver(r, S)
<1>1. [k \in S |-> q[k].slot.hours] = [k \in S |-> r[k].slot.hours]
  OBVIOUS
<1>2. PICK f : Adds(f, [k \in S |-> q[k].slot.hours], SUBSET S)
  BY AddsExists
<1>3. HoursOver(q, S) = f[S] /\ HoursOver(r, S) = f[S]
  BY <1>1, <1>2, OverIs
<1> QED BY <1>3

-----------------------------------------------------------------------------
(***************************************************************************)
(* The statements of the scripts.                                          *)
(***************************************************************************)

\* What each operation needs of its statement for Effect to keep the tables'
\* types.
Accounting  == {"admin", "user", "staff_user", "profile", "staff_profile"}
Of(ops, st) == st.op \in ops
Sound(st) ==
  /\ st.op \in Operations
  /\ Of({"object"}, st) => st.n \in 1..Objects
  /\ Of({"department"}, st) => st.row \in Rows(CsvRows)
  /\ Of(Accounting, st) => st.row \in People
  /\ Of({"manager"}, st) => st.row \in Managers
  /\ Of({"job", "new_job", "hours", "clear", "works", "shift"}, st) =>
       st.job \in Jobs
  /\ Of({"hours", "shift"}, st) => st.slot \in Slots
  /\ Of({"works", "member"}, st) => st.row \in Workers
  /\ Of({"shift"}, st) => st.n \in Weeks
Statements == {st \in Statement : Sound(st)}

\* What each function runs.
OpsOf(stage) ==
  CASE stage = "migrate"        -> {"object", "record"}
    [] stage = "admin"          -> {"admin", "profile"}
    [] stage = "csv"            -> {"department", "user", "profile", "manager",
                                    "job", "hours", "works", "member"}
    [] stage = "extra_jobs"     -> {"job", "hours"}
    [] stage = "extra_staff"    -> {"staff_user", "staff_profile", "works",
                                    "member"}
    [] stage = "security_hours" -> {"clear", "hours"}
    [] stage = "default_hours"  -> {"hours"}
    [] stage = "workqueue"      -> {"shift"}
    [] stage = "staff"          -> {"new_job", "hours", "works", "member"}

Allowed(stage, st) ==
  /\ st.op \in OpsOf(stage)
  /\ st.op = "admin" => st.row = Admin
  /\ stage \in {"csv", "extra_staff"} /\ st.op = "works" =>
       st.job = JobOf[st.row]
  /\ stage = "security_hours" /\ st.op = "hours" =>
       st.slot \in Rows(SecurityHours)
  /\ stage = "staff" => st.job = StaffJob /\ st.row = StaffAccount
  /\ st.op = "job" => st.job # StaffJob
  /\ st.op = "user" => st.row \in Rows(CsvRows) /\ st.n = UidOf[st.row]
  /\ st.op = "staff_user" => st.row \in Rows(StaffRows)

Listed(stage)    == {st \in Statements : Allowed(stage, st)}
LinesOf(stage, row) == {st \in Listed(stage) : st.row = row}

\* The files and the lists are sequences of what they are said to hold.
LEMMA Lists ==
  /\ CsvRows \in Seq(Rows(CsvRows)) /\ StaffRows \in Seq(Rows(StaffRows))
  /\ ExtraJobs \in Seq(Rows(ExtraJobs)) /\ Rows(ExtraJobs) \subseteq Jobs
  /\ DefaultHours \in Seq(Slots) /\ SecurityHours \in Seq(Slots)
  /\ JobList \in Seq(Jobs) /\ SlotList \in Seq(Slots) /\ StaffJob \in Jobs
  /\ Rows(DefaultHours) \subseteq Slots /\ Rows(SecurityHours) \subseteq Slots
<1>1. \A list \in {CsvRows, StaffRows, DefaultJobs, ExtraJobs, DefaultHours,
                   SecurityHours} : list \in Seq(Rows(list))
  BY SeedAssumption
<1>2. \A f : Rows(f) = Range(f)
  BY DEF Rows, Range
<1>3. SlotList \in Seq(Slots) /\ Rows(DefaultHours) \subseteq Slots
        /\ Rows(SecurityHours) \subseteq Slots
  <2> DEFINE S == Rows(DefaultHours) \cup Rows(SecurityHours)
  <2>1. DefaultHours \in Seq(S) /\ SecurityHours \in Seq(S)
    BY <1>1, SeqMonotonic
  <2>2. SlotList \in Seq(S) /\ Slots = S
    BY <1>2, <2>1, ConcatProperties, RangeConcatenation DEF Slots, SlotList
  <2> QED BY <2>2
<1>4. JobList \in Seq(Jobs) /\ Rows(ExtraJobs) \subseteq Jobs /\ StaffJob \in Jobs
  <2> DEFINE S == Rows(DefaultJobs) \cup Rows(ExtraJobs) \cup {StaffJob}
             two == DefaultJobs \o ExtraJobs
  <2>1. DefaultJobs \in Seq(S) /\ ExtraJobs \in Seq(S)
    BY <1>1, SeqMonotonic
  <2>2. <<StaffJob>> \in Seq(S) /\ Range(<<StaffJob>>) = {StaffJob}
    BY DEF Range
  <2>3. two \in Seq(S) /\ Range(two) = Rows(DefaultJobs) \cup Rows(ExtraJobs)
    BY <1>2, <2>1, ConcatProperties, RangeConcatenation
  <2>4. JobList \in Seq(S) /\ Range(JobList) = Range(two) \cup {StaffJob}
    <3>1. JobList = two \o <<StaffJob>>
      BY DEF JobList
    <3> HIDE DEF S, two
    <3>2. two \o <<StaffJob>> \in Seq(S)
      BY <2>2, <2>3, ConcatProperties
    <3>3. Range(two \o <<StaffJob>>) = Range(two) \cup Range(<<StaffJob>>)
      <4> <<StaffJob>> \in Seq(S)
        BY <2>2
      <4> two \in Seq(S)
        BY <2>3
      <4> QED BY RangeConcatenation, ZenonT(60)
    <3> QED BY <2>2, <3>1, <3>2, <3>3
  <2>5. Jobs = S
    BY <1>2, <2>3, <2>4 DEF Jobs
  <2> QED BY <2>4, <2>5
<1> QED BY <1>1, <1>3, <1>4, SeqMonotonic

\* People, jobs and the roles of the rows.
LEMMA Roles ==
  /\ Rows(CsvRows) \subseteq People /\ Rows(CsvRows) \ Managers \subseteq Workers
  /\ Rows(StaffRows) \subseteq Workers /\ Admin \in People
  /\ Workers \subseteq People /\ Managers \subseteq People
  /\ StaffAccount \in Workers /\ NULL \notin People \cup Jobs
  /\ JobOf \in [Workers -> Jobs] /\ SecurityJobs \subseteq Rows(ExtraJobs)
  /\ UidOf \in [Rows(CsvRows) -> Nat] /\ StaffJob \notin Rows(ExtraJobs)
  /\ \A p \in Workers : JobOf[p] # StaffJob
  BY SeedAssumption DEF People, Workers

\* What a statement must have.
LEMMA Stated ==
  ASSUME NEW st, NEW op, NEW row, NEW slot, NEW n, NEW j,
         st = [op |-> op, row |-> row, slot |-> slot, n |-> n, job |-> j],
         row \in People \cup Jobs, slot \in Slots \cup {NULL},
         n \in Nat, j \in Jobs \cup {NULL}, Sound(st)
  PROVE  st \in Statements
  BY DEF Statements, Statement, Sound

\* The statements the seed functions make.
LEMMA Kinds ==
  /\ \A row \in Rows(CsvRows) : Do("department", row) \in Statements
  /\ \A row \in People : \A n \in Nat :
       /\ DoUser("user", row, n) \in Statements
       /\ DoUser("staff_user", row, n) \in Statements
  /\ \A row \in People : /\ Do("profile", row) \in Statements
                        /\ Do("staff_profile", row) \in Statements
                        /\ Do("admin", row) \in Statements
                        /\ Do("record", row) \in Statements
  /\ \A row \in Managers : Do("manager", row) \in Statements
  /\ \A row \in Workers : Do("member", row) \in Statements
  /\ \A row \in Workers : \A j \in Jobs : DoJob("works", row, j) \in Statements
  /\ \A row \in People \cup Jobs : \A j \in Jobs :
       /\ DoJob("job", row, j) \in Statements
       /\ DoJob("new_job", row, j) \in Statements
       /\ DoJob("clear", row, j) \in Statements
       /\ row \in Workers => DoJob("member", row, j) \in Statements
       /\ \A slot \in Slots : DoSlot(row, j, slot) \in Statements
<1>1. ASSUME NEW op, NEW row \in People, Sound(Do(op, row))
      PROVE  Do(op, row) \in Statements
  BY <1>1, Stated DEF Do
<1>2. ASSUME NEW op, NEW row \in People \cup Jobs, NEW j \in Jobs,
             Sound(DoJob(op, row, j))
      PROVE  DoJob(op, row, j) \in Statements
  BY <1>2, Stated DEF Do, DoJob
<1>13. ASSUME NEW op \in {"user", "staff_user"}, NEW row \in People, NEW n \in Nat
       PROVE  DoUser(op, row, n) \in Statements
  <2>1. DoUser(op, row, n) = [op |-> op, row |-> row, slot |-> NULL, n |-> n,
                              job |-> NULL]
    BY DEF Do, DoUser
  <2>2. Sound(DoUser(op, row, n))
    BY <2>1 DEF Sound, Of, Accounting, Operations
  <2> QED BY <2>1, <2>2, Stated
<1>14. ASSUME NEW row \in Rows(CsvRows)
       PROVE  Do("department", row) \in Statements
  <2>1. Sound(Do("department", row)) /\ row \in People
    BY Roles DEF Sound, Of, Accounting, Operations, Do
  <2> QED BY <1>1, <2>1
<1>15. ASSUME NEW row \in Workers, NEW j \in Jobs
       PROVE  DoJob("member", row, j) \in Statements
  <2>1. Sound(DoJob("member", row, j)) /\ row \in People \cup Jobs
    BY Roles DEF Sound, Of, Accounting, Operations, Do, DoJob
  <2> QED BY <1>2, <2>1
<1>3. ASSUME NEW row \in People
      PROVE  /\ Sound(Do("profile", row)) /\ Sound(Do("staff_profile", row))
             /\ Sound(Do("admin", row)) /\ Sound(Do("record", row))
  BY DEF Sound, Of, Accounting, Operations, Do, DoJob, DoSlot
<1>4. ASSUME NEW row \in Managers PROVE Sound(Do("manager", row))
  BY DEF Sound, Of, Accounting, Operations, Do, DoJob, DoSlot
<1>5. ASSUME NEW row \in Workers PROVE Sound(Do("member", row))
  BY DEF Sound, Of, Accounting, Operations, Do, DoJob, DoSlot
<1>6. ASSUME NEW row \in Workers, NEW j \in Jobs
      PROVE  Sound(DoJob("works", row, j))
  BY DEF Sound, Of, Accounting, Operations, Do, DoJob, DoSlot
<1>7. ASSUME NEW row \in People \cup Jobs, NEW j \in Jobs
      PROVE  /\ Sound(DoJob("job", row, j)) /\ Sound(DoJob("new_job", row, j))
             /\ Sound(DoJob("clear", row, j))
  BY DEF Sound, Of, Accounting, Operations, Do, DoJob, DoSlot
<1>8. ASSUME NEW row \in People \cup Jobs, NEW j \in Jobs, NEW slot \in Slots
      PROVE  DoSlot(row, j, slot) \in Statements
  <2>1. Sound(DoSlot(row, j, slot))
    BY DEF Sound, Of, Accounting, Operations, Do, DoJob, DoSlot
  <2>2. DoSlot(row, j, slot) = [op |-> "hours", row |-> row, slot |-> slot,
                                n |-> 0, job |-> j]
    <3>1. DoJob("hours", row, j) = [op |-> "hours", row |-> row, slot |-> NULL,
                                    n |-> 0, job |-> j]
      BY DEF Do, DoJob
    <3> QED BY <3>1 DEF DoSlot
  <2> QED BY <2>1, <2>2, Stated
<1>9. \A row \in People : /\ Do("profile", row) \in Statements
                         /\ Do("staff_profile", row) \in Statements
                         /\ Do("admin", row) \in Statements
                         /\ Do("record", row) \in Statements
  BY <1>1, <1>3
<1>10. \A row \in Managers : Do("manager", row) \in Statements
  BY <1>1, <1>4, Roles
<1>11. \A row \in Workers : Do("member", row) \in Statements
  BY <1>1, <1>5, Roles
<1>12. \A row \in Workers : \A j \in Jobs : DoJob("works", row, j) \in Statements
  BY <1>2, <1>6, Roles
<1>16. \A row \in People : \A n \in Nat :
         /\ DoUser("user", row, n) \in Statements
         /\ DoUser("staff_user", row, n) \in Statements
  BY <1>13
<1>17. \A row \in People \cup Jobs : \A j \in Jobs :
         /\ DoJob("job", row, j) \in Statements
         /\ DoJob("new_job", row, j) \in Statements
         /\ DoJob("clear", row, j) \in Statements
  BY <1>2, <1>7
<1> QED BY <1>8, <1>9, <1>10, <1>11, <1>12, <1>14, <1>15, <1>16, <1>17, Zenon

\* The hours of a job.
LEMMA HoursOfType ==
  ASSUME NEW S, NEW R, NEW row, NEW j, NEW list \in Seq(R),
         \A slot \in Rows(list) : DoSlot(row, j, slot) \in S
  PROVE  HoursOf(row, j, list) \in Seq(S)
<1>1. \A k \in DOMAIN list : DoSlot(row, j, list[k]) \in S
  BY DEF Rows
<1>2. HoursOf(row, j, list) = [k \in DOMAIN list |-> DoSlot(row, j, list[k])]
  BY DEF HoursOf, Each
<1>3. DOMAIN list = 1..Len(list) /\ Len(list) \in Nat
  BY LenProperties
<1> QED BY <1>1, <1>2, <1>3

LEMMA OpsAre ==
  /\ OpsOf("migrate") = {"object", "record"}
  /\ OpsOf("admin") = {"admin", "profile"}
  /\ OpsOf("csv") = {"department", "user", "profile", "manager", "job", "hours",
                     "works", "member"}
  /\ OpsOf("extra_jobs") = {"job", "hours"}
  /\ OpsOf("extra_staff") = {"staff_user", "staff_profile", "works", "member"}
  /\ OpsOf("security_hours") = {"clear", "hours"}
  /\ OpsOf("default_hours") = {"hours"}
  /\ OpsOf("workqueue") = {"shift"}
  /\ OpsOf("staff") = {"new_job", "hours", "works", "member"}
  BY DEF OpsOf

\* A statement that needs no more than to be of the function.
LEMMA DoMine ==
  ASSUME NEW op, NEW row, NEW stage, Do(op, row) \in Statements,
         op \in OpsOf(stage), op \notin {"works", "hours", "job", "user",
                                        "staff_user"},
         stage # "staff", op = "admin" => row = Admin
  PROVE  Do(op, row) \in LinesOf(stage, row)
<1>1. PICK d : d = Do(op, row)
  OBVIOUS
<1>2. d.op = op /\ d.row = row /\ d.job = NULL
  BY <1>1 DEF Do
<1>3. Allowed(stage, d)
  BY <1>2, Zenon DEF Allowed
<1> QED BY <1>1, <1>2, <1>3, Zenon DEF LinesOf, Listed

LEMMA DoUserMine ==
  ASSUME NEW op, NEW row, NEW n, NEW stage, DoUser(op, row, n) \in Statements,
         op \in OpsOf(stage), stage # "staff",
         \/ op = "user" /\ row \in Rows(CsvRows) /\ n = UidOf[row]
         \/ op = "staff_user" /\ row \in Rows(StaffRows)
  PROVE  DoUser(op, row, n) \in LinesOf(stage, row)
<1>1. PICK d : d = DoUser(op, row, n)
  OBVIOUS
<1>2. d.op = op /\ d.row = row /\ d.job = NULL /\ d.n = n
  BY <1>1 DEF Do, DoUser
<1>3. Allowed(stage, d)
  BY <1>2, Zenon DEF Allowed
<1> QED BY <1>1, <1>2, <1>3, Zenon DEF LinesOf, Listed

LEMMA DoJobMine ==
  ASSUME NEW op, NEW row, NEW j, NEW stage, DoJob(op, row, j) \in Statements,
         op \in OpsOf(stage), op # "admin", op # "hours",
         op \notin {"user", "staff_user"}, op = "job" => j # StaffJob,
         op = "works" => j = JobOf[row] \/ stage = "staff",
         stage = "staff" => j = StaffJob /\ row = StaffAccount
  PROVE  DoJob(op, row, j) \in LinesOf(stage, row)
<1>1. PICK d : d = DoJob(op, row, j)
  OBVIOUS
<1>2. d.op = op /\ d.row = row /\ d.job = j
  BY <1>1 DEF Do, DoJob
<1>3. Allowed(stage, d)
  BY <1>2, Zenon DEF Allowed
<1> QED BY <1>1, <1>2, <1>3, Zenon DEF LinesOf, Listed

LEMMA DoSlotMine ==
  ASSUME NEW row, NEW j, NEW slot, NEW stage, DoSlot(row, j, slot) \in Statements,
         "hours" \in OpsOf(stage), 
         stage = "security_hours" => slot \in Rows(SecurityHours),
         stage = "staff" => j = StaffJob /\ row = StaffAccount
  PROVE  DoSlot(row, j, slot) \in LinesOf(stage, row)
<1>1. PICK d : d = DoSlot(row, j, slot)
  OBVIOUS
<1>2. d.op = "hours" /\ d.row = row /\ d.job = j /\ d.slot = slot
  BY <1>1 DEF Do, DoJob, DoSlot
<1>3. Allowed(stage, d)
  BY <1>2, Zenon DEF Allowed
<1> QED BY <1>1, <1>2, <1>3, Zenon DEF LinesOf, Listed

\* The statements each function makes are among those listed for it.
LEMMA Listings ==
  /\ \A p \in Rows(CsvRows) : /\ Do("department", p) \in LinesOf("csv", p)
                              /\ DoUser("user", p, UidOf[p]) \in LinesOf("csv", p)
  /\ \A p \in Rows(StaffRows) : \A n \in Nat :
       DoUser("staff_user", p, n) \in LinesOf("extra_staff", p)
  /\ \A p \in People : /\ Do("profile", p) \in LinesOf("csv", p)
                       /\ Do("staff_profile", p) \in LinesOf("extra_staff", p)
  /\ \A p \in Managers : Do("manager", p) \in LinesOf("csv", p)
  /\ \A p \in Workers : /\ DoJob("job", p, JobOf[p]) \in LinesOf("csv", p)
                        /\ \A stage \in {"csv", "extra_staff"} :
                             /\ DoJob("works", p, JobOf[p]) \in LinesOf(stage, p)
                             /\ Do("member", p) \in LinesOf(stage, p)
                        /\ \A slot \in Slots :
                             DoSlot(p, JobOf[p], slot) \in LinesOf("csv", p)
  /\ \A j \in Rows(ExtraJobs) : DoJob("job", j, j) \in LinesOf("extra_jobs", j)
  /\ \A j \in Jobs : /\ DoJob("clear", j, j) \in LinesOf("security_hours", j)
                     /\ \A slot \in Slots :
                          /\ DoSlot(j, j, slot) \in LinesOf("extra_jobs", j)
                          /\ DoSlot(j, j, slot) \in LinesOf("default_hours", j)
                     /\ \A slot \in Rows(SecurityHours) :
                          DoSlot(j, j, slot) \in LinesOf("security_hours", j)
  /\ LET p == StaffAccount
     IN  /\ DoJob("new_job", p, StaffJob) \in Listed("staff")
         /\ DoJob("works", p, StaffJob) \in Listed("staff")
         /\ DoJob("member", p, StaffJob) \in Listed("staff")
         /\ \A slot \in Slots : DoSlot(p, StaffJob, slot) \in Listed("staff")
  /\ Do("admin", Admin) \in Listed("admin")
  /\ Do("profile", Admin) \in Listed("admin")
  /\ Do("record", Admin) \in Listed("migrate")
<1>0. \A stage \in {"csv", "extra_staff", "extra_jobs", "security_hours",
                   "default_hours", "admin", "migrate"} : stage # "staff"
  OBVIOUS
<1>1. ASSUME NEW p \in People
      PROVE  /\ Do("profile", p) \in LinesOf("csv", p)
             /\ Do("staff_profile", p) \in LinesOf("extra_staff", p)
  <2>1. /\ Do("profile", p) \in Statements
        /\ Do("staff_profile", p) \in Statements
    BY Kinds
  <2>2. "profile" \in OpsOf("csv") /\ "staff_profile" \in OpsOf("extra_staff")
    BY OpsAre, Zenon
  <2> QED BY <1>0, <2>1, <2>2, DoMine, Zenon
<1>8. ASSUME NEW p \in Rows(CsvRows)
      PROVE  /\ Do("department", p) \in LinesOf("csv", p)
             /\ DoUser("user", p, UidOf[p]) \in LinesOf("csv", p)
  <2>1. p \in People /\ UidOf[p] \in Nat
    BY Roles
  <2>2. /\ Do("department", p) \in Statements
        /\ DoUser("user", p, UidOf[p]) \in Statements
    BY <2>1, Kinds
  <2>3. "department" \in OpsOf("csv") /\ "user" \in OpsOf("csv")
    BY OpsAre, Zenon
  <2>4. Do("department", p) \in LinesOf("csv", p)
    BY <1>0, <2>2, <2>3, DoMine, Zenon
  <2>5. DoUser("user", p, UidOf[p]) \in LinesOf("csv", p)
    BY <1>0, <2>2, <2>3, DoUserMine, Zenon
  <2> QED BY <2>4, <2>5
<1>9. ASSUME NEW p \in Rows(StaffRows), NEW n \in Nat
      PROVE  DoUser("staff_user", p, n) \in LinesOf("extra_staff", p)
  <2>1. p \in People
    BY Roles
  <2>2. DoUser("staff_user", p, n) \in Statements
    BY <2>1, Kinds
  <2>3. "staff_user" \in OpsOf("extra_staff")
    BY OpsAre, Zenon
  <2> QED BY <1>0, <2>2, <2>3, DoUserMine, Zenon
<1>2. ASSUME NEW p \in Managers PROVE Do("manager", p) \in LinesOf("csv", p)
  <2>1. Do("manager", p) \in Statements
    BY Kinds
  <2>2. "manager" \in OpsOf("csv")
    BY OpsAre, Zenon
  <2> QED BY <1>0, <2>1, <2>2, DoMine, Zenon
<1>3. ASSUME NEW p \in Workers
      PROVE  /\ DoJob("job", p, JobOf[p]) \in LinesOf("csv", p)
             /\ \A stage \in {"csv", "extra_staff"} :
                  /\ DoJob("works", p, JobOf[p]) \in LinesOf(stage, p)
                  /\ Do("member", p) \in LinesOf(stage, p)
             /\ \A slot \in Slots : DoSlot(p, JobOf[p], slot) \in LinesOf("csv", p)
  <2>1. /\ DoJob("job", p, JobOf[p]) \in Statements
        /\ DoJob("works", p, JobOf[p]) \in Statements
        /\ Do("member", p) \in Statements
        /\ \A slot \in Slots : DoSlot(p, JobOf[p], slot) \in Statements
    BY Kinds, Roles
  <2>2. /\ "job" \in OpsOf("csv") /\ "hours" \in OpsOf("csv")
        /\ "works" \in OpsOf("csv") /\ "works" \in OpsOf("extra_staff")
        /\ "member" \in OpsOf("csv") /\ "member" \in OpsOf("extra_staff")
    BY OpsAre, Zenon
  <2>3. DoJob("job", p, JobOf[p]) \in LinesOf("csv", p)
    BY <1>0, <2>1, <2>2, Roles, DoJobMine, Zenon
  <2>4. /\ DoJob("works", p, JobOf[p]) \in LinesOf("csv", p)
        /\ DoJob("works", p, JobOf[p]) \in LinesOf("extra_staff", p)
    BY <1>0, <2>1, <2>2, Roles, DoJobMine, Zenon
  <2>5. /\ Do("member", p) \in LinesOf("csv", p)
        /\ Do("member", p) \in LinesOf("extra_staff", p)
    BY <1>0, <2>1, <2>2, DoMine, Zenon
  <2>6. ASSUME NEW slot \in Slots
        PROVE  DoSlot(p, JobOf[p], slot) \in LinesOf("csv", p)
    BY <1>0, <2>1, <2>2, DoSlotMine, Zenon
  <2> QED BY <2>3, <2>4, <2>5, <2>6, Zenon
<1>4. ASSUME NEW j \in Jobs
      PROVE  /\ j \in Rows(ExtraJobs) =>
                  DoJob("job", j, j) \in LinesOf("extra_jobs", j)
             /\ DoJob("clear", j, j) \in LinesOf("security_hours", j)
             /\ \A slot \in Slots :
                  /\ DoSlot(j, j, slot) \in LinesOf("extra_jobs", j)
                  /\ DoSlot(j, j, slot) \in LinesOf("default_hours", j)
             /\ \A slot \in Rows(SecurityHours) :
                  DoSlot(j, j, slot) \in LinesOf("security_hours", j)
  <2>1. /\ DoJob("job", j, j) \in Statements /\ DoJob("clear", j, j) \in Statements
        /\ \A slot \in Slots : DoSlot(j, j, slot) \in Statements
    BY Kinds, j \in People \cup Jobs
  <2>2. /\ "job" \in OpsOf("extra_jobs") /\ "hours" \in OpsOf("extra_jobs")
        /\ "hours" \in OpsOf("default_hours")
        /\ "clear" \in OpsOf("security_hours")
        /\ "hours" \in OpsOf("security_hours")
    BY OpsAre, Zenon
  <2>3. j \in Rows(ExtraJobs) => DoJob("job", j, j) \in LinesOf("extra_jobs", j)
    BY <1>0, <2>1, <2>2, Roles, DoJobMine, Zenon
  <2>4. DoJob("clear", j, j) \in LinesOf("security_hours", j)
    BY <1>0, <2>1, <2>2, Roles, DoJobMine, Zenon
  <2>5. ASSUME NEW slot \in Slots
        PROVE  /\ DoSlot(j, j, slot) \in LinesOf("extra_jobs", j)
               /\ DoSlot(j, j, slot) \in LinesOf("default_hours", j)
    BY <1>0, <2>1, <2>2, DoSlotMine, Zenon
  <2>6. ASSUME NEW slot \in Rows(SecurityHours)
        PROVE  DoSlot(j, j, slot) \in LinesOf("security_hours", j)
    <3>1. slot \in Slots
      BY Lists
    <3> QED BY <1>0, <2>1, <2>2, <3>1, DoSlotMine, Zenon
  <2> QED BY <2>3, <2>4, <2>5, <2>6, Zenon
<1>5. \A row : LinesOf("staff", row) \subseteq Listed("staff")
               /\ LinesOf("admin", row) \subseteq Listed("admin")
               /\ LinesOf("migrate", row) \subseteq Listed("migrate")
  BY Zenon DEF LinesOf
<1>6. /\ DoJob("new_job", StaffAccount, StaffJob) \in Listed("staff")
      /\ DoJob("works", StaffAccount, StaffJob) \in Listed("staff")
      /\ DoJob("member", StaffAccount, StaffJob) \in Listed("staff")
      /\ \A slot \in Slots :
           DoSlot(StaffAccount, StaffJob, slot) \in Listed("staff")
  <2>1. StaffAccount \in Workers /\ StaffAccount \in People \cup Jobs
          /\ StaffJob \in Jobs
    BY Roles, Lists
  <2>2. /\ DoJob("new_job", StaffAccount, StaffJob) \in Statements
        /\ DoJob("works", StaffAccount, StaffJob) \in Statements
        /\ DoJob("member", StaffAccount, StaffJob) \in Statements
        /\ \A slot \in Slots : DoSlot(StaffAccount, StaffJob, slot) \in Statements
    BY <2>1, Kinds
  <2>3. /\ "new_job" \in OpsOf("staff") /\ "works" \in OpsOf("staff")
        /\ "member" \in OpsOf("staff") /\ "hours" \in OpsOf("staff")
    BY OpsAre, Zenon
  <2>4. /\ DoJob("new_job", StaffAccount, StaffJob) \in LinesOf("staff", StaffAccount)
        /\ DoJob("works", StaffAccount, StaffJob) \in LinesOf("staff", StaffAccount)
        /\ DoJob("member", StaffAccount, StaffJob) \in LinesOf("staff", StaffAccount)
    BY <2>2, <2>3, DoJobMine, Zenon
  <2>6. ASSUME NEW slot \in Slots
        PROVE  DoSlot(StaffAccount, StaffJob, slot) \in LinesOf("staff", StaffAccount)
    BY <2>2, <2>3, DoSlotMine, Zenon
  <2> QED BY <1>5, <2>4, <2>6, Zenon
<1>7. /\ Do("admin", Admin) \in Listed("admin")
      /\ Do("profile", Admin) \in Listed("admin")
      /\ Do("record", Admin) \in Listed("migrate")
  <2>1. /\ Do("admin", Admin) \in Statements /\ Do("profile", Admin) \in Statements
        /\ Do("record", Admin) \in Statements
    BY Kinds, Roles
  <2>2. /\ "admin" \in OpsOf("admin") /\ "profile" \in OpsOf("admin")
        /\ "record" \in OpsOf("migrate")
    BY OpsAre, Zenon
  <2> QED BY <1>0, <1>5, <2>1, <2>2, DoMine, Zenon
<1>10. \A j \in Rows(ExtraJobs) : j \in Jobs
  BY Lists, Zenon
<1> QED BY <1>1, <1>2, <1>3, <1>4, <1>6, <1>7, <1>8, <1>9, <1>10, Zenon

\* A few statements are a script.
LEMMA Two ==
  ASSUME NEW S, NEW a \in S, NEW b \in S
  PROVE  /\ <<a>> \in Seq(S) /\ <<a, b>> \in Seq(S)
         /\ \A c \in S : <<a, b, c>> \in Seq(S)
         /\ \A c, d \in S : <<a, b, c, d>> \in Seq(S)
  OBVIOUS

\* What one row of seed.csv runs.
LEMMA CsvRowType ==
  ASSUME NEW p \in Rows(CsvRows)
  PROVE  CsvRow(p) \in Seq(LinesOf("csv", p))
<1> DEFINE S == LinesOf("csv", p)
           front == <<Do("department", p), DoUser("user", p, UidOf[p]),
                      Do("profile", p)>>
<1>1. CASE p \in db.users
  BY <1>1 DEF CsvRow
<1>2. CASE p \notin db.users
  <2>1. front \in Seq(S)
    <3>1. /\ Do("department", p) \in S /\ DoUser("user", p, UidOf[p]) \in S
          /\ Do("profile", p) \in S
      BY Listings, Roles
    <3> HIDE DEF S
    <3> QED BY <3>1, Two
  <2>2. CASE p \in Managers
    <3>1. <<Do("manager", p)>> \in Seq(S)
      BY <2>2, Listings, Two
    <3>2. CsvRow(p) = front \o <<Do("manager", p)>>
      BY <1>2, <2>2, Zenon DEF CsvRow
    <3> HIDE DEF S, front
    <3>3. CsvRow(p) \in Seq(S)
      BY <2>1, <3>1, <3>2, ConcatProperties
    <3> QED BY <3>3 DEF S
  <2>3. CASE p \notin Managers
    <3>1. p \in Workers /\ JobOf[p] \in Jobs
      BY <2>3, Roles
    <3>2. <<DoJob("job", p, JobOf[p])>> \in Seq(S)
      BY <3>1, Listings, Two
    <3>3. <<DoJob("works", p, JobOf[p]), Do("member", p)>> \in Seq(S)
      BY <3>1, Listings, Two
    <3>4. HoursOf(p, JobOf[p], DefaultHours) \in Seq(S)
      <4>1. Rows(DefaultHours) \subseteq Slots /\ DefaultHours \in Seq(Slots)
        BY Lists
      <4>2. \A slot \in Rows(DefaultHours) : DoSlot(p, JobOf[p], slot) \in S
        BY <3>1, <4>1, Listings
      <4> HIDE DEF S, front
      <4> QED BY <4>1, <4>2, HoursOfType
    <3>5. CsvRow(p) = front \o
                      (<<DoJob("job", p, JobOf[p])>>
                       \o HoursOf(p, JobOf[p], DefaultHours)
                       \o <<DoJob("works", p, JobOf[p]), Do("member", p)>>)
      BY <1>2, <2>3, Zenon DEF CsvRow
    <3> HIDE DEF S, front
    <3>6. CsvRow(p) \in Seq(S)
      BY <2>1, <3>2, <3>3, <3>4, <3>5, ConcatProperties
    <3> QED BY <3>6 DEF S
  <2> QED BY <2>2, <2>3
<1> QED BY <1>1, <1>2

\* One row of jobs.csv, one of staff.csv, and the statements for one job.
LEMMA JobRowType ==
  ASSUME NEW j \in Rows(ExtraJobs)
  PROVE  JobRow(j) \in Seq(LinesOf("extra_jobs", j))
<1> DEFINE S == LinesOf("extra_jobs", j)
<1>0. j \in Jobs
  BY Lists
<1>1. <<DoJob("job", j, j)>> \in Seq(S) /\ <<>> \in Seq(S)
  <2>1. DoJob("job", j, j) \in S
    BY Listings, Zenon
  <2> HIDE DEF S
  <2> QED BY <2>1, Two
<1>2. HoursOf(j, j, DefaultHours) \in Seq(S)
  <2>1. Rows(DefaultHours) \subseteq Slots /\ DefaultHours \in Seq(Slots)
    BY Lists
  <2>2. \A slot \in Rows(DefaultHours) : DoSlot(j, j, slot) \in S
    BY <1>0, <2>1, Listings
  <2> HIDE DEF S
  <2> QED BY <2>1, <2>2, HoursOfType
<1> HIDE DEF S
<1> QED BY <1>1, <1>2, ConcatProperties DEF JobRow, S

\* The rows of a file are finitely many, and so are the people.
LEMMA FewPeople == IsFiniteSet(People)
<1>1. ASSUME NEW file, file \in Seq(Rows(file))
      PROVE  IsFiniteSet(Rows(file))
  <2>1. Len(file) \in Nat /\ file \in [1..Len(file) -> Rows(file)]
    BY <1>1, LenProperties
  <2>2. file \in Surjection(1..Len(file), Rows(file))
    BY <2>1 DEF Surjection, Rows
  <2>3. IsFiniteSet(1..Len(file))
    BY <2>1, FS_Interval
  <2> QED BY <2>2, <2>3, FS_Surjection
<1>2. IsFiniteSet(Rows(CsvRows)) /\ IsFiniteSet(Rows(StaffRows))
  BY <1>1, Lists
<1>3. IsFiniteSet(Rows(CsvRows) \cup Rows(StaffRows) \cup {Admin})
  BY <1>2, FS_Union, FS_AddElement
<1>4. People \subseteq Rows(CsvRows) \cup Rows(StaffRows) \cup {Admin}
  BY SeedAssumption DEF People, Workers
<1> QED BY <1>3, <1>4, FS_Subset

\* There is a highest uid.
LEMMA MaxUidIs ==
  ASSUME TypeOK
  PROVE  MaxUid \in Nat
<1> DEFINE uids == {0} \cup {db.uids[p] : p \in db.users}
<1>1. db.users \subseteq People /\ db.uids \in [People -> Nat]
  BY DEF TypeOK, Tables
<1>2. PICK b \in Nat : \A p \in People : db.uids[p] <= b
  <2>1. PICK f : Adds(f, db.uids, SUBSET People)
    BY FewPeople, AddsExists
  <2>2. db.uids \in [People -> Int]
    BY <1>1
  <2>3. Additive(f, db.uids, People)
    BY <2>1, <2>2, FewPeople, AddsOne
  <2>4. \A s \in SUBSET People : f[s] \in Nat
    BY <1>1, <2>3, FewPeople, AddsNat
  <2>5. ASSUME NEW p \in People PROVE db.uids[p] <= f[People]
    <3>1. PICK rest \in SUBSET People : p \notin rest /\ rest \cup {p} = People
      BY People \ {p} \in SUBSET People
    <3>2. f[rest \cup {p}] = db.uids[p] + f[rest]
      BY <2>3, <3>1 DEF Additive
    <3>3. f[People] = db.uids[p] + f[rest]
      BY <3>1, <3>2
    <3>4. db.uids[p] \in Nat /\ f[rest] \in Nat
      BY <1>1, <2>4, <3>1
    <3> QED BY <3>3, <3>4
  <2>6. f[People] \in Nat
    BY <2>4, People \in SUBSET People
  <2> QED BY <2>5, <2>6
<1>3. uids \subseteq Nat
  BY <1>1
<1> DEFINE Above == {n \in Nat : \A m \in uids : m <= n}
<1>4. PICK n \in Above : \A m \in Above : n <= m
  <2>1. b \in Above
    BY <1>1, <1>2
  <2> HIDE DEF uids
  <2> QED BY <2>1, Least
<1>5. n \in uids
  <2>1. n \in Nat /\ \A m \in uids : m <= n
    BY <1>4
  <2>2. 0 \in uids
    OBVIOUS
  <2> HIDE DEF uids
  <2>3. SUFFICES ASSUME n \notin uids PROVE FALSE
    OBVIOUS
  <2>4. n - 1 \in Nat
    BY <2>1, <2>2, <2>3
  <2>5. \A m \in uids : m <= n - 1
    BY <1>3, <2>1, <2>3
  <2> QED BY <1>4, <2>1, <2>4, <2>5
<1>6. MaxUid = CHOOSE m \in uids : \A k \in uids : k <= m
  BY DEF MaxUid
<1>7. \E m \in uids : \A k \in uids : k <= m
  BY <1>4, <1>5
<1> HIDE DEF uids
<1> QED BY <1>3, <1>6, <1>7, Zenon

\* The uid of a row of staff.csv.
LEMMA StaffUidIs ==
  ASSUME TypeOK, NEW p PROVE StaffUid(p) \in Nat
<1> DEFINE S == {k \in DOMAIN StaffRows :
                   /\ JobOf[StaffRows[k]] \in db.jobs
                   /\ \E j \in DOMAIN StaffRows : k <= j /\ StaffRows[j] = p}
<1>1. IsFiniteSet(DOMAIN StaffRows)
  <2>1. DOMAIN StaffRows = 1..Len(StaffRows) /\ Len(StaffRows) \in Nat
    BY Lists, LenProperties
  <2> QED BY <2>1, FS_Interval
<1>2. Cardinality(S) \in Nat
  <2>1. S \in SUBSET (DOMAIN StaffRows)
    OBVIOUS
  <2> HIDE DEF S
  <2> QED BY <1>1, <2>1, FS_Subset, FS_CardinalityType
<1>3. StaffUid(p) = MaxUid + Cardinality(S)
  BY DEF StaffUid
<1> HIDE DEF S
<1> QED BY <1>2, <1>3, MaxUidIs

\* What one row of staff.csv runs.
LEMMA StaffRowType ==
  ASSUME TypeOK, NEW p \in Rows(StaffRows)
  PROVE  StaffRow(p) \in Seq(LinesOf("extra_staff", p))
<1> DEFINE S == LinesOf("extra_staff", p)
<1>1. p \in Workers /\ p \in People
  BY Roles
<1>2. /\ DoUser("staff_user", p, StaffUid(p)) \in S /\ Do("staff_profile", p) \in S
      /\ DoJob("works", p, JobOf[p]) \in S /\ Do("member", p) \in S
  BY <1>1, StaffUidIs, Listings
<1> HIDE DEF S
<1>3. <<DoUser("staff_user", p, StaffUid(p)), Do("staff_profile", p),
        DoJob("works", p, JobOf[p]), Do("member", p)>> \in Seq(S)
  BY <1>2, Two
<1>4. <<>> \in Seq(S)
  OBVIOUS
<1> QED BY <1>3, <1>4, Zenon DEF StaffRow, S

\* What seedSecuritySchedules runs for a job.
LEMMA ReplaceType ==
  ASSUME NEW j \in Jobs
  PROVE  Replace(j) \in Seq(LinesOf("security_hours", j))
<1> DEFINE S == LinesOf("security_hours", j)
<1>1. <<DoJob("clear", j, j)>> \in Seq(S) /\ <<>> \in Seq(S)
  <2>1. DoJob("clear", j, j) \in S
    BY Listings, Zenon
  <2> HIDE DEF S
  <2> QED BY <2>1, Two
<1>2. HoursOf(j, j, SecurityHours) \in Seq(S)
  <2>1. \A slot \in Rows(SecurityHours) : DoSlot(j, j, slot) \in S
    BY Listings
  <2> HIDE DEF S
  <2> QED BY <2>1, Lists, HoursOfType
<1> HIDE DEF S
<1> QED BY <1>1, <1>2, ConcatProperties DEF Replace, S

\* What seedDefaultJobSchedules runs for a job.
LEMMA BackfillType ==
  ASSUME NEW j \in Jobs
  PROVE  Backfill(j) \in Seq(LinesOf("default_hours", j))
<1> DEFINE S == LinesOf("default_hours", j)
<1>1. HoursOf(j, j, DefaultHours) \in Seq(S)
  <2>1. Rows(DefaultHours) \subseteq Slots /\ DefaultHours \in Seq(Slots)
    BY Lists
  <2>2. \A slot \in Rows(DefaultHours) : DoSlot(j, j, slot) \in S
    BY <2>1, Listings
  <2> HIDE DEF S
  <2> QED BY <2>1, <2>2, HoursOfType
<1> HIDE DEF S
<1>2. <<>> \in Seq(S)
  OBVIOUS
<1> QED BY <1>1, <1>2, Zenon DEF Backfill, S

\* What seedStaff runs.
LEMMA StaffWorkType == StaffWork \in Seq(Listed("staff"))
<1> DEFINE S == Listed("staff")
<1>1. /\ <<DoJob("new_job", StaffAccount, StaffJob)>> \in Seq(S)
      /\ <<DoJob("works", StaffAccount, StaffJob),
           DoJob("member", StaffAccount, StaffJob)>> \in Seq(S)
  BY Listings, Two
<1>2. HoursOf(StaffAccount, StaffJob, DefaultHours) \in Seq(S)
  <2>1. Rows(DefaultHours) \subseteq Slots /\ DefaultHours \in Seq(Slots)
    BY Lists
  <2>2. \A slot \in Rows(DefaultHours) : DoSlot(StaffAccount, StaffJob, slot) \in S
    BY <2>1, Listings
  <2> HIDE DEF S
  <2> QED BY <2>1, <2>2, HoursOfType
<1> HIDE DEF S
<1> DEFINE ss == <<DoJob("new_job", StaffAccount, StaffJob)>>
                  \o HoursOf(StaffAccount, StaffJob, DefaultHours)
                  \o <<DoJob("works", StaffAccount, StaffJob),
                       DoJob("member", StaffAccount, StaffJob)>>
<1>4. ss \in Seq(S)
  BY <1>1, <1>2, ConcatProperties
<1>5. StaffWork = <<>> \/ StaffWork = ss
  BY Zenon DEF StaffWork
<1>6. <<>> \in Seq(S)
  OBVIOUS
<1> QED BY <1>4, <1>5, <1>6 DEF S

\* What seedWorkqueue runs for a job.
LEMMA ShiftsOfType ==
  ASSUME NEW j \in Jobs
  PROVE  ShiftsOf(j) \in Seq(Listed("workqueue"))
<1> DEFINE Queue(slot) == <<DoShift(j, slot, 0), DoShift(j, slot, 1)>>
           kept == [k \in DOMAIN SlotList |->
                      IF SlotList[k] \in db.hours[j] THEN <<SlotList[k]>>
                      ELSE <<>>]
           slots == FlattenSeq(kept)
           ss == [k \in DOMAIN slots |-> Queue(slots[k])]
<1>1. slots \in Seq(Slots)
  <2>1. \A k \in DOMAIN SlotList : kept[k] \in Seq(Slots)
    BY Lists, LenProperties, ElementOfSeq
  <2>2. DOMAIN kept = DOMAIN SlotList /\ kept = [k \in DOMAIN SlotList |-> kept[k]]
    OBVIOUS
  <2> HIDE DEF kept
  <2> QED BY <2>1, <2>2, Lists, FlattenType
<1>2. ASSUME NEW slot \in Slots PROVE Queue(slot) \in Seq(Listed("workqueue"))
  <2>1. ASSUME NEW k \in Weeks 
        PROVE  DoShift(j, slot, k) \in Listed("workqueue")
    <3>1. Sound(DoShift(j, slot, k)) /\ k \in Nat
      BY DEF DoShift, Sound, Of, Accounting, Operations, Weeks
    <3>2. DoShift(j, slot, k) \in Statements
      BY <3>1, Stated DEF DoShift
    <3>3. PICK d : d = DoShift(j, slot, k)
      OBVIOUS
    <3>4. d.op = "shift" /\ "shift" \in OpsOf("workqueue")
      BY <3>3, OpsAre, Zenon DEF DoShift
    <3>5. Allowed("workqueue", d)
      BY <3>4, Zenon DEF Allowed
    <3> QED BY <3>2, <3>3, <3>5, Zenon DEF Listed
  <2>2. 0 \in Weeks /\ 1 \in Weeks
    BY DEF Weeks
  <2> QED BY <2>1, <2>2, Two
<1>3. FlattenSeq(ss) \in Seq(Listed("workqueue"))
  <2>1. \A k \in DOMAIN slots : slots[k] \in Slots
    BY <1>1, LenProperties, ElementOfSeq
  <2> HIDE DEF slots, Queue
  <2>2. DOMAIN ss = DOMAIN slots /\ ss = [k \in DOMAIN slots |-> ss[k]]
          /\ \A k \in DOMAIN slots : ss[k] \in Seq(Listed("workqueue"))
    BY <1>2, <2>1
  <2> HIDE DEF ss
  <2> QED BY <1>1, <2>2, FlattenType
<1>4. ShiftsOf(j) = FlattenSeq(ss)
  BY DEF ShiftsOf, Concat, Each, Keep
<1> QED BY <1>3, <1>4

\* What the first statements of migrate and of each function make is a script.
LEMMA MigrationType == Migration \in Seq(Listed("migrate"))
<1> DEFINE Operation(k) == [Do("object", Admin) EXCEPT !.n = k]
           ss == [k \in 1..Objects |-> Operation(k)]
<1>1. ASSUME NEW k \in 1..Objects PROVE Operation(k) \in Listed("migrate")
  <2> DEFINE st == [op |-> "object", row |-> Admin, slot |-> NULL, n |-> k,
                    job |-> NULL]
  <2>1. Operation(k) = st
    BY DEF Do
  <2>2. Sound(st) /\ k \in Nat
    BY SeedAssumption DEF Sound, Of, Accounting, Operations
  <2> HIDE DEF st
  <2>3. st \in Statements
    BY <2>2, Stated, Roles DEF st
  <2>4. st \in Listed("migrate")
    <3>1. st.op = "object" /\ "object" \in OpsOf("migrate")
      BY OpsAre, Zenon DEF st
    <3> HIDE DEF st
    <3>2. Allowed("migrate", st)
      BY <3>1, Zenon DEF Allowed
    <3> QED BY <2>3, <3>2, Zenon DEF Listed
  <2> QED BY <2>1, <2>4
<1>2. ss \in Seq(Listed("migrate"))
  <2>1. Objects \in Nat
    BY SeedAssumption
  <2> HIDE DEF Operation
  <2> QED BY <1>1, <2>1
<1>3. <<Do("record", Admin)>> \in Seq(Listed("migrate"))
  BY Listings, Two
<1>4. ss \o <<Do("record", Admin)>> \in Seq(Listed("migrate"))
  <2> HIDE DEF ss
  <2> QED BY <1>2, <1>3, ConcatProperties
<1>5. Migration = <<>> \/ Migration = ss \o <<Do("record", Admin)>>
  BY Zenon DEF Migration
<1>6. <<>> \in Seq(Listed("migrate"))
  OBVIOUS
<1> QED BY <1>4, <1>5, <1>6

\* The functions in their order.
LEMMA StageNames ==
  /\ DOMAIN Stages = 1..15 /\ Len(Stages) = 15
  /\ Stages[1] = "migrate" /\ Stages[2] = "admin" /\ Stages[3] = "csv"
  /\ Stages[4] = "extra_jobs" /\ Stages[5] = "extra_staff"
  /\ Stages[6] = "security_hours" /\ Stages[7] = "default_hours"
  /\ Stages[8] = "workqueue" /\ Stages[9] = "preferred_times"
  /\ Stages[10] = "staff" /\ Stages[11] = "assign" /\ Stages[12] = "guards"
  /\ Stages[13] = "schedule_requests" /\ Stages[14] = "job_holidays"
  /\ Stages[15] = "weekly_schedules"
  BY DEF Stages

\* Those that are lists of statements.
Listing == {"migrate", "admin", "csv", "extra_jobs", "extra_staff",
            "security_hours", "default_hours", "workqueue", "staff"}

\* A seed function runs a list, plans, or draws.
LEMMA StageKinds ==
  ASSUME NEW i \in 1..15
  PROVE  Stages[i] \in Listing \/ Drawing(Stages[i]) \/ Planning(Stages[i])
<1>1. i = 1 \/ i = 2 \/ i = 3 \/ i = 4 \/ i = 5 \/ i = 6 \/ i = 7 \/ i = 8 \/ i = 9
        \/ i = 10 \/ i = 11 \/ i = 12 \/ i = 13 \/ i = 14 \/ i = 15
  OBVIOUS
<1>2. i \in {1, 2, 3, 4, 5, 6, 7, 8, 10} => Stages[i] \in Listing
  BY StageNames DEF Listing
<1>3. i \in {9, 13, 14, 15} => Drawing(Stages[i])
  BY StageNames DEF Drawing, Drawn
<1>4. i \in {11, 12} => Planning(Stages[i])
  BY StageNames DEF Planning
<1> QED BY <1>1, <1>2, <1>3, <1>4

\* Every function that is a list makes a script.
LEMMA ScriptType ==
  ASSUME TypeOK, NEW stage \in Listing
  PROVE  Script(stage) \in Seq(Listed(stage))
<1>1. Concat(CsvRow, CsvRows) \in Seq(Listed("csv"))
  <2> DEFINE S == Listed("csv")
             ss == [k \in DOMAIN CsvRows |-> CsvRow(CsvRows[k])]
  <2>1. CsvRows \in Seq(Rows(CsvRows))
    BY Lists, SeqMonotonic
  <2>2. \A k \in DOMAIN CsvRows : CsvRows[k] \in Rows(CsvRows)
    BY <2>1, LenProperties, ElementOfSeq
  <2>3. /\ DOMAIN ss = DOMAIN CsvRows /\ ss = [k \in DOMAIN CsvRows |-> ss[k]]
        /\ \A k \in DOMAIN CsvRows : ss[k] \in Seq(S)
    <3>1. \A k \in DOMAIN CsvRows : ss[k] \in Seq(LinesOf("csv", CsvRows[k]))
      BY <2>2, CsvRowType
    <3>2. \A row : LinesOf("csv", row) \subseteq S
      BY DEF LinesOf
    <3> HIDE DEF S
    <3>3. \A row : \A x \in Seq(LinesOf("csv", row)) : x \in Seq(S)
      BY <3>2, SeqMonotonic
    <3> QED BY <3>1, <3>3
  <2>4. Concat(CsvRow, CsvRows) = FlattenSeq(ss)
    BY DEF Concat, Each
  <2> HIDE DEF ss, S
  <2> QED BY <2>1, <2>3, <2>4, FlattenType DEF S
<1>2. Concat(JobRow, ExtraJobs) \in Seq(Listed("extra_jobs"))
  <2> DEFINE S == Listed("extra_jobs")
             ss == [k \in DOMAIN ExtraJobs |-> JobRow(ExtraJobs[k])]
  <2>1. ExtraJobs \in Seq(Rows(ExtraJobs))
    BY Lists, SeqMonotonic
  <2>2. \A k \in DOMAIN ExtraJobs : ExtraJobs[k] \in Rows(ExtraJobs)
    BY <2>1, LenProperties, ElementOfSeq
  <2>3. /\ DOMAIN ss = DOMAIN ExtraJobs /\ ss = [k \in DOMAIN ExtraJobs |-> ss[k]]
        /\ \A k \in DOMAIN ExtraJobs : ss[k] \in Seq(S)
    <3>1. \A k \in DOMAIN ExtraJobs : ss[k] \in Seq(LinesOf("extra_jobs", ExtraJobs[k]))
      BY <2>2, JobRowType
    <3>2. \A row : LinesOf("extra_jobs", row) \subseteq S
      BY DEF LinesOf
    <3> HIDE DEF S
    <3>3. \A row : \A x \in Seq(LinesOf("extra_jobs", row)) : x \in Seq(S)
      BY <3>2, SeqMonotonic
    <3> QED BY <3>1, <3>3
  <2>4. Concat(JobRow, ExtraJobs) = FlattenSeq(ss)
    BY DEF Concat, Each
  <2> HIDE DEF ss, S
  <2> QED BY <2>1, <2>3, <2>4, FlattenType DEF S
<1>3. Concat(StaffRow, StaffRows) \in Seq(Listed("extra_staff"))
  <2> DEFINE S == Listed("extra_staff")
             ss == [k \in DOMAIN StaffRows |-> StaffRow(StaffRows[k])]
  <2>1. StaffRows \in Seq(Rows(StaffRows))
    BY Lists, SeqMonotonic
  <2>2. \A k \in DOMAIN StaffRows : StaffRows[k] \in Rows(StaffRows)
    BY <2>1, LenProperties, ElementOfSeq
  <2>3. /\ DOMAIN ss = DOMAIN StaffRows /\ ss = [k \in DOMAIN StaffRows |-> ss[k]]
        /\ \A k \in DOMAIN StaffRows : ss[k] \in Seq(S)
    <3>1. \A k \in DOMAIN StaffRows : ss[k] \in Seq(LinesOf("extra_staff", StaffRows[k]))
      BY <2>2, StaffRowType
    <3>2. \A row : LinesOf("extra_staff", row) \subseteq S
      BY DEF LinesOf
    <3> HIDE DEF S
    <3>3. \A row : \A x \in Seq(LinesOf("extra_staff", row)) : x \in Seq(S)
      BY <3>2, SeqMonotonic
    <3> QED BY <3>1, <3>3
  <2>4. Concat(StaffRow, StaffRows) = FlattenSeq(ss)
    BY DEF Concat, Each
  <2> HIDE DEF ss, S
  <2> QED BY <2>1, <2>3, <2>4, FlattenType DEF S
<1>4. Concat(Replace, ExtraJobs) \in Seq(Listed("security_hours"))
  <2> DEFINE S == Listed("security_hours")
             ss == [k \in DOMAIN ExtraJobs |-> Replace(ExtraJobs[k])]
  <2>1. ExtraJobs \in Seq(Jobs)
    BY Lists, SeqMonotonic
  <2>2. \A k \in DOMAIN ExtraJobs : ExtraJobs[k] \in Jobs
    BY <2>1, LenProperties, ElementOfSeq
  <2>3. /\ DOMAIN ss = DOMAIN ExtraJobs /\ ss = [k \in DOMAIN ExtraJobs |-> ss[k]]
        /\ \A k \in DOMAIN ExtraJobs : ss[k] \in Seq(S)
    <3>1. \A k \in DOMAIN ExtraJobs : ss[k] \in Seq(LinesOf("security_hours", ExtraJobs[k]))
      BY <2>2, ReplaceType
    <3>2. \A row : LinesOf("security_hours", row) \subseteq S
      BY DEF LinesOf
    <3> HIDE DEF S
    <3>3. \A row : \A x \in Seq(LinesOf("security_hours", row)) : x \in Seq(S)
      BY <3>2, SeqMonotonic
    <3> QED BY <3>1, <3>3
  <2>4. Concat(Replace, ExtraJobs) = FlattenSeq(ss)
    BY DEF Concat, Each
  <2> HIDE DEF ss, S
  <2> QED BY <2>1, <2>3, <2>4, FlattenType DEF S
<1>5. Concat(Backfill, JobList) \in Seq(Listed("default_hours"))
  <2> DEFINE S == Listed("default_hours")
             ss == [k \in DOMAIN JobList |-> Backfill(JobList[k])]
  <2>1. JobList \in Seq(Jobs)
    BY Lists, SeqMonotonic
  <2>2. \A k \in DOMAIN JobList : JobList[k] \in Jobs
    BY <2>1, LenProperties, ElementOfSeq
  <2>3. /\ DOMAIN ss = DOMAIN JobList /\ ss = [k \in DOMAIN JobList |-> ss[k]]
        /\ \A k \in DOMAIN JobList : ss[k] \in Seq(S)
    <3>1. \A k \in DOMAIN JobList : ss[k] \in Seq(LinesOf("default_hours", JobList[k]))
      BY <2>2, BackfillType
    <3>2. \A row : LinesOf("default_hours", row) \subseteq S
      BY DEF LinesOf
    <3> HIDE DEF S
    <3>3. \A row : \A x \in Seq(LinesOf("default_hours", row)) : x \in Seq(S)
      BY <3>2, SeqMonotonic
    <3> QED BY <3>1, <3>3
  <2>4. Concat(Backfill, JobList) = FlattenSeq(ss)
    BY DEF Concat, Each
  <2> HIDE DEF ss, S
  <2> QED BY <2>1, <2>3, <2>4, FlattenType DEF S
<1>6. Concat(ShiftsOf, JobList) \in Seq(Listed("workqueue"))
  <2> DEFINE S == Listed("workqueue")
             ss == [k \in DOMAIN JobList |-> ShiftsOf(JobList[k])]
  <2>1. JobList \in Seq(Jobs)
    BY Lists, SeqMonotonic
  <2>2. \A k \in DOMAIN JobList : JobList[k] \in Jobs
    BY <2>1, LenProperties, ElementOfSeq
  <2>3. /\ DOMAIN ss = DOMAIN JobList /\ ss = [k \in DOMAIN JobList |-> ss[k]]
        /\ \A k \in DOMAIN JobList : ss[k] \in Seq(S)
    BY <2>2, ShiftsOfType
  <2>4. Concat(ShiftsOf, JobList) = FlattenSeq(ss)
    BY DEF Concat, Each
  <2> HIDE DEF ss, S
  <2> QED BY <2>1, <2>3, <2>4, FlattenType DEF S
<1>7. <<Do("admin", Admin), Do("profile", Admin)>> \in Seq(Listed("admin"))
  BY Listings, Two
<1> QED
  BY <1>1, <1>2, <1>3, <1>4, <1>5, <1>6, <1>7, MigrationType, StaffWorkType
     DEF Script, Listing

\* What an error leaves of a script is a script.
LEMMA AfterErrorType ==
  ASSUME NEW S, NEW st, NEW rest \in Seq(S)
  PROVE  AfterError(st, rest) \in Seq(S)
<1>1. Others(st, rest) \in Seq(S)
  <2> DEFINE ss == [k \in DOMAIN rest |->
                      IF rest[k].row # st.row THEN <<rest[k]>> ELSE <<>>]
  <2>1. /\ DOMAIN ss = DOMAIN rest /\ ss = [k \in DOMAIN rest |-> ss[k]]
        /\ \A k \in DOMAIN rest : ss[k] = <<rest[k]>> \/ ss[k] = <<>>
    OBVIOUS
  <2>2. Others(st, rest) = FlattenSeq(ss)
    BY DEF Others, Keep, Concat, Each
  <2> HIDE DEF ss
  <2> QED BY <2>1, <2>2, KeepType
<1> DEFINE Hour(t) == t.op = "hours" /\ t.row = st.row
           kept == Keep(LAMBDA t : ~Hour(t), rest)
<1>2. kept \in Seq(S)
  <2> DEFINE ss == [k \in DOMAIN rest |->
                      IF ~Hour(rest[k]) THEN <<rest[k]>> ELSE <<>>]
  <2>1. /\ DOMAIN ss = DOMAIN rest /\ ss = [k \in DOMAIN rest |-> ss[k]]
        /\ \A k \in DOMAIN rest : ss[k] = <<rest[k]>> \/ ss[k] = <<>>
    OBVIOUS
  <2>2. kept = FlattenSeq(ss)
    BY DEF Keep, Concat, Each
  <2> HIDE DEF ss, kept
  <2> QED BY <2>1, <2>2, KeepType
<1>3. AfterError(st, rest) \in {Others(st, rest), kept, rest, <<>>}
  <2> HIDE DEF kept
  <2>1. kept = Keep(LAMBDA t : ~(t.op = "hours" /\ t.row = st.row), rest)
    BY DEF kept
  <2> QED BY <2>1 DEF AfterError
<1>4. <<>> \in Seq(S)
  OBVIOUS
<1> QED BY <1>1, <1>2, <1>3, <1>4

\* Every statement keeps the types of the tables, and takes neither a row of
\* workqueue nor an assignment away.
Grows(a, b) ==
  /\ a.works \subseteq b.works
  /\ DOMAIN a.queue \subseteq DOMAIN b.queue
  /\ \A k \in DOMAIN a.queue : a.queue[k] = b.queue[k]

\* A sound statement keeps the tables' types, drops no row of workqueue, changes
\* none, and takes no job from a worker.
LEMMA EffectType ==
  ASSUME TypeOK, NEW st \in Statements
  PROVE  Effect(st) \in Tables /\ Grows(db, Effect(st))
<1>1. db \in Tables
  BY DEF TypeOK
<1>2. Sound(st)
  BY DEF Statements
<1>3. CASE st.op = "object"
  <2>1. PICK v : v = db.objects \cup {st.n}
    OBVIOUS
  <2>2. v \in SUBSET (1..Objects)
    BY <2>1, <1>1, <1>2, <1>3 DEF Tables, Sound, Of, Accounting
  <2>3. Effect(st) = [db EXCEPT !.objects = v]
    BY <2>1, <1>3 DEF Effect
  <2> QED BY <2>2, <2>3, <1>1 DEF Tables, Grows
<1>4. CASE st.op = "record"
  <2>1. PICK v : v = TRUE
    OBVIOUS
  <2>2. v \in BOOLEAN
    BY <2>1, <1>1, <1>2, <1>4 DEF Tables, Sound, Of, Accounting
  <2>3. Effect(st) = [db EXCEPT !.recorded = v]
    BY <2>1, <1>4 DEF Effect
  <2> QED BY <2>2, <2>3, <1>1 DEF Tables, Grows
<1>5. CASE st.op = "admin"
  <2>1. PICK v : v = db.users \cup {st.row}
    OBVIOUS
  <2>2. v \in SUBSET People
    BY <2>1, <1>1, <1>2, <1>5 DEF Tables, Sound, Of, Accounting
  <2>3. Effect(st) = [db EXCEPT !.users = v]
    BY <2>1, <1>5 DEF Effect
  <2> QED BY <2>2, <2>3, <1>1 DEF Tables, Grows
<1>15. CASE st.op \in {"user", "staff_user"}
  <2>1. PICK v, u : v = db.users \cup {st.row}
                    /\ u = [db.uids EXCEPT ![st.row] = st.n]
    OBVIOUS
  <2>2. v \in SUBSET People /\ u \in [People -> Nat]
    <3>1. st.row \in People /\ st.n \in Nat
      BY <1>2, <1>15 DEF Sound, Of, Accounting, Statements, Statement
    <3>2. db.users \in SUBSET People /\ db.uids \in [People -> Nat]
      BY <1>1 DEF Tables
    <3> QED BY <2>1, <3>1, <3>2
  <2>3. Effect(st) = [db EXCEPT !.users = v, !.uids = u]
    BY <2>1, <1>15 DEF Effect
  <2> QED BY <2>2, <2>3, <1>1 DEF Tables, Grows
<1>16. CASE st.op = "department"
  <2>1. PICK v : v = db.departments \cup {DepartmentOf[st.row]}
    OBVIOUS
  <2>2. v \in SUBSET Range(DepartmentOf)
    <3>1. st.row \in DOMAIN DepartmentOf
      BY <1>2, <1>16, SeedAssumption DEF Sound, Of
    <3>2. db.departments \in SUBSET Range(DepartmentOf)
      BY <1>1 DEF Tables
    <3> QED BY <2>1, <3>1, <3>2 DEF Range
  <2>3. Effect(st) = [db EXCEPT !.departments = v]
    BY <2>1, <1>16 DEF Effect
  <2> QED BY <2>2, <2>3, <1>1 DEF Tables, Grows
<1>6. CASE st.op \in {"profile", "staff_profile"}
  <2>1. PICK v : v = db.profiles \cup {st.row}
    OBVIOUS
  <2>2. v \in SUBSET People
    BY <2>1, <1>1, <1>2, <1>6 DEF Tables, Sound, Of, Accounting
  <2>3. Effect(st) = [db EXCEPT !.profiles = v]
    BY <2>1, <1>6 DEF Effect
  <2> QED BY <2>2, <2>3, <1>1 DEF Tables, Grows
<1>7. CASE st.op = "manager"
  <2>1. PICK v : v = db.managing \cup {st.row}
    OBVIOUS
  <2>2. v \in SUBSET Managers
    BY <2>1, <1>1, <1>2, <1>7 DEF Tables, Sound, Of, Accounting
  <2>3. Effect(st) = [db EXCEPT !.managing = v]
    BY <2>1, <1>7 DEF Effect
  <2> QED BY <2>2, <2>3, <1>1 DEF Tables, Grows
<1>8. CASE st.op \in {"job", "new_job"}
  <2>1. PICK v : v = db.jobs \cup {st.job}
    OBVIOUS
  <2>2. v \in SUBSET Jobs
    BY <2>1, <1>1, <1>2, <1>8 DEF Tables, Sound, Of, Accounting
  <2>3. Effect(st) = [db EXCEPT !.jobs = v]
    BY <2>1, <1>8 DEF Effect
  <2> QED BY <2>2, <2>3, <1>1 DEF Tables, Grows
<1>9. CASE st.op = "hours"
  <2>1. PICK v : v = [db.hours EXCEPT ![st.job] = @ \cup {st.slot}]
    OBVIOUS
  <2>2. v \in [Jobs -> SUBSET Slots]
    BY <2>1, <1>1, <1>2, <1>9 DEF Tables, Sound, Of, Accounting
  <2>3. Effect(st) = [db EXCEPT !.hours = v]
    BY <2>1, <1>9 DEF Effect
  <2> QED BY <2>2, <2>3, <1>1 DEF Tables, Grows
<1>10. CASE st.op = "clear"
  <2>1. PICK v : v = [db.hours EXCEPT ![st.job] = {}]
    OBVIOUS
  <2>2. v \in [Jobs -> SUBSET Slots]
    BY <2>1, <1>1, <1>2, <1>10 DEF Tables, Sound, Of, Accounting
  <2>3. Effect(st) = [db EXCEPT !.hours = v]
    BY <2>1, <1>10 DEF Effect
  <2> QED BY <2>2, <2>3, <1>1 DEF Tables, Grows
<1>11. CASE st.op = "works"
  <2>1. PICK v : v = db.works \cup {<<st.row, st.job>>}
    OBVIOUS
  <2>2. v \in SUBSET (Workers \X Jobs)
    BY <2>1, <1>1, <1>2, <1>11 DEF Tables, Sound, Of, Accounting
  <2>3. Effect(st) = [db EXCEPT !.works = v]
    BY <2>1, <1>11 DEF Effect
  <2>4. db.works \subseteq v
    BY <2>1
  <2> QED BY <2>2, <2>3, <2>4, <1>1 DEF Tables, Grows
<1>12. CASE st.op = "member"
  <2>1. PICK v : v = db.members \cup {st.row}
    OBVIOUS
  <2>2. v \in SUBSET Workers
    BY <2>1, <1>1, <1>2, <1>12 DEF Tables, Sound, Of, Accounting
  <2>3. Effect(st) = [db EXCEPT !.members = v]
    BY <2>1, <1>12 DEF Effect
  <2> QED BY <2>2, <2>3, <1>1 DEF Tables, Grows
<1>13. CASE st.op = "shift"
  <2> DEFINE row == [job |-> st.job, slot |-> st.slot, week |-> st.n,
                     worker |-> NULL]
             q == Append(db.queue, row)
  <2>1. Effect(st) = db \/ Effect(st) = [db EXCEPT !.queue = q]
    <3>1. Effect(st) = IF NotQueued(st) THEN [db EXCEPT !.queue = q] ELSE db
      BY <1>13 DEF Effect
    <3> QED BY <3>1
  <2>2. row \in Shift
    BY <1>2, <1>13 DEF Sound, Of, Shift
  <2>3. db.queue \in Seq(Shift)
    BY <1>1 DEF Tables
  <2>4. q \in Seq(Shift) /\ DOMAIN db.queue \subseteq DOMAIN q
          /\ \A k \in DOMAIN db.queue : q[k] = db.queue[k]
    <3> HIDE DEF row
    <3> QED BY <2>2, <2>3, AppendProperties, LenProperties
  <2>5. db \in Tables /\ Grows(db, db)
    BY <1>1 DEF Grows
  <2> HIDE DEF q
  <2>6. [db EXCEPT !.queue = q] \in Tables /\ Grows(db, [db EXCEPT !.queue = q])
    BY <1>1, <2>4 DEF Tables, Grows
  <2> QED BY <2>1, <2>5, <2>6
<1>14. st.op \in Operations
  BY <1>2 DEF Sound
<1> QED BY <1>3, <1>4, <1>5, <1>6, <1>7, <1>8, <1>9, <1>10, <1>11, <1>12, <1>13,
           <1>14, <1>15, <1>16 DEF Operations

\* What the process holds while it is where it is.
Held ==
  /\ boot.script \in Seq(Statements)
  /\ boot.pc = "run" => /\ Stages[boot.stage] \in Listing
                        /\ boot.script \in Seq(Listed(Stages[boot.stage]))
  /\ boot.pc # "run" => boot.script = <<>>
  /\ boot.pc \in {"plan", "write"} => Planning(Stages[boot.stage])
  /\ boot.pc \notin {"plan", "write"} => boot.planner = NoPlan
  /\ boot.pc = "write" => boot.planner.todo \subseteq DOMAIN boot.planner.plan
  /\ boot.pc = "draw" => Drawing(Stages[boot.stage])
  /\ boot.pc # "draw" => boot.subjects = {} /\ boot.subject = NULL
  /\ boot.subject = NULL => boot.count = 0

Control == TypeOK /\ Held

Marks  == People \cup Jobs \cup Rows(Stages)
Halves == People \cup Jobs \cup (Drawn \X (Workers \cup Jobs))

\* The empty planner.
LEMMA NoPlanType ==
  /\ NoPlan.todo = {} /\ NoPlan.plan = <<>> /\ DOMAIN NoPlan.plan = {}
  /\ NoPlan.plan \in [{} -> Workers]
  /\ NoPlan.used \in [Workers -> [Weeks -> Nat]]
  /\ NoPlan.spent = 0 /\ NoPlan.total = 0 /\ NoPlan.tenths = 10
  /\ NoPlan = [todo |-> {}, plan |-> NoPlan.plan, used |-> NoPlan.used,
               spent |-> 0, total |-> 0, tenths |-> 10]
  BY DEF NoPlan

\* A process is made of its fields.
LEMMA ProcessIs ==
  ASSUME NEW plan, NEW pc, NEW stage, NEW script, NEW planner,
         NEW subjects, NEW subject, NEW count,
         boot' = [pc |-> pc, stage |-> stage, script |-> script,
                  planner |-> planner, subjects |-> subjects,
                  subject |-> subject, count |-> count],
         pc \in {"down", "begin", "run", "plan", "write", "draw", "serve"},
         stage \in 1..15, script \in Seq(Statements), planner \in Planner(plan)',
         subjects \in SUBSET (Workers \cup Jobs),
         subject \in Workers \cup Jobs \cup {NULL}, count \in Nat
  PROVE  boot' \in Boot(plan)'
<1>1. script \in Seq(Statement)
  BY SeqMonotonic, Statements \subseteq Statement DEF Statements
<1> DEFINE P == Planner(plan)'
<1>2. planner \in P
  OBVIOUS
<1> HIDE DEF P
<1>3. boot' \in [pc : {"down", "begin", "run", "plan", "write", "draw", "serve"},
                stage : DOMAIN Stages, script : Seq(Statement),
                planner : P, subjects : SUBSET (Workers \cup Jobs),
                subject : Workers \cup Jobs \cup {NULL}, count : Nat]
  BY <1>1, <1>2, StageNames
<1> QED BY <1>3 DEF P, Boot

\* A process that is about to begin a function, that serves or is down.
LEMMA AtControl ==
  ASSUME NEW pc \in {"down", "begin", "serve"}, NEW stage \in 1..15,
         boot' = At(pc, stage), db' \in Tables, faults' \in 0..MaxFaults,
         hit' \subseteq Marks, torn' \subseteq Halves
  PROVE  Control'
<1>1. boot' = [pc |-> pc, stage |-> stage, script |-> <<>>,
               planner |-> NoPlan, subjects |-> {}, subject |-> NULL,
               count |-> 0]
  BY DEF At
<1>2. boot'.planner = NoPlan /\ boot'.pc = pc /\ boot'.stage = stage /\ boot'.script = <<>>
        /\ boot'.subjects = {} /\ boot'.subject = NULL /\ boot'.count = 0
  BY <1>1
<1>3. NoPlan \in Planner(NoPlan.plan)'
  BY NoPlanType DEF Planner
<1>4. boot' \in Boot(NoPlan.plan)'
  <2>1. /\ <<>> \in Seq(Statements) /\ {} \in SUBSET (Workers \cup Jobs)
        /\ NULL \in Workers \cup Jobs \cup {NULL} /\ 0 \in Nat
        /\ pc \in {"down", "begin", "run", "plan", "write", "draw", "serve"}
    OBVIOUS
  <2> QED BY <1>1, <1>3, <2>1, ProcessIs, Zenon
<1>5. NoPlan.plan \in Plans(DOMAIN NoPlan.plan)'
  BY NoPlanType DEF Plans
<1>6. TypeOK'
  BY <1>2, <1>4, <1>5 DEF TypeOK, Marks, Halves
<1>7. Held'
  BY <1>2, NoPlanType DEF Held
<1> QED BY <1>6, <1>7 DEF Control

\* The fields of the process.
LEMMA Fields ==
  ASSUME Control
  PROVE  /\ boot = [pc |-> boot.pc, stage |-> boot.stage, script |-> boot.script,
                    planner |-> boot.planner, subjects |-> boot.subjects,
                    subject |-> boot.subject, count |-> boot.count]
         /\ boot.pc \in {"down", "begin", "run", "plan", "write", "draw", "serve"}
         /\ boot.stage \in 1..15 /\ boot.script \in Seq(Statements)
         /\ boot.planner \in Planner(boot.planner.plan)
         /\ boot.subjects \in SUBSET (Workers \cup Jobs)
         /\ boot.subject \in Workers \cup Jobs \cup {NULL} /\ boot.count \in Nat
         /\ db \in Tables /\ faults \in 0..MaxFaults
         /\ hit \subseteq Marks /\ torn \subseteq Halves
         /\ boot.planner.plan \in Plans(DOMAIN boot.planner.plan)
<1>1. boot \in Boot(boot.planner.plan)
  BY DEF Control, TypeOK
<1>2. boot.script \in Seq(Statements)
  BY DEF Control, Held
<1> DEFINE P == Planner(boot.planner.plan)
<1>3. boot \in [pc : {"down", "begin", "run", "plan", "write", "draw", "serve"},
                stage : DOMAIN Stages, script : Seq(Statement),
                planner : P, subjects : SUBSET (Workers \cup Jobs),
                subject : Workers \cup Jobs \cup {NULL}, count : Nat]
  BY <1>1 DEF Boot
<1>4. boot.planner \in P /\ boot.stage \in 1..15
  <2> HIDE DEF P
  <2> QED BY <1>3, StageNames
<1>5. /\ boot = [pc |-> boot.pc, stage |-> boot.stage, script |-> boot.script,
                 planner |-> boot.planner, subjects |-> boot.subjects,
                 subject |-> boot.subject, count |-> boot.count]
      /\ boot.pc \in {"down", "begin", "run", "plan", "write", "draw", "serve"}
      /\ boot.subjects \in SUBSET (Workers \cup Jobs)
      /\ boot.subject \in Workers \cup Jobs \cup {NULL} /\ boot.count \in Nat
  <2> HIDE DEF P
  <2> QED BY <1>3
<1>6. /\ db \in Tables /\ faults \in 0..MaxFaults
      /\ hit \subseteq Marks /\ torn \subseteq Halves
      /\ boot.planner.plan \in Plans(DOMAIN boot.planner.plan)
  BY DEF Control, TypeOK, Marks, Halves
<1> QED BY <1>2, <1>4, <1>5, <1>6

\* What a process may hold where it is.
MayHold(pc, stage, script, planner, subjects, subject, count) ==
  /\ pc \in {"down", "begin", "run", "plan", "write", "draw", "serve"}
  /\ stage \in 1..15 /\ script \in Seq(Statements)
  /\ subjects \in SUBSET (Workers \cup Jobs)
  /\ subject \in Workers \cup Jobs \cup {NULL} /\ count \in Nat
  /\ pc = "run" => /\ Stages[stage] \in Listing
                   /\ script \in Seq(Listed(Stages[stage]))
  /\ pc # "run" => script = <<>>
  /\ pc \in {"plan", "write"} => Planning(Stages[stage])
  /\ pc \notin {"plan", "write"} => planner = NoPlan
  /\ pc = "write" => planner.todo \subseteq DOMAIN planner.plan
  /\ pc = "draw" => Drawing(Stages[stage])
  /\ pc # "draw" => subjects = {} /\ subject = NULL
  /\ subject = NULL => count = 0

\* The planner fits the rows of workqueue, and the rest of the state its types.
Fits(planner) == planner \in Planner(planner.plan)
                   /\ planner.plan \in Plans(DOMAIN planner.plan)
Around == /\ db \in Tables /\ faults \in 0..MaxFaults
          /\ hit \subseteq Marks /\ torn \subseteq Halves

\* A process that holds what it may.
LEMMA ProcessControl ==
  ASSUME NEW pc, NEW stage, NEW script, NEW planner, NEW subjects, NEW subject,
         NEW count,
         boot' = [pc |-> pc, stage |-> stage, script |-> script,
                  planner |-> planner, subjects |-> subjects,
                  subject |-> subject, count |-> count],
         MayHold(pc, stage, script, planner, subjects, subject, count),
         Fits(planner)', Around'
  PROVE  Control'
<1> DEFINE plan == planner.plan
<1>1. boot'.planner = planner /\ boot'.pc = pc /\ boot'.stage = stage
        /\ boot'.script = script /\ boot'.subjects = subjects
        /\ boot'.subject = subject /\ boot'.count = count
  OBVIOUS
<1>2. boot' \in Boot(plan)'
  <2>1. planner \in Planner(plan)'
    BY DEF plan, Fits
  <2> HIDE DEF plan
  <2> QED BY <2>1, ProcessIs, Zenon DEF MayHold
<1>3. TypeOK'
  BY <1>1, <1>2 DEF TypeOK, Marks, Halves, Fits, Around
<1>4. Held'
  BY <1>1 DEF Held, MayHold
<1> QED BY <1>3, <1>4 DEF Control

\* The planner keeps its type while no row of workqueue goes.
LEMMA PlannerRoom ==
  ASSUME Control, DOMAIN db.queue \subseteq DOMAIN db'.queue
  PROVE  \E p : p = boot.planner /\ Fits(p)'
<1>1. PICK p : p = boot.planner
  OBVIOUS
<1>2. p \in Planner(p.plan) /\ p.plan \in Plans(DOMAIN p.plan)
  BY <1>1, Fields
<1>3. p \in Planner(p.plan)'
  BY <1>2 DEF Planner
<1>4. p.plan \in Plans(DOMAIN p.plan)'
  BY <1>2 DEF Plans
<1> QED BY <1>1, <1>3, <1>4 DEF Fits

\* Begin keeps the invariant.
LEMMA BeginControl ==
  ASSUME Control, Begin PROVE Control'
<1> DEFINE script == Script(Stages[boot.stage])
<1>1. /\ script \in Seq(Listed(Stages[boot.stage]))
      /\ script \in Seq(Statements) /\ Stages[boot.stage] \in Listing
  <2>1. Stages[boot.stage] \in Listing
    BY Fields, StageKinds DEF Begin
  <2>2. script \in Seq(Listed(Stages[boot.stage]))
    BY <2>1, ScriptType DEF Control
  <2>3. Listed(Stages[boot.stage]) \subseteq Statements
    BY DEF Listed
  <2> HIDE DEF script
  <2> QED BY <2>1, <2>2, <2>3, SeqMonotonic
<1>2. boot.pc = "begin" /\ boot' = [boot EXCEPT !.pc = "run", !.script = script]
        /\ UNCHANGED <<db, faults, hit, torn>>
  BY DEF Begin
<1> HIDE DEF script
<1>3. PICK p : p = boot.planner /\ Fits(p)'
  BY <1>2, PlannerRoom
<1>4. boot' = [pc |-> "run", stage |-> boot.stage, script |-> script,
               planner |-> p, subjects |-> {}, subject |-> NULL, count |-> 0]
        /\ p = NoPlan
  BY <1>2, <1>3, Fields DEF Control, Held
<1>5. Around'
  BY <1>2, Fields DEF Around
<1>6. MayHold("run", boot.stage, script, p, {}, NULL, 0)
  BY <1>1, <1>4, Fields DEF MayHold
<1> QED BY <1>3, <1>4, <1>5, <1>6, ProcessControl

\* The next function, or the end of the list of them.
LEMMA NextControl ==
  ASSUME Control, boot' = NextStage, Around' PROVE Control'
<1>1. CASE boot.stage = Len(Stages)
  BY <1>1, Fields, AtControl DEF NextStage, Around
<1>2. CASE boot.stage # Len(Stages)
  <2>1. boot.stage + 1 \in 1..15
    <3>1. boot.stage \in 1..15 /\ boot.stage # 15
      BY <1>2, Fields, StageNames
    <3> QED BY <3>1
  <2> QED BY <1>2, <2>1, AtControl DEF NextStage, Around
<1> QED BY <1>1, <1>2

\* A fault.
LEMMA FaultRoom ==
  ASSUME Control, Fault PROVE faults' \in 0..MaxFaults
  BY Fields, SeedAssumption DEF Fault

\* The statement that is next.
LEMMA Heads ==
  ASSUME Control, boot.script # <<>>
  PROVE  /\ Head(boot.script) \in Statements /\ Tail(boot.script) \in Seq(Statements)
         /\ Head(boot.script).row \in People \cup Jobs
         /\ boot.pc = "run" /\ boot.planner = NoPlan /\ boot.subjects = {}
         /\ boot.subject = NULL /\ boot.count = 0
         /\ Stages[boot.stage] \in Listing
         /\ Head(boot.script) \in Listed(Stages[boot.stage])
         /\ Tail(boot.script) \in Seq(Listed(Stages[boot.stage]))
<1>0. /\ Head(boot.script) \in Listed(Stages[boot.stage])
      /\ Tail(boot.script) \in Seq(Listed(Stages[boot.stage]))
  <2>1. boot.script \in Seq(Listed(Stages[boot.stage]))
    BY DEF Control, Held
  <2> QED BY <2>1, HeadTailProperties
<1>1. Head(boot.script) \in Statements /\ Tail(boot.script) \in Seq(Statements)
  BY Fields, HeadTailProperties
<1>2. Head(boot.script).row \in People \cup Jobs
  BY <1>1 DEF Statements, Statement
<1> QED BY <1>0, <1>1, <1>2 DEF Control, Held

\* The process goes on with another script.
LEMMA ScriptControl ==
  ASSUME Control, boot.script # <<>>,
         NEW rest \in Seq(Listed(Stages[boot.stage])),
         boot' = [boot EXCEPT !.script = rest],
         DOMAIN db.queue \subseteq DOMAIN db'.queue, Around'
  PROVE  Control'
<1>1. PICK p : p = boot.planner /\ Fits(p)'
  BY PlannerRoom
<1>2. boot' = [pc |-> "run", stage |-> boot.stage, script |-> rest,
               planner |-> p, subjects |-> {}, subject |-> NULL, count |-> 0]
        /\ p = NoPlan
  BY <1>1, Heads, Fields
<1>3. rest \in Seq(Statements)
  BY SeqMonotonic, Listed(Stages[boot.stage]) \subseteq Statements DEF Listed
<1>4. MayHold("run", boot.stage, rest, p, {}, NULL, 0)
  BY <1>2, <1>3, Heads, Fields DEF MayHold
<1> QED BY <1>1, <1>2, <1>4, ProcessControl

\* Execute keeps the invariant.
LEMMA ExecuteControl ==
  ASSUME Control, Execute PROVE Control'
<1>1. boot.script # <<>> /\ db' = Effect(Head(boot.script))
        /\ boot' = [boot EXCEPT !.script = Tail(boot.script)]
        /\ UNCHANGED <<faults, hit, torn>>
  BY DEF Execute
<1>2. db' \in Tables /\ Grows(db, db')
  BY <1>1, Heads, EffectType DEF Control
<1>3. Around' /\ DOMAIN db.queue \subseteq DOMAIN db'.queue
  BY <1>1, <1>2, Fields DEF Around, Grows
<1> QED BY <1>1, <1>3, Heads, ScriptControl

\* What a fault may leave half done.
LEMMA HalfType ==
  ASSUME Control, boot.script # <<>> PROVE Half(Head(boot.script)) \subseteq Halves
<1>1. db.jobs \subseteq Jobs /\ db.users \subseteq People
  BY Fields DEF Tables
<1> QED BY <1>1 DEF Half, Halves

\* A failing statement keeps the invariant.
LEMMA StatementFailsControl ==
  ASSUME Control, StatementFails PROVE Control'
<1> DEFINE st == Head(boot.script)
<1>1. /\ boot.script # <<>>
      /\ IF Refused(st) THEN UNCHANGED <<faults, hit, torn>>
         ELSE Fault /\ hit' = hit \cup {st.row} /\ torn' = torn \cup Half(st)
      /\ IF Stages[boot.stage] = "migrate" THEN boot' = At("down", 1)
         ELSE boot' = [boot EXCEPT !.script = AfterError(st, Tail(boot.script))]
      /\ UNCHANGED db
  BY DEF StatementFails
<1>2. faults' \in 0..MaxFaults
  BY <1>1, Fields, FaultRoom
<1>3. st.row \in People \cup Jobs /\ Half(st) \subseteq Halves
  BY <1>1, Heads, HalfType
<1> HIDE DEF st
<1>4. Around'
  BY <1>1, <1>2, <1>3, Fields DEF Around, Marks, Halves
<1>5. CASE Stages[boot.stage] = "migrate"
  BY <1>1, <1>4, <1>5, AtControl DEF Around
<1>6. CASE Stages[boot.stage] # "migrate"
  <2>1. PICK rest : rest = AfterError(st, Tail(boot.script))
    OBVIOUS
  <2>2. rest \in Seq(Listed(Stages[boot.stage])) /\ boot' = [boot EXCEPT !.script = rest]
    BY <1>1, <1>6, <2>1, Heads, AfterErrorType
  <2> QED BY <1>1, <1>4, <2>2, ScriptControl
<1> QED BY <1>5, <1>6

\* So do the steps that go to the next function, start, or give up writing.
LEMMA AtStepsControl ==
  ASSUME Control, Return \/ WriteDone \/ DrawDone \/ Start \/ WriteError
  PROVE  Control'
<1>1. CASE Return \/ WriteDone \/ DrawDone
  <2>1. boot' = NextStage /\ Around'
    BY <1>1, Fields DEF Return, WriteDone, DrawDone, Around
  <2> QED BY <2>1, NextControl
<1>2. CASE Start
  <2>1. boot' = At("begin", 1) /\ Around'
    BY <1>2, Fields DEF Start, Around
  <2> QED BY <2>1, AtControl DEF Around
<1>3. CASE WriteError
  <2>1. Stages[boot.stage] \in Rows(Stages)
    BY Fields, StageNames DEF Rows
  <2>2. boot' = NextStage /\ hit' = hit \cup {Stages[boot.stage]}
          /\ UNCHANGED <<db, torn>> /\ faults' \in 0..MaxFaults
    BY <1>3, FaultRoom DEF WriteError
  <2>3. Around'
    BY <2>1, <2>2, Fields DEF Around, Marks
  <2> QED BY <2>2, <2>3, NextControl
<1> QED BY <1>1, <1>2, <1>3

\* A subject's rows are half done.
LEMMA HalfDone ==
  ASSUME Control, boot.subject # NULL
  PROVE  <<Stages[boot.stage], boot.subject>> \in Drawn \X (Workers \cup Jobs)
<1>1. boot.pc = "draw" /\ Drawing(Stages[boot.stage])
  BY DEF Control, Held
<1> QED BY <1>1, Fields DEF Drawing

\* A failing SELECT keeps the invariant.
LEMMA ReadErrorControl ==
  ASSUME Control, ReadError PROVE Control'
<1>1. /\ boot.pc \in {"begin", "draw"} /\ Fault /\ UNCHANGED db
      /\ boot' = CASE Stages[boot.stage] = "migrate"    -> At("down", 1)
                   [] Stages[boot.stage] = "extra_jobs" ->
                        At("begin", boot.stage + 2)
                   [] OTHER                             -> NextStage
      /\ hit' = hit \cup {Stages[boot.stage]}
      /\ torn' = torn \cup (IF boot.subject = NULL THEN {}
                            ELSE {<<Stages[boot.stage], boot.subject>>})
  BY DEF ReadError
<1>2. Stages[boot.stage] \in Rows(Stages)
  BY Fields, StageNames DEF Rows
<1>3. hit' \subseteq Marks /\ torn' \subseteq Halves
  BY <1>1, <1>2, HalfDone, Fields DEF Marks, Halves
<1>4. Around'
  BY <1>1, <1>3, FaultRoom, Fields DEF Around
<1>5. CASE Stages[boot.stage] = "migrate"
  BY <1>1, <1>4, <1>5, AtControl DEF Around
<1>6. CASE Stages[boot.stage] = "extra_jobs"
  <2>1. boot.stage = 4
    <3>1. PICK i \in 1..15 : i = boot.stage
      BY Fields
    <3>2. Stages[i] = "extra_jobs"
      BY <1>6, <3>1
    <3>3. i = 1 \/ i = 2 \/ i = 3 \/ i = 4 \/ i = 5 \/ i = 6 \/ i = 7 \/ i = 8 \/ i = 9
            \/ i = 10 \/ i = 11 \/ i = 12 \/ i = 13 \/ i = 14 \/ i = 15
      OBVIOUS
    <3> QED BY <3>1, <3>2, <3>3, StageNames
  <2>2. boot' = At("begin", 6)
    <3>1. boot' = At("begin", boot.stage + 2)
      BY <1>1, <1>6
    <3>2. boot.stage + 2 = 6
      BY <2>1
    <3> QED BY <3>1, <3>2, Zenon
  <2> QED BY <1>4, <2>2, AtControl DEF Around
<1>7. CASE Stages[boot.stage] \notin {"migrate", "extra_jobs"}
  <2>1. boot' = NextStage
    BY <1>1, <1>7
  <2> QED BY <1>4, <2>1, NextControl
<1> QED BY <1>5, <1>6, <1>7

\* A kill keeps the invariant.
LEMMA KillControl ==
  ASSUME Control, Kill PROVE Control'
<1>1. /\ Fault \/ UNCHANGED faults
      /\ boot' = At("down", 1) /\ UNCHANGED <<db, hit>>
      /\ torn' = torn
           \cup (IF boot.script = <<>> THEN {} ELSE Half(Head(boot.script)))
           \cup (IF boot.subject = NULL THEN {}
                 ELSE {<<Stages[boot.stage], boot.subject>>})
  BY DEF Kill
<1>2. torn' \subseteq Halves
  <2>1. boot.script # <<>> => Half(Head(boot.script)) \subseteq Halves
    BY HalfType
  <2>2. boot.subject # NULL => {<<Stages[boot.stage], boot.subject>>} \subseteq Halves
    BY HalfDone DEF Halves
  <2>3. torn \subseteq Halves
    BY Fields
  <2> QED BY <1>1, <2>1, <2>2, <2>3
<1>3. faults' \in 0..MaxFaults
  BY <1>1, FaultRoom, Fields
<1>4. Around'
  BY <1>1, <1>2, <1>3, Fields DEF Around
<1> QED BY <1>1, <1>4, AtControl DEF Around

\* The shifts a planner is for are rows of workqueue, finitely many.
LEMMA Open ==
  ASSUME Control, NEW stage
  PROVE  /\ OpenShifts(stage) \subseteq DOMAIN db.queue
         /\ IsFiniteSet(DOMAIN db.queue)
         /\ db.queue \in Seq(Shift) /\ DOMAIN db.queue \subseteq Nat
         /\ \A k \in DOMAIN db.queue :
              /\ db.queue[k] \in Shift /\ db.queue[k].slot.hours \in Nat \ {0}
              /\ db.queue[k].week \in Weeks /\ db.queue[k].job \in Jobs
<1>1. db.queue \in Seq(Shift)
  BY Fields DEF Tables
<1>2. DOMAIN db.queue = 1..Len(db.queue) /\ Len(db.queue) \in Nat
  BY <1>1, LenProperties
<1>3. IsFiniteSet(DOMAIN db.queue)
  BY <1>2, FS_Interval
<1>4. ASSUME NEW k \in DOMAIN db.queue
      PROVE  /\ db.queue[k] \in Shift /\ db.queue[k].slot.hours \in Nat \ {0}
             /\ db.queue[k].week \in Weeks /\ db.queue[k].job \in Jobs
  <2>1. db.queue[k] \in Shift
    BY <1>1, <1>2, ElementOfSeq
  <2>2. db.queue[k].slot \in Slots /\ db.queue[k].week \in Weeks
          /\ db.queue[k].job \in Jobs
    BY <2>1 DEF Shift
  <2> QED BY <2>1, <2>2, SeedAssumption
<1>5. OpenShifts(stage) \subseteq DOMAIN db.queue
  BY DEF OpenShifts, AnyShift
<1> QED BY <1>1, <1>2, <1>3, <1>4, <1>5

\* The fields of the planner.
LEMMA PlannerFields ==
  ASSUME NEW p, Fits(p)
  PROVE  /\ p = [todo |-> p.todo, plan |-> p.plan, used |-> p.used,
                 spent |-> p.spent, total |-> p.total, tenths |-> p.tenths]
         /\ p.todo \subseteq DOMAIN db.queue /\ DOMAIN p.plan \subseteq DOMAIN db.queue
         /\ p.plan \in [DOMAIN p.plan -> Workers]
         /\ p.used \in [Workers -> [Weeks -> Nat]]
         /\ p.spent \in Nat /\ p.total \in Nat /\ p.tenths \in {9, 10}
<1>1. p \in Planner(p.plan)
  BY DEF Fits
<1>2. p.plan \in [DOMAIN p.plan -> Workers] /\ DOMAIN p.plan \subseteq DOMAIN db.queue
  BY DEF Fits, Plans
<1> QED BY <1>1, <1>2 DEF Planner

\* A planner made of its fields.
LEMMA PlannerFits ==
  ASSUME NEW todo \in SUBSET DOMAIN db.queue, NEW S \in SUBSET DOMAIN db.queue,
         NEW plan \in [S -> Workers], NEW used \in [Workers -> [Weeks -> Nat]],
         NEW spent \in Nat, NEW total \in Nat, NEW tenths \in {9, 10}
  PROVE  Fits([todo |-> todo, plan |-> plan, used |-> used, spent |-> spent,
               total |-> total, tenths |-> tenths])
<1>1. DOMAIN plan = S
  OBVIOUS
<1>2. plan \in Plans(S)
  BY DEF Plans
<1> QED BY <1>1, <1>2 DEF Fits, Planner

\* The process goes on planning or writing, in the same function.
LEMMA PlannerControl ==
  ASSUME Control, Planning(Stages[boot.stage]), boot.pc # "draw",
         boot.script = <<>>,
         NEW pc \in {"plan", "write"}, NEW p,
         boot' = [pc |-> pc, stage |-> boot.stage, script |-> <<>>,
                  planner |-> p, subjects |-> {}, subject |-> NULL, count |-> 0],
         Fits(p), DOMAIN db'.queue = DOMAIN db.queue, Around',
         pc = "write" => p.todo \subseteq DOMAIN p.plan
  PROVE  Control'
<1>1. Fits(p)'
  BY DEF Fits, Planner, Plans
<1>2. MayHold(pc, boot.stage, <<>>, p, {}, NULL, 0)
  BY Fields DEF MayHold
<1> QED BY <1>1, <1>2, ProcessControl

\* BeginPlan keeps the invariant.
LEMMA BeginPlanControl ==
  ASSUME Control, BeginPlan PROVE Control'
<1> DEFINE stage == Stages[boot.stage]
           open == OpenShifts(stage)
<1>1. PICK n : n = HoursIn(open)
  OBVIOUS
<1>2. n \in Nat
  <2>1. HoursOver(db.queue, open) \in Nat
    BY Open, HoursFacts
  <2> QED BY <1>1, <2>1 DEF HoursIn, HoursOver
<1>3. PICK t \in {9, 10} : t = IF stage = "guards" THEN 10 ELSE 9
  OBVIOUS
<1>4. /\ boot.pc = "begin" /\ Planning(stage) /\ UNCHANGED <<db, faults, hit, torn>>
      /\ boot' = [boot EXCEPT !.pc = "plan", !.planner.todo = open,
                              !.planner.total = n, !.planner.tenths = t]
  BY <1>1, <1>3 DEF BeginPlan
<1>5. boot.planner = NoPlan /\ boot.script = <<>> /\ boot.subjects = {}
        /\ boot.subject = NULL /\ boot.count = 0
  BY <1>4 DEF Control, Held
<1>6. open \in SUBSET DOMAIN db.queue
  BY Open
<1> HIDE DEF open
<1> DEFINE p == [todo |-> open, plan |-> NoPlan.plan, used |-> NoPlan.used,
                 spent |-> 0, total |-> n, tenths |-> t]
<1>7. boot' = [pc |-> "plan", stage |-> boot.stage, script |-> <<>>,
               planner |-> p, subjects |-> {}, subject |-> NULL, count |-> 0]
  BY <1>4, <1>5, Fields, NoPlanType
<1>8. Fits(p)
  BY <1>2, <1>6, NoPlanType, PlannerFits
<1>9. Around'
  BY <1>4, Fields DEF Around
<1> QED BY <1>4, <1>5, <1>7, <1>8, <1>9, PlannerControl

\* What a planner holds while it plans or writes.
LEMMA Working ==
  ASSUME Control, boot.pc \in {"plan", "write"}
  PROVE  /\ boot = [pc |-> boot.pc, stage |-> boot.stage, script |-> <<>>,
                    planner |-> boot.planner, subjects |-> {}, subject |-> NULL,
                    count |-> 0]
         /\ boot.script = <<>> /\ Planning(Stages[boot.stage])
         /\ Fits(boot.planner)
<1>1. boot.script = <<>> /\ boot.subjects = {} /\ boot.subject = NULL
        /\ boot.count = 0 /\ Planning(Stages[boot.stage])
  BY DEF Control, Held
<1>2. Fits(boot.planner)
  BY Fields DEF Fits
<1> QED BY <1>1, <1>2, Fields

\* The planner after a shift it leaves open, and after one it gives to w.
Passed(pl, k) ==
  [todo |-> pl.todo \ {k}, plan |-> pl.plan, used |-> pl.used,
   spent |-> pl.spent, total |-> pl.total, tenths |-> pl.tenths]
Gave(pl, k, w) ==
  [todo |-> pl.todo \ {k},
   plan |-> [x \in DOMAIN pl.plan \cup {k} |-> IF x = k THEN w ELSE pl.plan[x]],
   used |-> [pl.used EXCEPT ![w][db.queue[k].week] = @ + db.queue[k].slot.hours],
   spent |-> pl.spent + db.queue[k].slot.hours, total |-> pl.total,
   tenths |-> pl.tenths]

\* The process with another planner.
With(pc, p) ==
  [pc |-> pc, stage |-> boot.stage, script |-> <<>>, planner |-> p,
   subjects |-> {}, subject |-> NULL, count |-> 0]

\* Four of the planner's fields change.
LEMMA Changed ==
  ASSUME NEW pl,
         pl = [todo |-> pl.todo, plan |-> pl.plan, used |-> pl.used,
               spent |-> pl.spent, total |-> pl.total, tenths |-> pl.tenths],
         NEW todo, NEW plan, NEW used, NEW spent, NEW q,
         q = [pl EXCEPT !.todo = todo, !.plan = plan, !.used = used,
                        !.spent = spent]
  PROVE  q = [todo |-> todo, plan |-> plan, used |-> used, spent |-> spent,
              total |-> pl.total, tenths |-> pl.tenths]
<1>1. PICK a, b, c, d, e, f : pl = [todo |-> a, plan |-> b, used |-> c,
                                    spent |-> d, total |-> e, tenths |-> f]
  OBVIOUS
<1>2. q = [todo |-> todo, plan |-> plan, used |-> used, spent |-> spent,
           total |-> e, tenths |-> f]
  BY <1>1
<1>3. pl.total = e /\ pl.tenths = f
  BY <1>1
<1> QED BY <1>2, <1>3

\* The process changes its planner only.
LEMMA Replan ==
  ASSUME Control, boot.pc \in {"plan", "write"}, NEW q,
         boot' = [boot EXCEPT !.planner = q]
  PROVE  boot' = With(boot.pc, q)
<1>1. PICK pc, stage, p : boot = [pc |-> pc, stage |-> stage, script |-> <<>>,
                                  planner |-> p, subjects |-> {},
                                  subject |-> NULL, count |-> 0]
  BY Working
<1> QED BY <1>1 DEF With

\* One turn of the planner's loop.
LEMMA Turned ==
  ASSUME Control, PlanShift, NEW pl, pl = boot.planner
  PROVE  /\ UNCHANGED <<db, faults, hit, torn>> /\ boot.pc = "plan" /\ ~Reached(pl)
         /\ \E k \in pl.todo :
              \/ Candidates(pl, k) = {} /\ boot' = With("plan", Passed(pl, k))
              \/ \E w \in Candidates(pl, k) :
                   boot' = With("plan", Gave(pl, k, w))
<1>1. boot.pc = "plan" /\ UNCHANGED <<db, faults, hit, torn>> /\ ~Reached(pl)
  BY DEF PlanShift
<1>2. boot = With("plan", pl)
  BY <1>1, Working DEF With
<1>3. Fits(pl)
  BY <1>1, Working
<1>4. /\ pl = [todo |-> pl.todo, plan |-> pl.plan, used |-> pl.used,
               spent |-> pl.spent, total |-> pl.total, tenths |-> pl.tenths]
      /\ pl.used \in [Workers -> [Weeks -> Nat]]
  BY <1>3, PlannerFields
<1> DEFINE Choice(q, k, w) ==
             [q EXCEPT !.todo = @ \ {k},
                !.plan = [x \in DOMAIN @ \cup {k} |->
                            IF x = k THEN w ELSE @[x]],
                !.used[w][db.queue[k].week] = @ + db.queue[k].slot.hours,
                !.spent = @ + db.queue[k].slot.hours]
<1>5. PICK k \in boot.planner.todo :
        IF Candidates(boot.planner, k) = {}
        THEN boot' = [boot EXCEPT !.planner.todo = @ \ {k}]
        ELSE \E w \in Candidates(boot.planner, k) :
               boot' = [boot EXCEPT !.planner = Choice(boot.planner, k, w)]
  BY Zenon DEF PlanShift
<1>6. CASE Candidates(pl, k) = {}
  <2>1. boot' = [boot EXCEPT !.planner.todo = @ \ {k}]
    BY <1>5, <1>6
  <2>2. PICK q : q = [pl EXCEPT !.todo = @ \ {k}]
    OBVIOUS
  <2>3. boot' = [boot EXCEPT !.planner = q]
    BY <2>1, <2>2
  <2>4. q = Passed(pl, k)
    BY <1>4, <2>2 DEF Passed
  <2> QED BY <1>1, <1>5, <1>6, <2>3, <2>4, Replan
<1>7. CASE Candidates(pl, k) # {}
  <2>1. PICK w \in Candidates(pl, k) :
               boot' = [boot EXCEPT !.planner = Choice(pl, k, w)]
    BY <1>5, <1>7, ZenonT(60)
  <2>2. PICK q : q = Choice(pl, k, w)
    OBVIOUS
  <2>3. boot' = [boot EXCEPT !.planner = q]
    BY <2>1, <2>2
  <2>4. q = Gave(pl, k, w)
    <3> DEFINE used == [pl.used EXCEPT ![w][db.queue[k].week] =
                                          @ + db.queue[k].slot.hours]
    <3>1. q = [pl EXCEPT !.todo = @ \ {k},
                 !.plan = [x \in DOMAIN @ \cup {k} |->
                             IF x = k THEN w ELSE @[x]],
                 !.used = used,
                 !.spent = @ + db.queue[k].slot.hours]
      BY <2>2
    <3>2. Gave(pl, k, w) =
            [todo |-> pl.todo \ {k},
             plan |-> [x \in DOMAIN pl.plan \cup {k} |-> IF x = k THEN w
                                                        ELSE pl.plan[x]],
             used |-> used, spent |-> pl.spent + db.queue[k].slot.hours,
             total |-> pl.total, tenths |-> pl.tenths]
      BY DEF Gave
    <3> DEFINE plan == [x \in DOMAIN pl.plan \cup {k} |-> IF x = k THEN w
                                                         ELSE pl.plan[x]]
               todo == pl.todo \ {k}
               spent == pl.spent + db.queue[k].slot.hours
    <3>3. q = [pl EXCEPT !.todo = todo, !.plan = plan, !.used = used,
                        !.spent = spent]
      BY <3>1
    <3>4. Gave(pl, k, w) =
            [todo |-> todo, plan |-> plan, used |-> used, spent |-> spent,
             total |-> pl.total, tenths |-> pl.tenths]
      BY <3>2
    <3> HIDE DEF used, plan, todo, spent, Choice
    <3>5. pl = [todo |-> pl.todo, plan |-> pl.plan, used |-> pl.used,
                spent |-> pl.spent, total |-> pl.total, tenths |-> pl.tenths]
      BY <1>4
    <3>6. q = [todo |-> todo, plan |-> plan, used |-> used, spent |-> spent,
               total |-> pl.total, tenths |-> pl.tenths]
      BY <3>3, <3>5, Changed, Zenon
    <3> QED BY <3>4, <3>6, Zenon
  <2>5. boot' = With("plan", Gave(pl, k, w))
    BY <1>1, <2>3, <2>4, Replan
  <2>6. k \in pl.todo
    BY <1>5
  <2> HIDE DEF Choice
  <2> QED BY <1>1, <2>1, <2>5, <2>6
<1> QED BY <1>6, <1>7

\* The hours of a worker and week go up by the shift's.
LEMMA UsedUp ==
  ASSUME NEW used \in [Workers -> [Weeks -> Nat]], NEW w \in Workers,
         NEW week \in Weeks, NEW n \in Nat, NEW up,
         up = [used EXCEPT ![w][week] = @ + n]
  PROVE  /\ up \in [Workers -> [Weeks -> Nat]]
         /\ up[w][week] = used[w][week] + n
         /\ \A v \in Workers : \A k \in Weeks :
              (v # w \/ k # week) => up[v][k] = used[v][k]
<1>1. used[w] \in [Weeks -> Nat] /\ used[w][week] \in Nat
  OBVIOUS
<1>2. PICK row : row = [used[w] EXCEPT ![week] = used[w][week] + n]
  OBVIOUS
<1>3. row \in [Weeks -> Nat] /\ row[week] = used[w][week] + n
        /\ \A k \in Weeks : k # week => row[k] = used[w][k]
  BY <1>1, <1>2
<1>4. up = [used EXCEPT ![w] = row]
  BY <1>2
<1> QED BY <1>3, <1>4

\* PlanShift keeps the invariant.
LEMMA PlanShiftControl ==
  ASSUME Control, PlanShift PROVE Control'
<1>1. PICK pl : pl = boot.planner
  OBVIOUS
<1>2. /\ UNCHANGED <<db, faults, hit, torn>> /\ boot.pc = "plan"
      /\ \E k \in pl.todo :
           \/ boot' = With("plan", Passed(pl, k))
           \/ \E w \in Candidates(pl, k) : boot' = With("plan", Gave(pl, k, w))
  BY <1>1, Turned
<1>3. PICK k \in pl.todo :
        \/ boot' = With("plan", Passed(pl, k))
        \/ \E w \in Candidates(pl, k) : boot' = With("plan", Gave(pl, k, w))
  BY <1>2
<1>4. /\ pl.todo \subseteq DOMAIN db.queue /\ DOMAIN pl.plan \subseteq DOMAIN db.queue
      /\ pl.plan \in [DOMAIN pl.plan -> Workers]
      /\ pl.used \in [Workers -> [Weeks -> Nat]]
      /\ pl.spent \in Nat /\ pl.total \in Nat /\ pl.tenths \in {9, 10}
  BY <1>1, <1>2, Working, PlannerFields
<1>5. Around' /\ boot.script = <<>> /\ Planning(Stages[boot.stage])
  BY <1>2, Working, Fields DEF Around
<1>6. CASE boot' = With("plan", Passed(pl, k))
  <2>1. Fits(Passed(pl, k))
    BY <1>4, PlannerFits DEF Passed
  <2> QED BY <1>2, <1>5, <1>6, <2>1, PlannerControl DEF With
<1>7. ASSUME NEW w \in Candidates(pl, k), boot' = With("plan", Gave(pl, k, w))
      PROVE  Control'
  <2>1. w \in Workers /\ k \in DOMAIN db.queue
    BY <1>4 DEF Candidates
  <2>2. db.queue[k].week \in Weeks /\ db.queue[k].slot.hours \in Nat
    BY <2>1, Open
  <2> DEFINE plan == [x \in DOMAIN pl.plan \cup {k} |-> IF x = k THEN w
                                                       ELSE pl.plan[x]]
             used == [pl.used EXCEPT ![w][db.queue[k].week] =
                                       @ + db.queue[k].slot.hours]
  <2>3. used \in [Workers -> [Weeks -> Nat]]
    BY <1>4, <2>1, <2>2, UsedUp
  <2>4. plan \in [DOMAIN pl.plan \cup {k} -> Workers]
    BY <1>4, <2>1
  <2>5. DOMAIN pl.plan \cup {k} \in SUBSET DOMAIN db.queue
    BY <1>4, <2>1
  <2>6. pl.spent + db.queue[k].slot.hours \in Nat
    BY <1>4, <2>2
  <2>7. Gave(pl, k, w) = [todo |-> pl.todo \ {k}, plan |-> plan, used |-> used,
                          spent |-> pl.spent + db.queue[k].slot.hours,
                          total |-> pl.total, tenths |-> pl.tenths]
    BY DEF Gave
  <2> HIDE DEF plan, used
  <2>8. pl.todo \ {k} \in SUBSET DOMAIN db.queue
    BY <1>4
  <2> DEFINE todo == pl.todo \ {k}
             spent == pl.spent + db.queue[k].slot.hours
  <2>9. Fits(Gave(pl, k, w))
    <3> HIDE DEF todo, spent
    <3>1. Fits([todo |-> todo, plan |-> plan, used |-> used, spent |-> spent,
                total |-> pl.total, tenths |-> pl.tenths])
      <4>1. todo \in SUBSET DOMAIN db.queue /\ spent \in Nat
        BY <2>6, <2>8 DEF todo, spent
      <4> QED BY <1>4, <2>3, <2>4, <2>5, <4>1, PlannerFits
    <3> QED BY <2>7, <3>1 DEF todo, spent
  <2> QED BY <1>2, <1>5, <1>7, <2>9, PlannerControl DEF With
<1> QED BY <1>3, <1>6, <1>7

\* The plan is complete.
LEMMA PlanDoneControl ==
  ASSUME Control, PlanDone PROVE Control'
<1>1. PICK pl : pl = boot.planner
  OBVIOUS
<1>2. boot.pc = "plan" /\ UNCHANGED <<db, faults, hit, torn>>
        /\ boot' = [boot EXCEPT !.pc = "write", !.planner.todo = DOMAIN pl.plan]
  BY <1>1 DEF PlanDone
<1>3. Fits(pl) /\ boot = With("plan", pl)
  BY <1>1, <1>2, Working DEF With
<1> DEFINE p == [todo |-> DOMAIN pl.plan, plan |-> pl.plan, used |-> pl.used,
                 spent |-> pl.spent, total |-> pl.total, tenths |-> pl.tenths]
<1>4. boot' = With("write", p)
  <2>1. PICK q : q = [pl EXCEPT !.todo = DOMAIN pl.plan]
    OBVIOUS
  <2>2. q = p
    BY <1>3, <2>1, PlannerFields
  <2>3. boot' = [boot EXCEPT !.pc = "write", !.planner = q]
    BY <1>1, <1>2, <2>1
  <2>4. PICK pc, stage, pp : boot = [pc |-> pc, stage |-> stage, script |-> <<>>,
                                     planner |-> pp, subjects |-> {},
                                     subject |-> NULL, count |-> 0]
    BY <1>2, Working
  <2> QED BY <2>2, <2>3, <2>4 DEF With
<1>5. Fits(p)
  BY <1>3, PlannerFields, PlannerFits
<1>6. Around' /\ boot.script = <<>> /\ Planning(Stages[boot.stage])
  BY <1>2, Working, Fields DEF Around
<1> QED BY <1>2, <1>4, <1>5, <1>6, PlannerControl DEF With

\* One shift of the plan is written.
LEMMA Written ==
  ASSUME Control, WriteShift, NEW pl, pl = boot.planner
  PROVE  /\ UNCHANGED <<faults, hit, torn>> /\ boot.pc = "write"
         /\ \E k \in pl.todo :
              /\ boot' = With("write", Passed(pl, k))
              /\ k \in DOMAIN pl.plan /\ k \in DOMAIN db.queue
              /\ pl.plan[k] \in Workers
              /\ \/ db' = db
                 \/ /\ db' = [db EXCEPT !.queue[k].worker = pl.plan[k]]
                    /\ db.queue[k].worker = NULL
<1>1. boot.pc = "write" /\ UNCHANGED <<faults, hit, torn>>
  BY DEF WriteShift
<1>2. boot = With("write", pl) /\ Fits(pl)
  BY <1>1, Working DEF With
<1>3. PICK k \in pl.todo :
        /\ db' = IF k \in OpenShifts("assign")
                 THEN [db EXCEPT !.queue[k].worker = pl.plan[k]] ELSE db
        /\ boot' = [boot EXCEPT !.planner.todo = @ \ {k}]
  BY DEF WriteShift
<1>4. boot' = With("write", Passed(pl, k))
  <2>1. PICK q : q = [pl EXCEPT !.todo = @ \ {k}]
    OBVIOUS
  <2>2. boot' = [boot EXCEPT !.planner = q]
    BY <1>3, <2>1
  <2>3. q = Passed(pl, k)
    <3>1. pl = [todo |-> pl.todo, plan |-> pl.plan, used |-> pl.used,
                spent |-> pl.spent, total |-> pl.total, tenths |-> pl.tenths]
      BY <1>2, PlannerFields
    <3> QED BY <2>1, <3>1 DEF Passed
  <2> QED BY <1>1, <2>2, <2>3, Replan
<1>5. pl.todo \subseteq DOMAIN pl.plan
  BY <1>1 DEF Control, Held
<1>6. k \in DOMAIN pl.plan /\ k \in DOMAIN db.queue /\ pl.plan[k] \in Workers
  BY <1>2, <1>5, PlannerFields
<1>7. \/ db' = db
      \/ /\ db' = [db EXCEPT !.queue[k].worker = pl.plan[k]]
         /\ db.queue[k].worker = NULL
  BY <1>3 DEF OpenShifts
<1> QED BY <1>1, <1>4, <1>6, <1>7

\* What an UPDATE of a shift's worker does.
LEMMA Updated ==
  ASSUME Control, NEW k \in DOMAIN db.queue, NEW w \in Workers,
         db' = [db EXCEPT !.queue[k].worker = w]
  PROVE  /\ db' \in Tables /\ DOMAIN db'.queue = DOMAIN db.queue
         /\ db'.works = db.works /\ db'.queue[k].worker = w
         /\ \A x \in DOMAIN db.queue : x # k => db'.queue[x] = db.queue[x]
         /\ \A x \in DOMAIN db.queue :
              /\ db'.queue[x].job = db.queue[x].job
              /\ db'.queue[x].slot = db.queue[x].slot
              /\ db'.queue[x].week = db.queue[x].week
<1>1. db \in Tables /\ db.queue \in Seq(Shift) /\ db.queue[k] \in Shift
  BY Fields, Open
<1>2. PICK row : row = [db.queue[k] EXCEPT !.worker = w]
  OBVIOUS
<1>3. row \in Shift /\ row.worker = w /\ row.job = db.queue[k].job
        /\ row.slot = db.queue[k].slot /\ row.week = db.queue[k].week
  BY <1>1, <1>2 DEF Shift
<1>4. PICK q : q = [db.queue EXCEPT ![k] = row]
  OBVIOUS
<1>5. q \in Seq(Shift) /\ DOMAIN q = DOMAIN db.queue /\ q[k] = row
        /\ \A x \in DOMAIN db.queue : x # k => q[x] = db.queue[x]
  BY <1>1, <1>3, <1>4
<1>6. db' = [db EXCEPT !.queue = q]
  BY <1>2, <1>4
<1>7. db'.queue = q /\ db'.works = db.works
  BY <1>1, <1>6 DEF Tables
<1>8. db' \in Tables
  BY <1>1, <1>5, <1>6 DEF Tables
<1> QED BY <1>3, <1>5, <1>7, <1>8

\* WriteShift keeps the invariant.
LEMMA WriteShiftControl ==
  ASSUME Control, WriteShift PROVE Control'
<1>1. PICK pl : pl = boot.planner
  OBVIOUS
<1>2. UNCHANGED <<faults, hit, torn>> /\ boot.pc = "write"
  BY <1>1, Written
<1>3. PICK k \in pl.todo :
         /\ boot' = With("write", Passed(pl, k))
         /\ k \in DOMAIN pl.plan /\ k \in DOMAIN db.queue
         /\ pl.plan[k] \in Workers
         /\ \/ db' = db
            \/ db' = [db EXCEPT !.queue[k].worker = pl.plan[k]]
  BY <1>1, Written
<1>4. db' \in Tables /\ DOMAIN db'.queue = DOMAIN db.queue
  <2>1. PICK w \in Workers : w = pl.plan[k]
    BY <1>3
  <2> QED BY <1>3, <2>1, Updated, Fields
<1>5. Fits(pl) /\ boot.script = <<>> /\ Planning(Stages[boot.stage])
  BY <1>1, <1>2, Working
<1>6. Fits(Passed(pl, k))
  BY <1>5, PlannerFields, PlannerFits DEF Passed
<1>7. Around'
  BY <1>2, <1>4, Fields DEF Around
<1>8. pl.todo \ {k} \subseteq DOMAIN pl.plan
  BY <1>1, <1>2 DEF Control, Held
<1>9. boot.pc # "draw" /\ Passed(pl, k).todo \subseteq DOMAIN Passed(pl, k).plan
  BY <1>2, <1>8 DEF Passed
<1> QED BY <1>3, <1>4, <1>5, <1>6, <1>7, <1>9, PlannerControl DEF With

\* What a process holds while it draws.
LEMMA WhileDrawing ==
  ASSUME Control, boot.pc = "draw"
  PROVE  /\ boot = [pc |-> "draw", stage |-> boot.stage, script |-> <<>>,
                    planner |-> NoPlan, subjects |-> boot.subjects,
                    subject |-> boot.subject, count |-> boot.count]
         /\ Drawing(Stages[boot.stage])
<1>1. boot.script = <<>> /\ boot.planner = NoPlan /\ Drawing(Stages[boot.stage])
  BY DEF Control, Held
<1> QED BY <1>1, Fields

\* The process goes on drawing, in the same function.
LEMMA DrawControl ==
  ASSUME Control, Drawing(Stages[boot.stage]),
         NEW subjects \in SUBSET (Workers \cup Jobs),
         NEW subject \in Workers \cup Jobs \cup {NULL}, NEW count \in Nat,
         boot' = [pc |-> "draw", stage |-> boot.stage, script |-> <<>>,
                  planner |-> NoPlan, subjects |-> subjects,
                  subject |-> subject, count |-> count],
         subject = NULL => count = 0, Around'
  PROVE  Control'
<1>1. Fits(NoPlan)'
  <2>1. NoPlan \in Planner(NoPlan.plan)'
    BY NoPlanType DEF Planner
  <2>2. NoPlan.plan \in Plans(DOMAIN NoPlan.plan)'
    BY NoPlanType DEF Plans
  <2> QED BY <2>1, <2>2 DEF Fits
<1>2. MayHold("draw", boot.stage, <<>>, NoPlan, subjects, subject, count)
  BY Fields DEF MayHold
<1> QED BY <1>1, <1>2, ProcessControl

\* Rows of users and jobs.
LEMMA SubjectsType ==
  ASSUME Control, NEW stage
  PROVE  Subjects(stage) \in SUBSET (Workers \cup Jobs)
<1>1. db.jobs \subseteq Jobs
  BY Fields DEF Tables
<1>2. Students \subseteq Workers
  BY SeedAssumption
<1> QED BY <1>1, <1>2 DEF Subjects

\* BeginDraw keeps the invariant.
LEMMA BeginDrawControl ==
  ASSUME Control, BeginDraw PROVE Control'
<1>1. PICK s : s = Subjects(Stages[boot.stage])
  OBVIOUS
<1>2. /\ boot.pc = "begin" /\ Drawing(Stages[boot.stage])
      /\ UNCHANGED <<db, faults, hit, torn>>
      /\ boot' = [boot EXCEPT !.pc = "draw", !.subjects = s]
  BY <1>1 DEF BeginDraw
<1>3. boot.planner = NoPlan /\ boot.script = <<>> /\ boot.subject = NULL
        /\ boot.count = 0
  BY <1>2 DEF Control, Held
<1>4. boot' = [pc |-> "draw", stage |-> boot.stage, script |-> <<>>,
               planner |-> NoPlan, subjects |-> s, subject |-> NULL, count |-> 0]
  <2>1. PICK a, b, c : boot = [pc |-> a, stage |-> b, script |-> <<>>,
                              planner |-> NoPlan, subjects |-> c,
                              subject |-> NULL, count |-> 0]
    BY <1>3, Fields
  <2>2. b = boot.stage
    BY <2>1
  <2> QED BY <1>2, <2>1, <2>2
<1>5. Around' /\ s \in SUBSET (Workers \cup Jobs)
  BY <1>1, <1>2, SubjectsType, Fields DEF Around
<1> QED BY <1>2, <1>4, <1>5, DrawControl

\* NextSubject keeps the invariant.
LEMMA NextSubjectControl ==
  ASSUME Control, NextSubject PROVE Control'
<1>1. PICK s : s = CHOOSE x \in boot.subjects : TRUE
  OBVIOUS
<1>2. /\ boot.pc = "draw" /\ UNCHANGED <<db, faults, hit, torn>>
      /\ boot.subjects # {} /\ boot.subject = NULL
      /\ \E go \in BOOLEAN :
           boot' = [boot EXCEPT !.subjects = @ \ {s},
                                !.subject = IF go THEN s ELSE NULL]
  BY <1>1 DEF NextSubject
<1>3. s \in boot.subjects
  BY <1>1, <1>2
<1>4. PICK t : t \in {s, NULL}
               /\ boot' = [boot EXCEPT !.subjects = @ \ {s}, !.subject = t]
  BY <1>2
<1>5. boot.count = 0
  BY <1>2 DEF Control, Held
<1>6. boot' = [pc |-> "draw", stage |-> boot.stage, script |-> <<>>,
               planner |-> NoPlan, subjects |-> boot.subjects \ {s},
               subject |-> t, count |-> 0]
  <2>1. PICK a, b, c, d : boot = [pc |-> a, stage |-> b, script |-> <<>>,
                                 planner |-> NoPlan, subjects |-> c,
                                 subject |-> d, count |-> 0]
    BY <1>2, <1>5, WhileDrawing
  <2>2. a = "draw" /\ b = boot.stage /\ c = boot.subjects
    BY <1>2, <2>1
  <2> QED BY <1>4, <2>1, <2>2
<1>7. Around' /\ boot.subjects \ {s} \in SUBSET (Workers \cup Jobs)
        /\ t \in Workers \cup Jobs \cup {NULL} /\ Drawing(Stages[boot.stage])
  BY <1>2, <1>3, <1>4, WhileDrawing, Fields DEF Around
<1> QED BY <1>6, <1>7, DrawControl

\* The lengths a turn draws.
LEMMA TurnNat ==
  ASSUME Control, NEW stage, NEW n \in Turn(stage) PROVE n \in Nat
  BY Fields DEF Turn, Clamp

\* DrawRow keeps the invariant.
LEMMA DrawRowControl ==
  ASSUME Control, DrawRow PROVE Control'
<1>1. /\ boot.pc = "draw" /\ boot.subject # NULL /\ UNCHANGED <<faults, hit, torn>>
      /\ \E n \in Turn(Stages[boot.stage]) : boot' = [boot EXCEPT !.count = @ + n]
      /\ db' = [db EXCEPT !.drawn = @ \cup {<<Stages[boot.stage], boot.subject>>}]
  BY DEF DrawRow
<1>2. PICK c \in Nat : boot' = [boot EXCEPT !.count = c]
  <2>1. PICK n \in Turn(Stages[boot.stage]) : boot' = [boot EXCEPT !.count = @ + n]
    BY <1>1
  <2>2. n \in Nat /\ boot.count \in Nat
    BY TurnNat, Fields
  <2>3. PICK c : c = boot.count + n
    OBVIOUS
  <2>4. c \in Nat
    BY <2>2, <2>3
  <2>5. boot' = [boot EXCEPT !.count = c]
    BY <2>1, <2>3
  <2> QED BY <2>4, <2>5
<1>3. boot' = [pc |-> "draw", stage |-> boot.stage, script |-> <<>>,
               planner |-> NoPlan, subjects |-> boot.subjects,
               subject |-> boot.subject, count |-> c]
  BY <1>1, <1>2, WhileDrawing
<1>4. db' \in Tables
  <2>1. PICK v : v = db.drawn \cup {<<Stages[boot.stage], boot.subject>>}
    OBVIOUS
  <2>2. db' = [db EXCEPT !.drawn = v]
    BY <1>1, <2>1
  <2>3. db \in Tables /\ v \subseteq Drawn \X (Workers \cup Jobs)
    BY <1>1, <2>1, HalfDone, Fields DEF Tables
  <2> QED BY <2>2, <2>3 DEF Tables
<1>5. Around'
  BY <1>1, <1>4, Fields DEF Around
<1>6. Drawing(Stages[boot.stage])
  BY <1>1, WhileDrawing
<1> QED BY <1>1, <1>3, <1>5, <1>6, Fields, DrawControl

\* EndSubject keeps the invariant.
LEMMA EndSubjectControl ==
  ASSUME Control, EndSubject PROVE Control'
<1>1. /\ boot.pc = "draw" /\ UNCHANGED <<db, faults, hit, torn>>
      /\ boot' = [boot EXCEPT !.subject = NULL, !.count = 0]
  BY DEF EndSubject
<1>2. boot' = [pc |-> "draw", stage |-> boot.stage, script |-> <<>>,
               planner |-> NoPlan, subjects |-> boot.subjects,
               subject |-> NULL, count |-> 0]
  <2>1. PICK a, b, c, d, e : boot = [pc |-> a, stage |-> b, script |-> <<>>,
                                    planner |-> NoPlan, subjects |-> c,
                                    subject |-> d, count |-> e]
    BY <1>1, WhileDrawing
  <2>2. a = "draw" /\ b = boot.stage /\ c = boot.subjects
    BY <1>1, <2>1
  <2> QED BY <1>1, <2>1, <2>2
<1>3. Around' /\ Drawing(Stages[boot.stage])
  BY <1>1, WhileDrawing, Fields DEF Around
<1> QED BY <1>2, <1>3, Fields, DrawControl

\* The database before the first boot.
LEMMA InitControl ==
  ASSUME Init PROVE Control
<1>1. db \in Tables
  <2>1. <<>> \in Seq(Shift)
    OBVIOUS
  <2>2. [p \in People |-> 0] \in [People -> Nat]
    OBVIOUS
  <2> QED BY <2>1, <2>2 DEF Init, Tables
<1>2. boot = [pc |-> "down", stage |-> 1, script |-> <<>>,
              planner |-> NoPlan, subjects |-> {}, subject |-> NULL,
              count |-> 0]
  BY DEF Init, At
<1>3. boot.planner = NoPlan
  BY <1>2
<1>4. NoPlan \in Planner(NoPlan.plan)
  BY NoPlanType DEF Planner
<1>5. boot \in Boot(NoPlan.plan)
  <2> DEFINE P == Planner(NoPlan.plan)
  <2>1. NoPlan \in P
    BY <1>4
  <2> HIDE DEF P
  <2>2. boot \in [pc : {"down", "begin", "run", "plan", "write", "draw", "serve"},
                  stage : DOMAIN Stages, script : Seq(Statement),
                  planner : P, subjects : SUBSET (Workers \cup Jobs),
                  subject : Workers \cup Jobs \cup {NULL}, count : Nat]
    <3>1. \A S : <<>> \in Seq(S)
      OBVIOUS
    <3>2. 1 \in DOMAIN Stages
      <4>1. DOMAIN Stages = 1..15
        BY StageNames
      <4>2. 1 \in 1..15
        OBVIOUS
      <4> QED BY <4>1, <4>2, Zenon
    <3> QED BY <1>2, <2>1, <3>1, <3>2
  <2> QED BY <2>2 DEF P, Boot
<1>6. NoPlan.plan \in Plans(DOMAIN NoPlan.plan)
  BY NoPlanType DEF Plans
<1>7. faults \in 0..MaxFaults
  BY SeedAssumption DEF Init
<1>8. TypeOK
  BY <1>1, <1>3, <1>5, <1>6, <1>7 DEF TypeOK, Init
<1>9. Held
  <2>1. <<>> \in Seq(Statements)
    OBVIOUS
  <2>2. boot.pc = "down" /\ boot.script = <<>> /\ boot.subjects = {}
          /\ boot.subject = NULL /\ boot.count = 0
    BY <1>2
  <2> QED BY <1>3, <2>1, <2>2 DEF Held
<1> QED BY <1>8, <1>9 DEF Control

\* A step of nobody.
LEMMA SameControl ==
  ASSUME Control, UNCHANGED vars PROVE Control'
  BY DEF Control, TypeOK, Held, Boot, Planner, Plans, vars

\* Every step keeps what the process holds.
LEMMA NextControls ==
  ASSUME Control, [Next]_vars PROVE Control'
  BY BeginControl, ExecuteControl, AtStepsControl, BeginPlanControl,
     PlanShiftControl, PlanDoneControl, WriteShiftControl, BeginDrawControl,
     NextSubjectControl, DrawRowControl, EndSubjectControl, StatementFailsControl,
     ReadErrorControl, KillControl, SameControl DEF Next, Step

\* The process holds only what it may where it is, in every reachable state: a
\* list of sound statements while it runs one, a plan for rows of workqueue while
\* it plans or writes, a subject while it draws.
THEOREM AlwaysControl == Spec => []Control
  BY InitControl, NextControls, PTL DEF Spec

\* The seeder's state is always of its type, whatever the files hold, however
\* often it is killed and whatever fails.
THEOREM SeederTypeCorrect == Spec => []TypeOK
  BY AlwaysControl, PTL DEF Control
-----------------------------------------------------------------------------
(***************************************************************************)
(* Which steps leave a planner, or a draw, at work.                        *)
(***************************************************************************)
\* A step that leaves the process in another place.
LEMMA Elsewhere ==
  ASSUME Control,
         \/ Begin \/ Execute \/ Return \/ WriteDone \/ DrawDone
         \/ Start \/ StatementFails \/ ReadError \/ WriteError \/ Kill
  PROVE  boot'.pc \in {"down", "begin", "run", "serve"}
<1>1. ASSUME NEW pc \in {"down", "begin", "serve"}, NEW stage, boot' = At(pc, stage)
      PROVE  boot'.pc \in {"down", "begin", "run", "serve"}
  BY <1>1 DEF At
<1>2. ASSUME boot' = NextStage PROVE boot'.pc \in {"down", "begin", "run", "serve"}
  BY <1>1, <1>2 DEF NextStage
<1>3. CASE Begin
  <2>1. boot' = [boot EXCEPT !.pc = "run", !.script = Script(Stages[boot.stage])]
    BY <1>3 DEF Begin
  <2>2. PICK a, b, c, d, e, f, g :
          boot = [pc |-> a, stage |-> b, script |-> c, planner |-> d,
                  subjects |-> e, subject |-> f, count |-> g]
    BY Fields
  <2> QED BY <2>1, <2>2
<1>4. ASSUME boot.pc = "run", NEW rest, boot' = [boot EXCEPT !.script = rest]
      PROVE  boot'.pc = "run"
  <2>1. PICK a, b, c, d, e, f, g :
          boot = [pc |-> a, stage |-> b, script |-> c, planner |-> d,
                  subjects |-> e, subject |-> f, count |-> g]
    BY Fields
  <2> QED BY <1>4, <2>1
<1>5. CASE Execute
  BY <1>4, <1>5 DEF Execute
<1>6. CASE Return \/ WriteDone \/ DrawDone \/ WriteError
  BY <1>2, <1>6 DEF Return, WriteDone, DrawDone, WriteError
<1>7. CASE Start \/ Kill
  BY <1>1, <1>7 DEF Start, Kill
<1>8. CASE StatementFails
  <2> DEFINE st == Head(boot.script)
             rest == AfterError(st, Tail(boot.script))
  <2>1. boot.pc = "run"
          /\ (boot' = At("down", 1) \/ boot' = [boot EXCEPT !.script = rest])
    BY <1>8 DEF StatementFails
  <2> HIDE DEF rest
  <2> QED BY <1>1, <1>4, <2>1
<1>9. CASE ReadError
  <2>1. boot' = At("down", 1) \/ boot' = At("begin", boot.stage + 2)
          \/ boot' = NextStage
    BY <1>9 DEF ReadError
  <2> QED BY <1>1, <1>2, <2>1
<1> QED BY <1>3, <1>5, <1>6, <1>7, <1>8, <1>9

\* The draws leave no planner, and the planner no draw.
LEMMA Apart ==
  ASSUME Control, [Next]_vars
  PROVE  /\ boot'.pc \in {"plan", "write"} =>
              BeginPlan \/ PlanShift \/ PlanDone \/ WriteShift \/ UNCHANGED vars
         /\ boot'.pc = "draw" =>
              BeginDraw \/ NextSubject \/ DrawRow \/ EndSubject \/ UNCHANGED vars
<1>1. PICK a, b, c, d, e, f, g :
        boot = [pc |-> a, stage |-> b, script |-> c, planner |-> d,
                subjects |-> e, subject |-> f, count |-> g]
  BY Fields
<1>2. BeginPlan => boot'.pc = "plan"
  BY <1>1 DEF BeginPlan
<1>3. PlanShift => boot'.pc = "plan"
  BY Turned DEF With
<1>4. PlanDone => boot'.pc = "write"
  BY <1>1 DEF PlanDone
<1>5. WriteShift => boot'.pc = "write"
  BY Written DEF With
<1>6. BeginDraw => boot'.pc = "draw"
  BY <1>1 DEF BeginDraw
<1>7. NextSubject => boot'.pc = "draw"
  BY <1>1 DEF NextSubject
<1>8. DrawRow => boot'.pc = "draw"
  BY <1>1 DEF DrawRow
<1>9. EndSubject => boot'.pc = "draw"
  BY <1>1 DEF EndSubject
<1> QED BY <1>2, <1>3, <1>4, <1>5, <1>6, <1>7, <1>8, <1>9, Elsewhere
           DEF Next, Step

(***************************************************************************)
(* The rows of workqueue.                                                  *)
(***************************************************************************)
\* The row a statement queues.
RowOf(st) == [job |-> st.job, slot |-> st.slot, week |-> st.n, worker |-> NULL]

\* A statement adds one row at the end at most, and only when no row of the
\* job has its day, start and week.
LEMMA EffectQueue ==
  ASSUME Control, NEW st \in Statements
  PROVE  \/ Effect(st).queue = db.queue
         \/ NotQueued(st) /\ Effect(st).queue = Append(db.queue, RowOf(st))
<1>1. db \in Tables /\ Sound(st)
  BY Fields DEF Statements
<1>2. CASE st.op = "shift"
  <2> DEFINE q == Append(db.queue, RowOf(st))
  <2>1. Effect(st) = IF NotQueued(st) THEN [db EXCEPT !.queue = q] ELSE db
    BY <1>2 DEF Effect, RowOf
  <2> HIDE DEF q
  <2>2. [db EXCEPT !.queue = q].queue = q
    BY <1>1 DEF Tables
  <2> QED BY <2>1, <2>2 DEF q
<1>3. CASE st.op \in {"object", "record", "department"}
  BY <1>1, <1>3 DEF Effect, Tables
<1>4. CASE st.op \in {"admin", "user", "staff_user", "profile", "staff_profile"}
  BY <1>1, <1>4 DEF Effect, Tables
<1>5. CASE st.op \in {"manager", "job", "new_job", "works", "member"}
  BY <1>1, <1>5 DEF Effect, Tables
<1>6. CASE st.op \in {"hours", "clear"}
  <2>1. PICK h : Effect(st) = [db EXCEPT !.hours = h]
    BY <1>6 DEF Effect
  <2> QED BY <1>1, <2>1 DEF Tables
<1>7. st.op \in Operations
  BY <1>1 DEF Sound
<1> QED BY <1>2, <1>3, <1>4, <1>5, <1>6, <1>7 DEF Operations

\* What a step does to the rows: nothing, one more, or one given to a worker.
LEMMA QueueSteps ==
  ASSUME Control, [Next]_vars
  PROVE  \/ UNCHANGED db.queue
         \/ \E st \in Statements :
              NotQueued(st) /\ db'.queue = Append(db.queue, RowOf(st))
         \/ WriteShift
<1>1. CASE Execute
  <2>1. PICK st : st = Head(boot.script)
    OBVIOUS
  <2>2. st \in Statements /\ db' = Effect(st)
    BY <1>1, <2>1, Heads DEF Execute
  <2> QED BY <2>2, EffectQueue
<1>2. CASE DrawRow
  <2>1. PICK v : db' = [db EXCEPT !.drawn = v]
    BY <1>2 DEF DrawRow
  <2> QED BY <2>1, Fields DEF Tables
<1>3. CASE UNCHANGED db
  BY <1>3
<1>4. Execute \/ DrawRow \/ WriteShift \/ UNCHANGED db
  BY DEF Next, Step, Begin, Return, BeginPlan, PlanShift, PlanDone, WriteDone,
         BeginDraw, NextSubject, EndSubject, DrawDone, Start, StatementFails,
         ReadError, WriteError, Kill, vars
<1> QED BY <1>1, <1>2, <1>3, <1>4

\* Each job, day, start and week has one row at most, whatever the statements.
LEMMA SlotsStep ==
  ASSUME Control, [Next]_vars, OneShiftPerSlot PROVE OneShiftPerSlot'
<1>1. CASE UNCHANGED db.queue
  BY <1>1 DEF OneShiftPerSlot
<1>2. ASSUME NEW st \in Statements, NotQueued(st),
             db'.queue = Append(db.queue, RowOf(st))
      PROVE  OneShiftPerSlot'
  <2> DEFINE q == db'.queue
  <2>1. db.queue \in Seq(Shift) /\ DOMAIN db.queue = 1..Len(db.queue)
          /\ Len(db.queue) \in Nat
    BY Open, LenProperties
  <2>2. DOMAIN q = 1..(Len(db.queue) + 1) /\ q[Len(db.queue) + 1] = RowOf(st)
          /\ \A k \in DOMAIN db.queue : q[k] = db.queue[k]
    <3> DEFINE row == RowOf(st)
    <3>1. row \in Shift \cup {row} /\ db.queue \in Seq(Shift \cup {row})
      BY <2>1, SeqMonotonic
    <3> HIDE DEF row
    <3> QED BY <1>2, <2>1, <3>1, AppendProperties, LenProperties DEF row
  <2>3. SlotOf(RowOf(st)) = <<st.job, st.slot.key, st.n>>
    BY DEF SlotOf, RowOf
  <2>4. \A k \in DOMAIN db.queue : SlotOf(q[k]) # SlotOf(RowOf(st))
    BY <1>2, <2>2, <2>3 DEF NotQueued
  <2>5. \A j, k \in DOMAIN db.queue : SlotOf(q[j]) = SlotOf(q[k]) => j = k
    BY <2>2 DEF OneShiftPerSlot
  <2>6. \A k \in DOMAIN q : k \in DOMAIN db.queue \/ k = Len(db.queue) + 1
    BY <2>1, <2>2
  <2>7. \A j, k \in DOMAIN q : SlotOf(q[j]) = SlotOf(q[k]) => j = k
    <3> HIDE DEF q
    <3> QED BY <2>2, <2>4, <2>5, <2>6
  <2> QED BY <2>7 DEF OneShiftPerSlot, SlotOf
<1>3. CASE WriteShift
  <2>1. CASE db' = db
    BY <2>1 DEF OneShiftPerSlot
  <2>2. CASE db' # db
    <3>1. PICK k \in DOMAIN db.queue, w \in Workers :
            db' = [db EXCEPT !.queue[k].worker = w]
      BY <1>3, <2>2, Written
    <3>2. DOMAIN db'.queue = DOMAIN db.queue
            /\ \A x \in DOMAIN db.queue :
                 /\ db'.queue[x].job = db.queue[x].job
                 /\ db'.queue[x].slot = db.queue[x].slot
                 /\ db'.queue[x].week = db.queue[x].week
      BY <3>1, Updated
    <3> QED BY <3>2 DEF OneShiftPerSlot, SlotOf
  <2> QED BY <2>1, <2>2
<1> QED BY <1>1, <1>2, <1>3, QueueSteps

\* No boot queues a shift of a job twice for a day and start, however many
\* boots there are and wherever they are killed (seedWorkqueue).
THEOREM ShiftsStaySingle == Spec => []OneShiftPerSlot
<1>1. Init => OneShiftPerSlot
  BY DEF Init, OneShiftPerSlot
<1> QED BY <1>1, AlwaysControl, SlotsStep, PTL DEF Spec

(***************************************************************************)
(* The hours drawn at random.                                              *)
(***************************************************************************)
Totals ==
  boot.pc = "draw" =>
    /\ Stages[boot.stage] = "preferred_times"  => boot.count \in 0..20
    /\ Stages[boot.stage] = "weekly_schedules" => boot.count \in 0..13

\* What a turn of the loop adds.
LEMMA TurnBounds ==
  ASSUME boot.count \in Nat
  PROVE  /\ \A n \in Turn("preferred_times") : boot.count + n \in 0..20
         /\ \A n \in Turn("weekly_schedules") : boot.count + n \in 0..13
         /\ Turn("preferred_times") = {} => boot.count >= 18
         /\ Turn("weekly_schedules") = {} => boot.count >= 10
<1>1. ASSUME NEW n \in Turn("preferred_times") PROVE boot.count + n \in 0..20
  <2>1. boot.count < 18 /\ n \in Clamp(2..6, 20)
    BY DEF Turn
  <2> QED BY <2>1 DEF Clamp
<1>2. ASSUME NEW n \in Turn("weekly_schedules") PROVE boot.count + n \in 0..13
  <2>1. boot.count < 10 /\ n \in Clamp(2..4, 16)
    BY DEF Turn
  <2> QED BY <2>1 DEF Clamp
<1>3. Clamp(2..6, 20) # {} /\ Clamp(2..4, 16) # {}
  <2>1. 2 \in 2..6 /\ 2 \in 2..4
    OBVIOUS
  <2> QED BY <2>1 DEF Clamp
<1>4. Turn("preferred_times") = {} => boot.count >= 18
  <2>1. Turn("preferred_times") = IF boot.count < 18 THEN Clamp(2..6, 20) ELSE {}
    BY DEF Turn
  <2> QED BY <1>3, <2>1
<1>5. Turn("weekly_schedules") = {} => boot.count >= 10
  <2>1. Turn("weekly_schedules") = IF boot.count < 10 THEN Clamp(2..4, 16) ELSE {}
    BY DEF Turn
  <2> QED BY <1>3, <2>1
<1> QED BY <1>1, <1>2, <1>4, <1>5

\* Every step keeps the bounds.
LEMMA TotalsStep ==
  ASSUME Control, [Next]_vars, Totals PROVE Totals'
<1> SUFFICES ASSUME boot'.pc = "draw" PROVE Totals'
  BY DEF Totals
<1>1. PICK a, b, c, d, e, f, g :
        boot = [pc |-> a, stage |-> b, script |-> c, planner |-> d,
                subjects |-> e, subject |-> f, count |-> g]
  BY Fields
<1>2. CASE BeginDraw
  <2>1. boot.count = 0
    BY <1>2 DEF BeginDraw, Control, Held
  <2>2. boot'.count = boot.count
    BY <1>1, <1>2 DEF BeginDraw
  <2> QED BY <2>1, <2>2 DEF Totals
<1>3. CASE NextSubject
  <2>1. boot.count = 0
    BY <1>3 DEF NextSubject, Control, Held
  <2>2. boot'.count = boot.count
    BY <1>1, <1>3 DEF NextSubject
  <2> QED BY <2>1, <2>2 DEF Totals
<1>4. CASE EndSubject
  <2>1. boot'.count = 0
    BY <1>1, <1>4 DEF EndSubject
  <2> QED BY <2>1 DEF Totals
<1>5. CASE DrawRow
  <2>1. PICK n \in Turn(Stages[boot.stage]) : boot' = [boot EXCEPT !.count = @ + n]
    BY <1>5 DEF DrawRow
  <2>2. boot'.count = boot.count + n /\ boot'.stage = boot.stage
    BY <1>1, <2>1
  <2>3. boot.count \in Nat
    BY Fields
  <2> QED BY <2>1, <2>2, <2>3, TurnBounds DEF Totals
<1>6. CASE UNCHANGED vars
  BY <1>6 DEF Totals, vars
<1> QED BY <1>2, <1>3, <1>4, <1>5, <1>6, Apart

\* A subject whose rows are all drawn has 18 to 20 hours of availability, or a
\* template of 10 to 13 hours, whatever lengths came up (seedPreferredTimes,
\* seedWeeklySchedules).
THEOREM DrawnAlwaysInRange == Spec => []DrawnHoursInRange
<1>1. Init => Totals
  BY DEF Init, Totals, At
<1>2. Control /\ Totals => DrawnHoursInRange
  <2> SUFFICES ASSUME Control, Totals PROVE DrawnHoursInRange
    OBVIOUS
  <2>1. boot.count \in Nat
    BY Fields
  <2> QED BY <2>1, TurnBounds DEF DrawnHoursInRange, Totals
<1> QED BY <1>1, <1>2, AlwaysControl, TotalsStep, PTL DEF Spec

(***************************************************************************)
(* The planner.  Its inductive invariant: every shift of the plan has a    *)
(* worker of its job; the counters are the hours of the plan and stay      *)
(* within the caps; the shift given last was still short of the target;    *)
(* and an open shift that is neither in the plan nor left to try has no    *)
(* worker with room.                                                       *)
(***************************************************************************)
Mine(p, w, week) ==
  {k \in DOMAIN p.plan : p.plan[k] = w /\ db.queue[k].week = week}

Assigned(p) == \A k \in DOMAIN p.plan : <<p.plan[k], db.queue[k].job>> \in db.works

Booked(p) ==
  \A w \in Workers : \A week \in Weeks :
    /\ p.used[w][week] = HoursOver(db.queue, Mine(p, w, week))
    /\ p.used[w][week] <= Cap(Details[w])

Near(p) ==
  p.plan # <<>> =>
    \E k \in DOMAIN p.plan :
      10 * (p.spent - db.queue[k].slot.hours) < p.tenths * p.total

Hopeless(p, stage) ==
  \A k \in OpenShifts(stage) \ (DOMAIN p.plan \cup p.todo) : Candidates(p, k) = {}

Tried(p, pc, stage) ==
  /\ pc = "plan" =>
       /\ p.todo \subseteq OpenShifts(stage) \ DOMAIN p.plan
       /\ Hopeless(p, stage)
  /\ pc = "write" =>
       \/ Reached(p)
       \/ \A k \in OpenShifts(stage) \ DOMAIN p.plan : Candidates(p, k) = {}

Planned(p, pc, stage) ==
  Assigned(p) /\ Booked(p) /\ Near(p) /\ Tried(p, pc, stage)
PlanInv == Planned(boot.planner, boot.pc, Stages[boot.stage])

\* The empty plan, over any rows.
LEMMA Nothing ==
  ASSUME NEW p, NEW q, p.plan = NoPlan.plan, p.used = NoPlan.used
  PROVE  /\ DOMAIN p.plan = {} /\ p.plan = <<>>
         /\ \A w \in Workers : \A week \in Weeks :
              p.used[w][week] = HoursOver(q, {}) /\ p.used[w][week] <= Cap(Details[w])
<1>1. DOMAIN p.plan = {} /\ p.plan = <<>>
  BY NoPlanType
<1>2. HoursOver(q, {}) = 0
  <2>1. IsFiniteSet({}) /\ \A k \in {} : q[k].slot.hours \in Nat
    BY FS_EmptySet
  <2> QED BY <2>1, HoursFacts
<1>3. ASSUME NEW w \in Workers, NEW week \in Weeks
      PROVE  p.used[w][week] = 0 /\ 0 <= Cap(Details[w])
  <2>1. NoPlan.used = [v \in Workers |-> [k \in Weeks |-> 0]]
    BY DEF NoPlan
  <2>2. 0 <= Cap(Details[w])
    BY DEF Cap
  <2> QED BY <2>1, <2>2
<1> QED BY <1>1, <1>2, <1>3

\* It is planned for in whatever state it is.
LEMMA NothingPlanned ==
  ASSUME NEW p, p.plan = NoPlan.plan, p.used = NoPlan.used
  PROVE  /\ Assigned(p) /\ Booked(p) /\ Near(p)
         /\ Assigned(p)' /\ Booked(p)' /\ Near(p)'
<1>1. DOMAIN p.plan = {} /\ p.plan = <<>>
  BY Nothing
<1>2. Assigned(p) /\ Near(p) /\ Assigned(p)' /\ Near(p)'
  BY <1>1 DEF Assigned, Near
<1>3. \A w, week : Mine(p, w, week) = {} /\ Mine(p, w, week)' = {}
  BY <1>1 DEF Mine
<1>4. Booked(p)
  <2>1. PICK q : q = db.queue
    OBVIOUS
  <2>2. \A w \in Workers : \A week \in Weeks :
          p.used[w][week] = HoursOver(q, {}) /\ p.used[w][week] <= Cap(Details[w])
    BY Nothing
  <2> QED BY <1>3, <2>1, <2>2 DEF Booked
<1>5. Booked(p)'
  <2>1. PICK q : q = db'.queue
    OBVIOUS
  <2>2. \A w \in Workers : \A week \in Weeks :
          p.used[w][week] = HoursOver(q, {}) /\ p.used[w][week] <= Cap(Details[w])
    BY Nothing
  <2> QED BY <1>3, <2>1, <2>2 DEF Booked
<1> QED BY <1>2, <1>4, <1>5

\* A planner that tries a shift and finds nobody.
LEMMA PassedPlanned ==
  ASSUME Control, NEW p, NEW stage, Fits(p), Planned(p, "plan", stage),
         NEW k \in p.todo, Candidates(p, k) = {}
  PROVE  Planned(Passed(p, k), "plan", stage)
<1> DEFINE r == Passed(p, k)
<1>1. r.todo = p.todo \ {k} /\ r.plan = p.plan /\ r.used = p.used
        /\ r.spent = p.spent /\ r.total = p.total /\ r.tenths = p.tenths
  BY DEF Passed
<1>2. \A x : Candidates(r, x) = Candidates(p, x)
  BY <1>1 DEF Candidates
<1> HIDE DEF r
<1>3. Assigned(r) /\ Near(r)
  BY <1>1 DEF Planned, Assigned, Near
<1>4. Booked(r)
  <2>1. \A w, week : Mine(r, w, week) = Mine(p, w, week)
    BY <1>1 DEF Mine
  <2> QED BY <1>1, <2>1 DEF Planned, Booked
<1>5. Hopeless(r, stage)
  BY <1>1, <1>2 DEF Planned, Tried, Hopeless
<1>6. r.todo \subseteq OpenShifts(stage) \ DOMAIN r.plan
  BY <1>1 DEF Planned, Tried
<1> QED BY <1>3, <1>4, <1>5, <1>6 DEF r, Planned, Tried

\* The fields of a planner that gives a shift away.
LEMMA GaveFields ==
  ASSUME Control, NEW p, Fits(p), NEW k \in p.todo, NEW w \in Workers, NEW r,
         r = Gave(p, k, w)
  PROVE  /\ r.todo = p.todo \ {k} /\ r.total = p.total /\ r.tenths = p.tenths
         /\ r.spent = p.spent + db.queue[k].slot.hours
         /\ DOMAIN r.plan = DOMAIN p.plan \cup {k} /\ r.plan[k] = w
         /\ \A x \in DOMAIN p.plan : x # k => r.plan[x] = p.plan[x]
         /\ r.used[w][db.queue[k].week] =
              p.used[w][db.queue[k].week] + db.queue[k].slot.hours
         /\ \A v \in Workers : \A week \in Weeks :
              (v # w \/ week # db.queue[k].week) =>
                 r.used[v][week] = p.used[v][week]
<1>1. p.used \in [Workers -> [Weeks -> Nat]] /\ k \in DOMAIN db.queue
  BY PlannerFields
<1>2. db.queue[k].week \in Weeks /\ db.queue[k].slot.hours \in Nat
  BY <1>1, Open
<1>3. r.used = [p.used EXCEPT ![w][db.queue[k].week] =
                                @ + db.queue[k].slot.hours]
  BY DEF Gave
<1>4. /\ r.used[w][db.queue[k].week] =
           p.used[w][db.queue[k].week] + db.queue[k].slot.hours
      /\ \A v \in Workers : \A week \in Weeks :
           (v # w \/ week # db.queue[k].week) => r.used[v][week] = p.used[v][week]
  BY <1>1, <1>2, <1>3, UsedUp
<1>5. r.plan = [x \in DOMAIN p.plan \cup {k} |-> IF x = k THEN w ELSE p.plan[x]]
  BY DEF Gave
<1>6. r.todo = p.todo \ {k} /\ r.total = p.total /\ r.tenths = p.tenths
        /\ r.spent = p.spent + db.queue[k].slot.hours
  BY DEF Gave
<1> QED BY <1>4, <1>5, <1>6

\* A planner that gives a shift to a worker with room for it.
LEMMA GavePlanned ==
  ASSUME Control, NEW p, NEW stage, Fits(p), Planned(p, "plan", stage),
         ~Reached(p), NEW k \in p.todo, NEW w \in Candidates(p, k)
  PROVE  Planned(Gave(p, k, w), "plan", stage)
<1> DEFINE hours == db.queue[k].slot.hours
           at == db.queue[k].week
<1>1. PICK r : r = Gave(p, k, w)
  OBVIOUS
<1>2. w \in Workers /\ <<w, db.queue[k].job>> \in db.works
        /\ p.used[w][at] + hours <= Cap(Details[w])
  BY DEF Candidates
<1>3. k \in OpenShifts(stage) /\ k \notin DOMAIN p.plan /\ k \in DOMAIN db.queue
        /\ DOMAIN p.plan \subseteq DOMAIN db.queue
  BY PlannerFields DEF Planned, Tried
<1>4. hours \in Nat /\ at \in Weeks /\ IsFiniteSet(DOMAIN db.queue)
        /\ \A x \in DOMAIN db.queue : db.queue[x].slot.hours \in Nat
  BY <1>3, Open
<1>5. /\ r.todo = p.todo \ {k} /\ r.total = p.total /\ r.tenths = p.tenths
      /\ r.spent = p.spent + hours
      /\ DOMAIN r.plan = DOMAIN p.plan \cup {k} /\ r.plan[k] = w
      /\ \A x \in DOMAIN p.plan : x # k => r.plan[x] = p.plan[x]
      /\ r.used[w][at] = p.used[w][at] + hours
      /\ \A v \in Workers : \A week \in Weeks :
           (v # w \/ week # at) => r.used[v][week] = p.used[v][week]
  BY <1>1, <1>2, GaveFields
<1>6. /\ p.used \in [Workers -> [Weeks -> Nat]]
      /\ p.spent \in Nat /\ p.total \in Nat /\ p.tenths \in {9, 10}
  BY PlannerFields
<1>7. Assigned(r)
  BY <1>2, <1>3, <1>5 DEF Assigned, Planned
<1>8. Near(r)
  <2>1. 10 * p.spent < p.tenths * p.total
    BY <1>6 DEF Reached
  <2>2. r.spent - hours = p.spent
    BY <1>4, <1>5, <1>6
  <2> QED BY <1>5, <2>1, <2>2 DEF Near
<1>9. Booked(r)
  <2> SUFFICES ASSUME NEW v \in Workers, NEW week \in Weeks
               PROVE  /\ r.used[v][week] = HoursOver(db.queue, Mine(r, v, week))
                      /\ r.used[v][week] <= Cap(Details[v])
    BY DEF Booked
  <2>1. Mine(p, v, week) \in SUBSET DOMAIN db.queue /\ k \notin Mine(p, v, week)
    BY <1>3 DEF Mine
  <2>2. /\ p.used[v][week] = HoursOver(db.queue, Mine(p, v, week))
        /\ p.used[v][week] <= Cap(Details[v])
    BY DEF Planned, Booked
  <2>3. CASE v = w /\ week = at
    <3>1. Mine(r, v, week) = Mine(p, v, week) \cup {k}
      BY <1>3, <1>5, <2>3 DEF Mine
    <3>2. HoursOver(db.queue, Mine(p, v, week) \cup {k}) =
            HoursOver(db.queue, Mine(p, v, week)) + hours
      BY <1>3, <1>4, <2>1, HoursFacts
    <3> QED BY <1>2, <1>5, <2>2, <2>3, <3>1, <3>2
  <2>4. CASE v # w \/ week # at
    <3>1. Mine(r, v, week) = Mine(p, v, week)
      BY <1>3, <1>5, <2>4 DEF Mine
    <3> QED BY <1>5, <2>2, <2>4, <3>1
  <2> QED BY <2>3, <2>4
<1>10. \A x \in DOMAIN db.queue : Candidates(r, x) \subseteq Candidates(p, x)
  <2> TAKE x \in DOMAIN db.queue
  <2>1. db.queue[x].week \in Weeks /\ db.queue[x].slot.hours \in Nat
    BY Open
  <2>2. ASSUME NEW v \in Workers
        PROVE  p.used[v][db.queue[x].week] <= r.used[v][db.queue[x].week]
    <3>1. p.used[v][db.queue[x].week] \in Nat /\ p.used[w][at] \in Nat
      BY <1>2, <1>4, <1>6, <2>1
    <3> QED BY <1>4, <1>5, <2>1, <3>1
  <2>3. ASSUME NEW v \in Candidates(r, x) PROVE v \in Candidates(p, x)
    <3>1. v \in Workers /\ <<v, db.queue[x].job>> \in db.works
            /\ r.used[v][db.queue[x].week] + db.queue[x].slot.hours
                 <= Cap(Details[v])
      BY <2>3 DEF Candidates
    <3>2. p.used[v][db.queue[x].week] \in Nat /\ Cap(Details[v]) \in Nat
            /\ r.used[v][db.queue[x].week] \in Nat
      <4>1. Cap(Details[v]) \in Nat
        BY DEF Cap
      <4> QED BY <1>2, <1>4, <1>5, <1>6, <2>1, <3>1, <4>1
    <3>3. p.used[v][db.queue[x].week] + db.queue[x].slot.hours
            <= Cap(Details[v])
      BY <2>1, <2>2, <3>1, <3>2
    <3> QED BY <3>1, <3>3 DEF Candidates
  <2> QED BY <2>3
<1>11. Hopeless(r, stage)
  <2>1. \A x \in OpenShifts(stage) \ (DOMAIN p.plan \cup p.todo) : Candidates(p, x) = {}
    BY DEF Planned, Tried, Hopeless
  <2>2. OpenShifts(stage) \subseteq DOMAIN db.queue
    BY Open
  <2> QED BY <1>5, <1>10, <2>1, <2>2 DEF Hopeless
<1>12. r.todo \subseteq OpenShifts(stage) \ DOMAIN r.plan
  BY <1>5 DEF Planned, Tried
<1> QED BY <1>1, <1>7, <1>8, <1>9, <1>11, <1>12 DEF Planned, Tried

\* The loop ends.
LEMMA DonePlanned ==
  ASSUME Control, NEW p, NEW stage, Planned(p, "plan", stage),
         Reached(p) \/ p.todo = {}, NEW r,
         r = [todo |-> DOMAIN p.plan, plan |-> p.plan, used |-> p.used,
              spent |-> p.spent, total |-> p.total, tenths |-> p.tenths]
  PROVE  Planned(r, "write", stage)
<1>1. r.plan = p.plan /\ r.used = p.used /\ r.spent = p.spent
        /\ r.total = p.total /\ r.tenths = p.tenths
  OBVIOUS
<1>2. \A x : Candidates(r, x) = Candidates(p, x)
  BY <1>1 DEF Candidates
<1>3. Assigned(r) /\ Near(r)
  BY <1>1 DEF Planned, Assigned, Near
<1>4. Booked(r)
  <2>1. \A w, week : Mine(r, w, week) = Mine(p, w, week)
    BY <1>1 DEF Mine
  <2> QED BY <1>1, <2>1 DEF Planned, Booked
<1>5. Reached(r) \/ \A k \in OpenShifts(stage) \ DOMAIN r.plan : Candidates(r, k) = {}
  <2>1. CASE Reached(p)
    BY <1>1, <2>1 DEF Reached
  <2>2. CASE p.todo = {}
    BY <1>1, <1>2, <2>2 DEF Planned, Tried, Hopeless
  <2> QED BY <2>1, <2>2
<1> QED BY <1>3, <1>4, <1>5 DEF Planned, Tried

\* One shift of the plan is written: its worker is all that changes.
LEMMA WrittenPlanned ==
  ASSUME Control, NEW p, NEW stage, Fits(p), Planned(p, "write", stage),
         NEW k \in DOMAIN db.queue, k \in DOMAIN p.plan, NEW w \in Workers,
         db' = db \/ db' = [db EXCEPT !.queue[k].worker = w]
  PROVE  Planned(p, "write", stage)'
<1> DEFINE q == db'.queue
<1>1. /\ DOMAIN q = DOMAIN db.queue /\ db'.works = db.works
      /\ \A x \in DOMAIN db.queue : x # k => q[x] = db.queue[x]
      /\ \A x \in DOMAIN db.queue :
           /\ q[x].job = db.queue[x].job /\ q[x].slot = db.queue[x].slot
           /\ q[x].week = db.queue[x].week
  <2>1. CASE db' = db
    BY <2>1
  <2>2. CASE db' = [db EXCEPT !.queue[k].worker = w]
    BY <2>2, Updated
  <2> QED BY <2>1, <2>2
<1>2. DOMAIN p.plan \subseteq DOMAIN db.queue /\ IsFiniteSet(DOMAIN db.queue)
  BY PlannerFields, Open
<1> HIDE DEF q
<1>3. Assigned(p)'
  BY <1>1, <1>2 DEF Assigned, Planned, q
<1>4. Near(p)'
  <2>1. \A x \in DOMAIN p.plan : q[x].slot = db.queue[x].slot
    BY <1>1, <1>2
  <2> QED BY <2>1 DEF Near, Planned, q
<1>5. Booked(p)'
  <2> SUFFICES ASSUME NEW v \in Workers, NEW week \in Weeks
               PROVE  /\ p.used[v][week] = HoursOver(q, Mine(p, v, week)')
                      /\ p.used[v][week] <= Cap(Details[v])
    BY DEF Booked, q
  <2>1. Mine(p, v, week)' = Mine(p, v, week)
    BY <1>1, <1>2 DEF Mine, q
  <2>2. IsFiniteSet(Mine(p, v, week)) /\ Mine(p, v, week) \subseteq DOMAIN db.queue
    <3>1. Mine(p, v, week) \subseteq DOMAIN db.queue
      BY <1>2 DEF Mine
    <3> QED BY <1>2, <3>1, FS_Subset
  <2>3. HoursOver(q, Mine(p, v, week)) = HoursOver(db.queue, Mine(p, v, week))
    <3>1. \A x \in Mine(p, v, week) : q[x].slot.hours = db.queue[x].slot.hours
      BY <1>1, <2>2
    <3> QED BY <2>2, <3>1, HoursSame
  <2> QED BY <2>1, <2>3 DEF Planned, Booked
<1>6. \A x \in DOMAIN db.queue : Candidates(p, x)' = Candidates(p, x)
  BY <1>1 DEF Candidates, q
<1>7. \A x \in OpenShifts(stage)' \ DOMAIN p.plan :
        x \in OpenShifts(stage) \ DOMAIN p.plan
  BY <1>1 DEF OpenShifts, AnyShift, q
<1>8. Reached(p)' \/ \A x \in OpenShifts(stage)' \ DOMAIN p.plan :
                       Candidates(p, x)' = {}
  <2>1. \/ Reached(p)
        \/ \A x \in OpenShifts(stage) \ DOMAIN p.plan : Candidates(p, x) = {}
    BY DEF Planned, Tried
  <2>2. OpenShifts(stage) \subseteq DOMAIN db.queue
    BY Open
  <2> QED BY <1>6, <1>7, <2>1, <2>2 DEF Reached
<1> QED BY <1>3, <1>4, <1>5, <1>8 DEF Planned, Tried

\* The tables stay as they are.
LEMMA SameTables ==
  ASSUME UNCHANGED db, NEW p, NEW pc, NEW stage, Planned(p, pc, stage)
  PROVE  Planned(p, pc, stage)'
<1>1. Assigned(p)'
  BY DEF Planned, Assigned
<1>2. Booked(p)'
  BY DEF Planned, Booked, Mine
<1>3. Near(p)'
  BY DEF Planned, Near
<1>4. OpenShifts(stage)' = OpenShifts(stage)
  BY DEF OpenShifts, AnyShift
<1>5. \A x : Candidates(p, x)' = Candidates(p, x)
  BY DEF Candidates
<1>6. Tried(p, pc, stage)'
  BY <1>4, <1>5 DEF Planned, Tried, Hopeless, Reached
<1> QED BY <1>1, <1>2, <1>3, <1>6 DEF Planned

\* Every step keeps the planner's invariant.
LEMMA PlanStep ==
  ASSUME Control, [Next]_vars, PlanInv PROVE PlanInv'
<1>1. PICK pl : pl = boot.planner
  OBVIOUS
<1>2. PICK stage : stage = Stages[boot.stage]
  OBVIOUS
<1>3. Control' /\ Planned(pl, boot.pc, stage)
  BY <1>1, <1>2, NextControls DEF PlanInv
<1>4. CASE boot'.pc \notin {"plan", "write"}
  <2>1. PICK p : p = NoPlan
    OBVIOUS
  <2>2. Assigned(p)' /\ Booked(p)' /\ Near(p)'
    BY <2>1, NothingPlanned
  <2>3. boot'.planner = p
    BY <1>3, <1>4, <2>1 DEF Control, Held
  <2> QED BY <1>4, <2>2, <2>3 DEF PlanInv, Planned, Tried
<1>5. CASE BeginPlan
  <2>1. PICK n : n = HoursIn(OpenShifts(stage))
    OBVIOUS
  <2>2. PICK t : t = IF stage = "guards" THEN 10 ELSE 9
    OBVIOUS
  <2>3. PICK open : open = OpenShifts(stage)
    OBVIOUS
  <2>4. /\ boot.pc = "begin" /\ UNCHANGED db
        /\ boot' = [boot EXCEPT !.pc = "plan", !.planner.todo = open,
                                !.planner.total = n, !.planner.tenths = t]
    BY <1>2, <1>5, <2>1, <2>2, <2>3 DEF BeginPlan
  <2>5. pl = NoPlan
    BY <1>1, <2>4 DEF Control, Held
  <2>6. PICK p : p = [todo |-> open, plan |-> NoPlan.plan, used |-> NoPlan.used,
                      spent |-> 0, total |-> n, tenths |-> t]
    OBVIOUS
  <2>7. boot'.planner = p /\ boot'.pc = "plan" /\ boot'.stage = boot.stage
    <3>1. PICK a, b, c, e, f, g :
            boot = [pc |-> a, stage |-> b, script |-> c, planner |-> NoPlan,
                    subjects |-> e, subject |-> f, count |-> g]
      BY <1>1, <2>5, Fields
    <3> QED BY <2>4, <2>6, <3>1, NoPlanType
  <2>8. p.plan = NoPlan.plan /\ p.used = NoPlan.used /\ p.todo = open
    BY <2>6
  <2>9. Assigned(p)' /\ Booked(p)' /\ Near(p)' /\ DOMAIN p.plan = {}
    BY <2>8, NothingPlanned, NoPlanType
  <2>10. OpenShifts(stage)' = open
    BY <2>3, <2>4 DEF OpenShifts, AnyShift
  <2>11. Tried(p, "plan", stage)'
    BY <2>8, <2>9, <2>10 DEF Tried, Hopeless
  <2>12. Stages[boot'.stage] = stage
    BY <1>2, <2>7
  <2> QED BY <2>7, <2>9, <2>11, <2>12 DEF PlanInv, Planned
<1>6. CASE PlanShift
  <2>1. /\ UNCHANGED db /\ boot.pc = "plan" /\ ~Reached(pl)
        /\ \E k \in pl.todo :
             \/ Candidates(pl, k) = {} /\ boot' = With("plan", Passed(pl, k))
             \/ \E w \in Candidates(pl, k) : boot' = With("plan", Gave(pl, k, w))
    BY <1>1, <1>6, Turned
  <2>2. Fits(pl) /\ Planned(pl, "plan", stage)
    BY <1>1, <1>3, <2>1, Working
  <2>3. PICK p : boot' = With("plan", p) /\ Planned(p, "plan", stage)
    BY <2>1, <2>2, PassedPlanned, GavePlanned
  <2>4. Planned(p, "plan", stage)'
    BY <2>1, <2>3, SameTables
  <2>5. boot'.planner = p /\ boot'.pc = "plan" /\ boot'.stage = boot.stage
    BY <2>3 DEF With
  <2>6. Stages[boot'.stage] = stage
    BY <1>2, <2>5
  <2> QED BY <2>4, <2>5, <2>6 DEF PlanInv
<1>7. CASE PlanDone
  <2>1. /\ boot.pc = "plan" /\ (Reached(pl) \/ pl.todo = {}) /\ UNCHANGED db
        /\ boot' = [boot EXCEPT !.pc = "write", !.planner.todo = DOMAIN pl.plan]
    BY <1>1, <1>7 DEF PlanDone
  <2>2. PICK p : p = [todo |-> DOMAIN pl.plan, plan |-> pl.plan, used |-> pl.used,
                      spent |-> pl.spent, total |-> pl.total, tenths |-> pl.tenths]
    OBVIOUS
  <2>3. Planned(p, "write", stage)
    BY <1>3, <2>1, <2>2, DonePlanned
  <2>4. Planned(p, "write", stage)'
    BY <2>1, <2>3, SameTables
  <2>5. boot'.planner = p /\ boot'.pc = "write" /\ boot'.stage = boot.stage
    <3>1. PICK r : r = [pl EXCEPT !.todo = DOMAIN pl.plan]
      OBVIOUS
    <3>2. pl = [todo |-> pl.todo, plan |-> pl.plan, used |-> pl.used,
                spent |-> pl.spent, total |-> pl.total, tenths |-> pl.tenths]
      BY <1>1, <2>1, Working, PlannerFields
    <3>3. r = p
      BY <2>2, <3>1, <3>2
    <3>4. boot' = [boot EXCEPT !.pc = "write", !.planner = r]
      BY <1>1, <2>1, <3>1
    <3>5. PICK a, b, c, d, e, f, g :
            boot = [pc |-> a, stage |-> b, script |-> c, planner |-> d,
                    subjects |-> e, subject |-> f, count |-> g]
      BY Fields
    <3> QED BY <3>3, <3>4, <3>5
  <2>6. Stages[boot'.stage] = stage
    BY <1>2, <2>5
  <2> QED BY <2>4, <2>5, <2>6 DEF PlanInv
<1>8. CASE WriteShift
  <2>1. PICK k \in pl.todo :
          /\ boot' = With("write", Passed(pl, k)) /\ boot.pc = "write"
          /\ k \in DOMAIN pl.plan /\ k \in DOMAIN db.queue
          /\ pl.plan[k] \in Workers
          /\ db' = db \/ db' = [db EXCEPT !.queue[k].worker = pl.plan[k]]
    BY <1>1, <1>8, Written
  <2>2. Fits(pl) /\ Planned(pl, "write", stage)
    BY <1>1, <1>3, <2>1, Working
  <2>3. Planned(pl, "write", stage)'
    <3>1. PICK w \in Workers : w = pl.plan[k]
      BY <2>1
    <3>2. db' = db \/ db' = [db EXCEPT !.queue[k].worker = w]
      BY <2>1, <3>1
    <3> QED BY <2>1, <2>2, <3>2, WrittenPlanned
  <2>4. PICK p : p = Passed(pl, k)
    OBVIOUS
  <2>5. p.plan = pl.plan /\ p.used = pl.used /\ p.spent = pl.spent
          /\ p.total = pl.total /\ p.tenths = pl.tenths
    BY <2>4 DEF Passed
  <2>6. Planned(p, "write", stage)'
    BY <2>3, <2>5 DEF Planned, Assigned, Booked, Near, Tried, Mine,
                      Candidates, Reached
  <2>7. boot'.planner = p /\ boot'.pc = "write" /\ boot'.stage = boot.stage
    BY <2>1, <2>4 DEF With
  <2>8. Stages[boot'.stage] = stage
    BY <1>2, <2>7
  <2> QED BY <2>6, <2>7, <2>8 DEF PlanInv
<1>9. CASE UNCHANGED vars
  <2>1. UNCHANGED <<db, boot>>
    BY <1>9 DEF vars
  <2>2. Planned(pl, boot.pc, stage)'
    <3>1. PICK pc : pc = boot.pc
      OBVIOUS
    <3>2. Planned(pl, pc, stage)'
      BY <1>3, <2>1, <3>1, SameTables
    <3> QED BY <2>1, <3>1, <3>2
  <2> QED BY <1>1, <1>2, <2>1, <2>2 DEF PlanInv
<1> QED BY <1>4, <1>5, <1>6, <1>7, <1>8, <1>9, Apart

\* Before the first boot there is no plan.
LEMMA PlanInit == ASSUME Init PROVE PlanInv
<1>1. boot.planner = NoPlan /\ boot.pc = "down"
  BY DEF Init, At
<1>2. PICK p : p = NoPlan
  OBVIOUS
<1>3. Assigned(p) /\ Booked(p) /\ Near(p)
  BY <1>2, NothingPlanned
<1> QED BY <1>1, <1>2, <1>3 DEF PlanInv, Planned, Tried

\* The planner's invariant holds in every reachable state.
THEOREM AlwaysPlanned == Spec => []PlanInv
  BY PlanInit, AlwaysControl, PlanStep, PTL DEF Spec

\* planAssignments gives no worker more hours than the weekly cap in either
\* week, whatever the order of the shuffles, the files and the earlier boots.
THEOREM PlanAlwaysWithinCap == Spec => []PlanWithinCap
<1>1. PlanInv => PlanWithinCap
  <2> SUFFICES ASSUME PlanInv, NEW w \in Workers, NEW week \in Weeks
               PROVE  HoursFor(w, week, LAMBDA k : boot.planner.plan[k],
                               DOMAIN boot.planner.plan) <= Cap(Details[w])
    BY DEF PlanWithinCap
  <2>1. HoursFor(w, week, LAMBDA k : boot.planner.plan[k],
                 DOMAIN boot.planner.plan) =
          HoursOver(db.queue, Mine(boot.planner, w, week))
    BY DEF HoursFor, HoursIn, HoursOver, Mine
  <2> QED BY <2>1 DEF PlanInv, Planned, Booked
<1> QED BY <1>1, AlwaysPlanned, PTL

\* The planner stops as soon as its target is reached, and short of it only
\* when no open shift is left that a qualified worker has room for.
THEOREM PlanAlwaysMeetsTarget == Spec => []PlanMeetsTarget
<1>1. PlanInv => PlanMeetsTarget
  BY DEF PlanInv, Planned, Near, Tried, Reached, PlanMeetsTarget
<1> QED BY <1>1, AlwaysPlanned, PTL

\* Seeding takes no shift from the worker who holds it, and gives one only to a
\* worker of its job.
THEOREM HoldersAlwaysStay == Spec => HoldersStay
<1> DEFINE Keeps == \A k \in DOMAIN db.queue :
              db'.queue[k].worker # db.queue[k].worker =>
                /\ db.queue[k].worker = NULL
                /\ <<db'.queue[k].worker, db.queue[k].job>> \in db.works
<1>1. ASSUME Control, PlanInv, [Next]_vars PROVE Keeps
  <2>1. CASE UNCHANGED db.queue
    BY <2>1
  <2>2. ASSUME NEW st \in Statements, db'.queue = Append(db.queue, RowOf(st))
        PROVE  Keeps
    <3> DEFINE row == RowOf(st)
    <3>1. db.queue \in Seq(Shift) /\ DOMAIN db.queue = 1..Len(db.queue)
            /\ Len(db.queue) \in Nat
      BY <1>1, Open, LenProperties
    <3>2. row \in Shift \cup {row} /\ db.queue \in Seq(Shift \cup {row})
      BY <3>1, SeqMonotonic
    <3>3. db'.queue = Append(db.queue, row)
      BY <2>2
    <3> HIDE DEF row
    <3>4. \A k \in DOMAIN db.queue : db'.queue[k] = db.queue[k]
      BY <3>1, <3>2, <3>3, AppendProperties
    <3> QED BY <3>4
  <2>3. CASE WriteShift
    <3>1. PICK pl : pl = boot.planner
      OBVIOUS
    <3>2. PICK k \in pl.todo :
            /\ k \in DOMAIN pl.plan /\ k \in DOMAIN db.queue
            /\ pl.plan[k] \in Workers
            /\ \/ db' = db
               \/ /\ db' = [db EXCEPT !.queue[k].worker = pl.plan[k]]
                  /\ db.queue[k].worker = NULL
      BY <1>1, <2>3, <3>1, Written
    <3>3. CASE db' = db
      BY <3>3
    <3>4. CASE /\ db' = [db EXCEPT !.queue[k].worker = pl.plan[k]]
               /\ db.queue[k].worker = NULL
      <4>1. PICK w \in Workers : w = pl.plan[k]
        BY <3>2
      <4>2. db'.queue[k].worker = w
              /\ \A x \in DOMAIN db.queue : x # k => db'.queue[x] = db.queue[x]
        BY <1>1, <3>2, <3>4, <4>1, Updated
      <4>3. <<w, db.queue[k].job>> \in db.works
        BY <1>1, <3>1, <3>2, <4>1 DEF PlanInv, Planned, Assigned
      <4> QED BY <3>4, <4>2, <4>3
    <3> QED BY <3>2, <3>3, <3>4
  <2> QED BY <1>1, <2>1, <2>2, <2>3, QueueSteps
<1>2. Control /\ PlanInv /\ [Next]_vars => [Keeps]_vars
  BY <1>1
<1>3. [][Keeps]_vars => HoldersStay
  BY PTL DEF HoldersStay
<1> QED BY <1>2, <1>3, AlwaysControl, AlwaysPlanned, PTL DEF Spec
-----------------------------------------------------------------------------
(***************************************************************************)
(* The statements of a file's rows, in the order the file has them.        *)
(***************************************************************************)
\* Does the statement insert the user of its row?  The script s inserts the
\* user p, or has one of the operations ops for it.
Making(st)         == st.op \in {"user", "staff_user"}
Makes(s, p)        == \E k \in DOMAIN s : Making(s[k]) /\ s[k].row = p
Waiting(ops, p, s) == \E k \in DOMAIN s : s[k].op \in ops /\ s[k].row = p

\* What a script of rows keeps to, while made are the users that exist: a row's
\* user is inserted before anything else of the row but its department, and once;
\* a row's statements stand together; and only the row the script is at has a
\* user.
Opening(st)     == st.op = "department"
Fresh(s, made)  == \A k \in DOMAIN s : Making(s[k]) => s[k].row \notin made
First(s)        == \A j, k \in DOMAIN s :
                     Making(s[j]) /\ s[j].row = s[k].row /\ ~Opening(s[k]) =>
                       j <= k
Begun(s, made)  == \A k \in DOMAIN s : s[k].row \in made \/ Makes(s, s[k].row)
Together(s)     == \A i, j, k \in DOMAIN s :
                     i < j /\ j < k /\ s[i].row = s[k].row => s[j].row = s[i].row
AtHead(s, made) == \A k \in DOMAIN s : s[k].row \in made => s[k].row = s[1].row
Shape(s, made)  == /\ Fresh(s, made) /\ First(s) /\ Begun(s, made)
                   /\ Together(s) /\ AtHead(s, made)

\* t is what is left of s after its first statement, by the positions f: the
\* other rows are whole.
Thinned(s, t, f) ==
  /\ \A i \in DOMAIN t : /\ f[i] \in DOMAIN s /\ f[i] # 1 /\ t[i] = s[f[i]]
  /\ \A i, j \in DOMAIN t : i < j => f[i] < f[j]
  /\ \A k \in DOMAIN s : s[k].row # s[1].row => \E i \in DOMAIN t : f[i] = k

\* A script that is a sequence has its positions in order.
LEMMA Positions ==
  ASSUME NEW S, NEW s \in Seq(S)
  PROVE  /\ DOMAIN s = 1..Len(s) /\ Len(s) \in Nat
         /\ \A k \in DOMAIN s : k \in Nat /\ 1 <= k /\ 1 \in DOMAIN s
<1>1. DOMAIN s = 1..Len(s) /\ Len(s) \in Nat
  BY LenProperties
<1> QED BY <1>1

\* What is left of an orderly script is orderly, when the users made meanwhile
\* are the one of its first statement or none, and what is left of its row has
\* its user.
LEMMA ShapeThin ==
  ASSUME NEW S, NEW s \in Seq(S), NEW t \in Seq(S), NEW f, Thinned(s, t, f),
         NEW made, NEW now, Shape(s, made),
         made \subseteq now, now \subseteq made \cup {s[1].row},
         Opening(s[1]) => now = made,
         \A i \in DOMAIN t : (Making(s[1]) \/ Opening(s[1]))
                                 /\ t[i].row = s[1].row =>
                               s[1].row \in now \/ Makes(t, s[1].row)
  PROVE  Shape(t, now)
<1> DEFINE p == s[1].row
<1>0. /\ \A i \in DOMAIN t : /\ f[i] \in DOMAIN s /\ f[i] # 1 /\ t[i] = s[f[i]]
                             /\ f[i] \in Nat /\ 1 < f[i] /\ i \in Nat
                             /\ 1 \in DOMAIN s /\ 1 \in DOMAIN t /\ 1 <= i
      /\ \A i, j \in DOMAIN t : i < j => f[i] < f[j]
      /\ \A k \in DOMAIN s : s[k].row # p => \E i \in DOMAIN t : f[i] = k
  BY Positions DEF Thinned
<1>1. Fresh(t, now)
  <2> SUFFICES ASSUME NEW i \in DOMAIN t, Making(t[i]) PROVE t[i].row \notin now
    BY DEF Fresh
  <2>1. Making(s[f[i]]) /\ s[f[i]].row \notin made /\ t[i] = s[f[i]]
    BY <1>0 DEF Shape, Fresh
  <2>2. s[f[i]].row # p \/ Opening(s[1])
    <3>1. s[f[i]].row = s[1].row /\ ~Opening(s[1]) => f[i] <= 1
      BY <1>0, <2>1 DEF Shape, First
    <3> QED BY <1>0, <3>1
  <2> QED BY <2>1, <2>2
<1>2. First(t)
  <2> SUFFICES ASSUME NEW j \in DOMAIN t, NEW k \in DOMAIN t,
                      Making(t[j]), t[j].row = t[k].row, ~Opening(t[k])
               PROVE  j <= k
    BY DEF First
  <2>1. f[j] <= f[k]
    <3>1. Making(s[f[j]]) /\ s[f[j]].row = s[f[k]].row /\ ~Opening(s[f[k]])
            /\ f[j] \in DOMAIN s /\ f[k] \in DOMAIN s
      BY <1>0
    <3> QED BY <3>1 DEF Shape, First
  <2>2. k < j => f[k] < f[j]
    BY <1>0
  <2>3. j \in Nat /\ k \in Nat /\ f[j] \in Nat /\ f[k] \in Nat
    BY <1>0
  <2> QED BY <2>1, <2>2, <2>3
<1>3. Begun(t, now)
  <2> SUFFICES ASSUME NEW k \in DOMAIN t
               PROVE  t[k].row \in now \/ Makes(t, t[k].row)
    BY DEF Begun
  <2>1. f[k] \in DOMAIN s /\ t[k] = s[f[k]] /\ 1 \in DOMAIN s
    BY <1>0
  <2>2. s[f[k]].row \in made \/ Makes(s, s[f[k]].row)
    BY <2>1 DEF Shape, Begun
  <2>3. CASE t[k].row = p
    <3>1. CASE Makes(s, p)
      <4>1. PICK j \in DOMAIN s : Making(s[j]) /\ s[j].row = p
        BY <3>1 DEF Makes
      <4>2. j \in Nat /\ 1 <= j /\ (Opening(s[1]) \/ j <= 1)
        BY <2>1, <4>1, Positions DEF Shape, First
      <4>3. j = 1 \/ Opening(s[1])
        BY <4>2
      <4> QED BY <2>3, <4>1, <4>3
    <3> QED BY <2>1, <2>2, <2>3, <3>1
  <2>4. CASE t[k].row # p
    <3>1. s[f[k]].row \notin made
      BY <2>1, <2>4 DEF Shape, AtHead
    <3>2. PICK j \in DOMAIN s : Making(s[j]) /\ s[j].row = t[k].row
      BY <2>1, <2>2, <3>1 DEF Makes
    <3>3. PICK i \in DOMAIN t : f[i] = j
      BY <1>0, <2>4, <3>2
    <3>4. Making(t[i]) /\ t[i].row = t[k].row
      BY <1>0, <3>2, <3>3
    <3> QED BY <3>4 DEF Makes
  <2> QED BY <2>3, <2>4
<1>4. Together(t)
  <2> SUFFICES ASSUME NEW i \in DOMAIN t, NEW j \in DOMAIN t, NEW k \in DOMAIN t,
                      i < j, j < k, t[i].row = t[k].row
               PROVE  t[j].row = t[i].row
    BY DEF Together
  <2>1. /\ f[i] \in DOMAIN s /\ f[j] \in DOMAIN s /\ f[k] \in DOMAIN s
        /\ f[i] < f[j] /\ f[j] < f[k]
        /\ t[i] = s[f[i]] /\ t[j] = s[f[j]] /\ t[k] = s[f[k]]
    BY <1>0
  <2> QED BY <2>1 DEF Shape, Together
<1>5. AtHead(t, now)
  <2> SUFFICES ASSUME NEW k \in DOMAIN t, t[k].row \in now
               PROVE  t[k].row = t[1].row
    BY DEF AtHead
  <2>1. /\ f[k] \in DOMAIN s /\ f[1] \in DOMAIN s /\ 1 \in DOMAIN s
        /\ t[k] = s[f[k]] /\ t[1] = s[f[1]]
        /\ 1 < f[1] /\ f[1] \in Nat /\ f[k] \in Nat
        /\ (1 < k => f[1] < f[k]) /\ k \in Nat /\ 1 <= k
    BY <1>0
  <2>2. s[f[k]].row = p
    BY <2>1 DEF Shape, AtHead
  <2>3. CASE k = 1
    BY <2>3
  <2>4. CASE k # 1
    <3>1. 1 < f[1] /\ f[1] < f[k] /\ s[1].row = s[f[k]].row
      BY <2>1, <2>2, <2>4
    <3>2. s[f[1]].row = s[1].row
      BY <2>1, <3>1 DEF Shape, Together
    <3> QED BY <2>1, <2>2, <3>2
  <2> QED BY <2>3, <2>4
<1> QED BY <1>1, <1>2, <1>3, <1>4, <1>5 DEF Shape

\* What an orderly script still makes, it makes after its first statement, but
\* for the row of that one.
LEMMA ThinMakes ==
  ASSUME NEW S, NEW s \in Seq(S), NEW t \in Seq(S), NEW f, Thinned(s, t, f),
         NEW made, Shape(s, made), NEW p
  PROVE  /\ Makes(t, p) => Makes(s, p) /\ (p # s[1].row \/ Opening(s[1]))
         /\ p # s[1].row /\ Makes(s, p) => Makes(t, p)
         /\ \A ops : p # s[1].row /\ Waiting(ops, p, s) => Waiting(ops, p, t)
<1>1. ASSUME Makes(t, p) PROVE Makes(s, p) /\ (p # s[1].row \/ Opening(s[1]))
  <2>1. PICK i \in DOMAIN t : Making(t[i]) /\ t[i].row = p
    BY <1>1 DEF Makes
  <2>2. f[i] \in DOMAIN s /\ f[i] # 1 /\ t[i] = s[f[i]]
    BY DEF Thinned
  <2>3. 1 \in DOMAIN s /\ f[i] \in Nat /\ 1 <= f[i]
    BY <2>2, Positions
  <2>4. s[f[i]].row = s[1].row /\ ~Opening(s[1]) => f[i] <= 1
    BY <2>1, <2>2, <2>3 DEF Shape, First
  <2>5. p # s[1].row \/ Opening(s[1])
    BY <2>1, <2>2, <2>3, <2>4
  <2> QED BY <2>1, <2>2, <2>5 DEF Makes
<1>2. ASSUME NEW k \in DOMAIN s, s[k].row = p, p # s[1].row
      PROVE  \E i \in DOMAIN t : t[i] = s[k]
  BY <1>2 DEF Thinned
<1> QED BY <1>1, <1>2 DEF Makes, Waiting

\* A script without its first statement.
LEMMA TailThin ==
  ASSUME NEW S, NEW s \in Seq(S), s # <<>>
  PROVE  \E f : /\ Thinned(s, Tail(s), f)
                /\ \A k \in DOMAIN s : k # 1 => /\ k-1 \in DOMAIN Tail(s)
                                               /\ s[k] = Tail(s)[k-1]
                /\ \A i \in DOMAIN Tail(s) : f[i] = i+1
<1> DEFINE f == [i \in DOMAIN Tail(s) |-> i+1]
<1>1. /\ Tail(s) \in Seq(S) /\ Len(Tail(s)) = Len(s) - 1
      /\ \A i \in 1..Len(Tail(s)) : Tail(s)[i] = s[i+1]
  BY HeadTailProperties
<1>2. /\ DOMAIN Tail(s) = 1..Len(Tail(s)) /\ DOMAIN s = 1..Len(s)
      /\ Len(s) \in Nat
  BY <1>1, LenProperties
<1>3. \A i \in DOMAIN Tail(s) : f[i] = i+1 /\ i+1 \in DOMAIN s /\ i \in Nat
                                /\ 1 <= i /\ Tail(s)[i] = s[f[i]]
  BY <1>1, <1>2
<1>4. \A k \in DOMAIN s : k # 1 =>
        k-1 \in DOMAIN Tail(s) /\ s[k] = Tail(s)[k-1] /\ (k-1)+1 = k
  BY <1>1, <1>2
<1> HIDE DEF f
<1>5. \A i \in DOMAIN Tail(s) : f[i] \in DOMAIN s /\ f[i] # 1 /\ Tail(s)[i] = s[f[i]]
  BY <1>3
<1>6. \A i, j \in DOMAIN Tail(s) : i < j => f[i] < f[j]
  BY <1>3
<1>7. \A k \in DOMAIN s : s[k].row # s[1].row => \E i \in DOMAIN Tail(s) : f[i] = k
  <2> SUFFICES ASSUME NEW k \in DOMAIN s, s[k].row # s[1].row
               PROVE  \E i \in DOMAIN Tail(s) : f[i] = k
    OBVIOUS
  <2>1. k-1 \in DOMAIN Tail(s) /\ (k-1)+1 = k
    BY <1>4
  <2>2. f[k-1] = k
    BY <1>3, <2>1
  <2> QED BY <2>1, <2>2
<1>8. Thinned(s, Tail(s), f)
  BY <1>5, <1>6, <1>7 DEF Thinned
<1>9. \A k \in DOMAIN s : k # 1 => k-1 \in DOMAIN Tail(s) /\ s[k] = Tail(s)[k-1]
  BY <1>4
<1>10. \A i \in DOMAIN Tail(s) : f[i] = i+1
  BY <1>3
<1> QED BY <1>8, <1>9, <1>10, Zenon

\* What StatementFails leaves of the script of a file: nothing of a row whose user
\* was not inserted, and every other row whole.
LEMMA AfterErrorThin ==
  ASSUME Control, boot.stage \in {3, 5}, NEW S, NEW s \in Seq(S), s # <<>>,
         s[1].op \in OpsOf(Stages[boot.stage])
  PROVE  \E f : /\ Thinned(s, AfterError(Head(s), Tail(s)), f)
                /\ \A i \in DOMAIN AfterError(Head(s), Tail(s)) :
                     Making(s[1]) \/ Opening(s[1]) => s[f[i]].row # s[1].row
<1> DEFINE st == Head(s)
           rest == Tail(s)
           out == AfterError(st, rest)
<1>1. rest \in Seq(S) /\ st = s[1]
  BY HeadTailProperties
<1>2. PICK g : /\ Thinned(s, rest, g)
               /\ \A k \in DOMAIN s : k # 1 => /\ k-1 \in DOMAIN rest
                                              /\ s[k] = rest[k-1]
               /\ \A i \in DOMAIN rest : g[i] = i+1
  BY TailThin
<1>3. \A i \in DOMAIN rest : i \in Nat
  BY <1>1, Positions
<1> HIDE DEF rest, st
<1>4. ASSUME NEW ss, NEW f, Follows(FlattenSeq(ss), rest, ss, f),
             \A k \in DOMAIN rest : rest[k].row # st.row => ss[k] # <<>>
      PROVE  \E h : /\ Thinned(s, FlattenSeq(ss), h)
                    /\ \A i \in DOMAIN FlattenSeq(ss) : h[i] = g[f[i]]
  <2> DEFINE t == FlattenSeq(ss)
             h == [i \in DOMAIN t |-> g[f[i]]]
  <2>1. \A i \in DOMAIN t : h[i] = g[f[i]] /\ f[i] \in DOMAIN rest
                            /\ t[i] = rest[f[i]]
    BY <1>4 DEF Follows
  <2>2. /\ \A i, j \in DOMAIN t : i < j => f[i] < f[j]
        /\ \A k \in DOMAIN rest : ss[k] # <<>> => \E i \in DOMAIN t : f[i] = k
    BY <1>4 DEF Follows
  <2> HIDE DEF t, h
  <2>3. \A i \in DOMAIN t : h[i] \in DOMAIN s /\ h[i] # 1 /\ t[i] = s[h[i]]
    BY <1>2, <2>1 DEF Thinned
  <2>4. \A i, j \in DOMAIN t : i < j => h[i] < h[j]
    <3> SUFFICES ASSUME NEW i \in DOMAIN t, NEW j \in DOMAIN t, i < j
                 PROVE  h[i] < h[j]
      OBVIOUS
    <3>1. f[i] \in DOMAIN rest /\ f[j] \in DOMAIN rest /\ f[i] < f[j]
      BY <2>1, <2>2
    <3>2. g[f[i]] < g[f[j]]
      BY <1>2, <3>1 DEF Thinned
    <3> QED BY <2>1, <3>2
  <2>5. \A k \in DOMAIN s : s[k].row # s[1].row => \E i \in DOMAIN t : h[i] = k
    <3> SUFFICES ASSUME NEW k \in DOMAIN s, s[k].row # s[1].row
                 PROVE  \E i \in DOMAIN t : h[i] = k
      OBVIOUS
    <3>1. PICK x \in DOMAIN rest : g[x] = k /\ rest[x] = s[k]
      BY <1>2 DEF Thinned
    <3>2. ss[x] # <<>>
      BY <1>1, <1>4, <3>1
    <3>3. PICK i \in DOMAIN t : f[i] = x
      BY <2>2, <3>2
    <3> QED BY <2>1, <3>1, <3>3
  <2>6. Thinned(s, t, h)
    BY <2>3, <2>4, <2>5 DEF Thinned
  <2>7. Thinned(s, t, h) /\ \A i \in DOMAIN t : h[i] = g[f[i]]
    BY <2>1, <2>6
  <2> QED BY <2>7, Zenon DEF t
<1>5. CASE out = Others(st, rest)
  <2> DEFINE ss == [k \in DOMAIN rest |->
                      IF rest[k].row # st.row THEN <<rest[k]>> ELSE <<>>]
  <2>1. /\ DOMAIN ss = DOMAIN rest /\ ss = [k \in DOMAIN rest |-> ss[k]]
        /\ \A k \in DOMAIN rest : ss[k] = <<rest[k]>> \/ ss[k] = <<>>
    OBVIOUS
  <2>2. Others(st, rest) = FlattenSeq(ss)
    BY DEF Others, Keep, Concat, Each
  <2>3. \A k \in DOMAIN rest : rest[k].row # st.row <=> ss[k] # <<>>
    <3>1. \A x : <<x>> # <<>>
      OBVIOUS
    <3> QED BY <3>1
  <2> HIDE DEF ss, out
  <2>4. PICK f : Follows(FlattenSeq(ss), rest, ss, f)
    BY <1>1, <2>1, KeepFollows
  <2>5. PICK h : Thinned(s, out, h) /\ \A i \in DOMAIN out : h[i] = g[f[i]]
    <3>1. \A k \in DOMAIN rest : rest[k].row # st.row => ss[k] # <<>>
      BY <2>3
    <3>2. out = FlattenSeq(ss)
      BY <1>5, <2>2
    <3>3. \E h : /\ Thinned(s, FlattenSeq(ss), h)
                 /\ \A i \in DOMAIN FlattenSeq(ss) : h[i] = g[f[i]]
      BY <1>4, <2>4, <3>1
    <3> QED BY <3>2, <3>3
  <2>6. \A i \in DOMAIN out : /\ f[i] \in DOMAIN rest
                              /\ rest[f[i]].row # st.row
                              /\ s[g[f[i]]] = rest[f[i]]
    BY <1>2, <1>5, <2>2, <2>3, <2>4 DEF Follows, Thinned
  <2>7. \A i \in DOMAIN out : s[h[i]].row # s[1].row
    BY <1>1, <2>5, <2>6
  <2> QED BY <2>5, <2>7, Zenon DEF out, st, rest
<1> DEFINE Hour(t) == t.op = "hours" /\ t.row = st.row
           kept == Keep(LAMBDA t : ~Hour(t), rest)
<1>6. CASE out = kept /\ ~Making(s[1]) /\ ~Opening(s[1])
  <2> DEFINE ss == [k \in DOMAIN rest |->
                      IF ~Hour(rest[k]) THEN <<rest[k]>> ELSE <<>>]
  <2>1. /\ DOMAIN ss = DOMAIN rest /\ ss = [k \in DOMAIN rest |-> ss[k]]
        /\ \A k \in DOMAIN rest : ss[k] = <<rest[k]>> \/ ss[k] = <<>>
    OBVIOUS
  <2>2. kept = FlattenSeq(ss)
    BY DEF Keep, Concat, Each
  <2>3. \A k \in DOMAIN rest : rest[k].row # st.row => ss[k] # <<>>
    <3>1. \A x : <<x>> # <<>>
      OBVIOUS
    <3> QED BY <3>1
  <2> HIDE DEF ss, out, kept
  <2>4. PICK f : Follows(FlattenSeq(ss), rest, ss, f)
    BY <1>1, <2>1, KeepFollows
  <2>5. PICK h : Thinned(s, out, h)
    BY <1>4, <1>6, <2>2, <2>3, <2>4, Zenon
  <2> QED BY <1>6, <2>5, Zenon DEF out, st, rest
<1>7. CASE out = rest /\ ~Making(s[1]) /\ ~Opening(s[1])
  <2>1. Thinned(s, out, g)
    BY <1>2, <1>7, Zenon
  <2> QED BY <1>7, <2>1, Zenon DEF out, st, rest
<1>8. \/ out = Others(st, rest)
      \/ out = kept /\ ~Making(s[1]) /\ ~Opening(s[1])
      \/ out = rest /\ ~Making(s[1]) /\ ~Opening(s[1])
  <2> HIDE DEF kept
  <2>1. kept = Keep(LAMBDA t : ~(t.op = "hours" /\ t.row = st.row), rest)
    BY DEF kept
  <2>2. boot.stage = 3 \/ boot.stage = 5
    OBVIOUS
  <2>3. CASE boot.stage = 3
    <3>1. st.op \in {"department", "user", "profile", "manager", "job", "hours",
                     "works", "member"} /\ Stages[boot.stage] = "csv"
      BY <1>1, <2>3, StageNames, OpsAre
    <3> QED BY <1>1, <2>1, <3>1 DEF AfterError, Making, Opening
  <2>4. CASE boot.stage = 5
    <3>1. st.op \in {"staff_user", "staff_profile", "works", "member"}
            /\ Stages[boot.stage] = "extra_staff"
      BY <1>1, <2>4, StageNames, OpsAre
    <3> QED BY <1>1, <2>1, <3>1 DEF AfterError, Making, Opening
  <2> QED BY <2>2, <2>3, <2>4
<1> QED BY <1>5, <1>6, <1>7, <1>8

\* The statements of one row, when its user does not exist: the first one, or the
\* one after its department, and no other, inserts the user.
Maker(b)    == IF Opening(b[1]) THEN 2 ELSE 1
Block(b, p) == /\ 1 \in DOMAIN b /\ Maker(b) \in DOMAIN b
               /\ \A o \in DOMAIN b : /\ b[o].row = p
                                      /\ Making(b[o]) <=> o = Maker(b)
                                      /\ Opening(b[o]) <=> o < Maker(b)

\* What the rows of a list run, in the sequences of ss.
Blocks(list, ss, made) ==
  \A k \in DOMAIN list : \A o \in DOMAIN ss[k] :
    o \in Nat /\ 1 <= o /\ list[k] \notin made /\ Block(ss[k], list[k])

\* s has the statements of the sequences of ss, and no others.
Covers(s, ss, list) ==
  /\ \A k \in DOMAIN list : \A o \in DOMAIN ss[k] :
       \E i \in DOMAIN s : s[i] = ss[k][o]
  /\ \A i \in DOMAIN s :
       \E k \in DOMAIN list : \E o \in DOMAIN ss[k] : s[i] = ss[k][o]

\* The rows of a file one after the other are an orderly script.
LEMMA PlacedShape ==
  ASSUME NEW S, NEW s \in Seq(S), NEW n \in Nat, NEW list, DOMAIN list = 1..n,
         IsInjective(list), NEW ss, NEW made, NEW blk, NEW pos,
         Places(s, ss, n, blk, pos), Blocks(list, ss, made)
  PROVE  Shape(s, made) /\ Covers(s, ss, list)
<1>4. \A i \in DOMAIN s : /\ blk[i] \in DOMAIN list /\ pos[i] \in DOMAIN ss[blk[i]]
                          /\ s[i] = ss[blk[i]][pos[i]]
                          /\ blk[i] \in Nat /\ pos[i] \in Nat /\ 1 <= pos[i]
                          /\ list[blk[i]] \notin made
                          /\ Maker(ss[blk[i]]) \in DOMAIN ss[blk[i]]
                          /\ Maker(ss[blk[i]]) \in Nat
                          /\ s[i].row = list[blk[i]]
                          /\ (Making(s[i]) <=> pos[i] = Maker(ss[blk[i]]))
                          /\ (Opening(s[i]) <=> pos[i] < Maker(ss[blk[i]]))
  <2> TAKE i \in DOMAIN s
  <2>1. /\ blk[i] \in DOMAIN list /\ pos[i] \in DOMAIN ss[blk[i]]
        /\ s[i] = ss[blk[i]][pos[i]]
    BY DEF Places
  <2>2. /\ pos[i] \in Nat /\ 1 <= pos[i]
        /\ list[blk[i]] \notin made /\ Block(ss[blk[i]], list[blk[i]])
    BY <2>1, Zenon DEF Blocks
  <2>3. blk[i] \in Nat
    BY <2>1
  <2>4. Maker(ss[blk[i]]) \in Nat
    BY DEF Maker
  <2> QED BY <2>1, <2>2, <2>3, <2>4 DEF Block
<1>5. \A i, j \in DOMAIN s :
        i < j => blk[i] < blk[j] \/ (blk[i] = blk[j] /\ pos[i] < pos[j])
  BY DEF Places
<1>6. \A i, j \in DOMAIN s : s[i].row = s[j].row => blk[i] = blk[j]
  BY <1>4 DEF IsInjective
<1>7. \A k \in DOMAIN list : \A o \in DOMAIN ss[k] :
        \E i \in DOMAIN s : blk[i] = k /\ pos[i] = o /\ s[i] = ss[k][o]
  BY DEF Places
<1>8. Fresh(s, made) /\ AtHead(s, made)
  BY <1>4 DEF Fresh, AtHead
<1>9. First(s)
  <2> SUFFICES ASSUME NEW j \in DOMAIN s, NEW k \in DOMAIN s, Making(s[j]),
                      s[j].row = s[k].row, ~Opening(s[k])
               PROVE  ~(k < j)
    <3>1. \A i \in DOMAIN s : i \in Nat
      BY Positions
    <3> QED BY <3>1 DEF First
  <2>1. blk[j] = blk[k] /\ pos[j] \in Nat /\ pos[k] \in Nat
          /\ ~(pos[k] < pos[j]) /\ blk[j] \in Nat
    BY <1>4, <1>6
  <2>2. k < j => blk[k] < blk[j] \/ (blk[k] = blk[j] /\ pos[k] < pos[j])
    BY <1>5
  <2> QED BY <2>1, <2>2
<1>10. Begun(s, made)
  <2> SUFFICES ASSUME NEW k \in DOMAIN s PROVE Makes(s, s[k].row)
    BY DEF Begun
  <2>1. PICK i \in DOMAIN s : blk[i] = blk[k] /\ pos[i] = Maker(ss[blk[k]])
    <3>1. blk[k] \in DOMAIN list /\ Maker(ss[blk[k]]) \in DOMAIN ss[blk[k]]
      BY <1>4
    <3> QED BY <1>7, <3>1
  <2>2. Making(s[i]) /\ s[i].row = s[k].row
    BY <1>4, <2>1
  <2> QED BY <2>2 DEF Makes
<1>11. Together(s)
  <2> SUFFICES ASSUME NEW i \in DOMAIN s, NEW j \in DOMAIN s, NEW k \in DOMAIN s,
                      i < j, j < k, s[i].row = s[k].row
               PROVE  s[j].row = s[i].row
    BY DEF Together
  <2>1. /\ blk[i] < blk[j] \/ (blk[i] = blk[j] /\ pos[i] < pos[j])
        /\ blk[j] < blk[k] \/ (blk[j] = blk[k] /\ pos[j] < pos[k])
    BY <1>5
  <2>2. blk[i] = blk[k] /\ blk[i] \in Nat /\ blk[j] \in Nat
    BY <1>4, <1>6
  <2>3. blk[j] = blk[i]
    BY <2>1, <2>2
  <2> QED BY <1>4, <2>3
<1>12. Shape(s, made)
  BY <1>8, <1>9, <1>10, <1>11 DEF Shape
<1>13. Covers(s, ss, list)
  BY <1>4, <1>7 DEF Covers
<1> QED BY <1>12, <1>13

\* What a statement has.
LEMMA DoIs ==
  ASSUME NEW op, NEW row, NEW j, NEW slot, NEW k
  PROVE  /\ Do(op, row).op = op /\ Do(op, row).row = row
         /\ DoUser(op, row, k).op = op /\ DoUser(op, row, k).row = row
         /\ DoUser(op, row, k).n = k
         /\ DoJob(op, row, j).op = op /\ DoJob(op, row, j).row = row
         /\ DoJob(op, row, j).job = j
         /\ DoSlot(row, j, slot).op = "hours" /\ DoSlot(row, j, slot).row = row
         /\ DoSlot(row, j, slot).job = j /\ DoSlot(row, j, slot).slot = slot
         /\ DoShift(j, slot, k).op = "shift" /\ DoShift(j, slot, k).job = j
         /\ DoShift(j, slot, k).slot = slot /\ DoShift(j, slot, k).n = k
  BY DEF Do, DoUser, DoJob, DoSlot, DoShift

\* One sequence after the other.
LEMMA Joined ==
  ASSUME NEW S, NEW a \in Seq(S), NEW b \in Seq(S)
  PROVE  /\ a \o b \in Seq(S) /\ Rows(a \o b) = Rows(a) \cup Rows(b)
         /\ \A i \in DOMAIN a : i \in DOMAIN (a \o b) /\ (a \o b)[i] = a[i]
         /\ \A i \in DOMAIN (a \o b) : i \in DOMAIN a \/ (a \o b)[i] \in Rows(b)
<1>1. /\ a \o b \in Seq(S) /\ Len(a \o b) = Len(a) + Len(b)
      /\ \A i \in 1..(Len(a) + Len(b)) : (a \o b)[i] =
           IF i <= Len(a) THEN a[i] ELSE b[i - Len(a)]
  BY ConcatProperties
<1>2. /\ DOMAIN a = 1..Len(a) /\ DOMAIN b = 1..Len(b) /\ Len(a) \in Nat
      /\ Len(b) \in Nat /\ DOMAIN (a \o b) = 1..(Len(a) + Len(b))
  BY <1>1, LenProperties
<1>3. Rows(a \o b) = Rows(a) \cup Rows(b)
  <2>1. Range(a \o b) = Range(a) \cup Range(b)
    BY RangeConcatenation
  <2> QED BY <2>1 DEF Rows, Range
<1> DEFINE c == a \o b
<1>4. \A i \in DOMAIN a : i \in DOMAIN c /\ c[i] = a[i]
  <2> HIDE DEF c
  <2> QED BY <1>1, <1>2 DEF c
<1>5. \A i \in DOMAIN c : i \in DOMAIN a \/ c[i] \in Rows(b)
  <2> SUFFICES ASSUME NEW i \in DOMAIN c, i \notin DOMAIN a
               PROVE  c[i] \in Rows(b)
    OBVIOUS
  <2>1. i - Len(a) \in DOMAIN b /\ c[i] = b[i - Len(a)]
    BY <1>1, <1>2
  <2> QED BY <2>1 DEF Rows
<1> QED BY <1>1, <1>3, <1>4, <1>5

\* The hours of a job, in a list of them.
LEMMA HoursIs ==
  ASSUME NEW row, NEW j, NEW list
  PROVE  Rows(HoursOf(row, j, list)) = {DoSlot(row, j, slot) : slot \in Rows(list)}
  BY DEF HoursOf, Each, Rows

\* What one row of seed.csv runs while its user does not exist.
LEMMA CsvBlock ==
  ASSUME NEW p \in Rows(CsvRows), p \notin db.users
  PROVE  LET b == CsvRow(p)
         IN  /\ Block(b, p)
             /\ DoUser("user", p, UidOf[p]) \in Rows(b)
             /\ Do("profile", p) \in Rows(b)
             /\ p \in Managers => Do("manager", p) \in Rows(b)
             /\ p \in Workers => /\ Do("member", p) \in Rows(b)
                                 /\ DoJob("works", p, JobOf[p]) \in Rows(b)
<1> DEFINE S == LinesOf("csv", p)
           user == DoUser("user", p, UidOf[p])
           a == <<Do("department", p), user, Do("profile", p)>>
<1>1. \A st \in S : st.row = p
  BY DEF LinesOf
<1>2. /\ a \in Seq(S) /\ DOMAIN a = {1, 2, 3} /\ a[1] = Do("department", p)
      /\ a[2] = user /\ a[3] = Do("profile", p)
      /\ Rows(a) = {Do("department", p), user, Do("profile", p)}
  <2>1. Do("department", p) \in S /\ user \in S /\ Do("profile", p) \in S
    BY Listings, Roles
  <2> HIDE DEF S, user
  <2>2. /\ a \in Seq(S) /\ DOMAIN a = {1, 2, 3} /\ a[1] = Do("department", p)
        /\ a[2] = user /\ a[3] = Do("profile", p)
    BY <2>1
  <2> HIDE DEF a
  <2> QED BY <2>2 DEF Rows
<1>3. ASSUME NEW rest \in Seq(S),
             \A st \in Rows(rest) : ~Making(st) /\ ~Opening(st),
             CsvRow(p) = a \o rest
      PROVE  /\ Block(CsvRow(p), p) /\ user \in Rows(CsvRow(p))
             /\ Do("profile", p) \in Rows(CsvRow(p))
             /\ Rows(rest) \subseteq Rows(CsvRow(p))
  <2> DEFINE b == a \o rest
  <2> HIDE DEF a, S, user
  <2>1. /\ b \in Seq(S) /\ Rows(b) = Rows(a) \cup Rows(rest)
        /\ \A i \in DOMAIN a : i \in DOMAIN b /\ b[i] = a[i]
        /\ \A i \in DOMAIN b : i \in DOMAIN a \/ b[i] \in Rows(rest)
    BY <1>2, <1>3, Joined
  <2> HIDE DEF b
  <2>2. \A i \in DOMAIN b : b[i].row = p
    <3>1. \A i \in DOMAIN b : b[i] \in S
      BY <2>1
    <3> QED BY <1>1, <3>1
  <2>3. /\ Making(user) /\ ~Making(Do("profile", p)) /\ ~Opening(user)
        /\ ~Making(Do("department", p)) /\ Opening(Do("department", p))
        /\ ~Opening(Do("profile", p))
    BY DEF Making, Opening, user, DoUser, Do
  <2>4. /\ 1 \in DOMAIN b /\ 2 \in DOMAIN b /\ Opening(b[1])
        /\ \A i \in DOMAIN b : /\ Making(b[i]) <=> i = 2
                               /\ Opening(b[i]) <=> i = 1
    BY <1>2, <1>3, <2>1, <2>3
  <2>5. Block(b, p)
    <3>1. Maker(b) = 2 /\ \A i \in DOMAIN b : i \in Nat /\ 1 <= i
      BY <2>1, <2>4, Positions DEF Maker
    <3> QED BY <2>2, <2>4, <3>1 DEF Block
  <2> QED BY <1>2, <1>3, <2>1, <2>5 DEF b
<1>4. CASE p \in Managers
  <2>1. PICK rest : rest = <<Do("manager", p)>>
    OBVIOUS
  <2>2. rest \in Seq(S) /\ Rows(rest) = {Do("manager", p)}
    <3>1. Do("manager", p) \in S
      BY <1>4, Listings
    <3> HIDE DEF S
    <3>2. rest \in Seq(S) /\ DOMAIN rest = {1} /\ rest[1] = Do("manager", p)
      BY <2>1, <3>1
    <3> QED BY <3>2 DEF Rows
  <2>3. CsvRow(p) = a \o rest
    BY <1>4, <2>1, Zenon DEF CsvRow
  <2>4. ~Making(Do("manager", p)) /\ ~Opening(Do("manager", p)) /\ p \notin Workers
    BY <1>4, DoIs DEF Making, Opening, Workers
  <2> HIDE DEF S, a
  <2> QED BY <1>3, <1>4, <2>2, <2>3, <2>4
<1>5. CASE p \notin Managers
  <2> DEFINE j == JobOf[p]
             first == <<DoJob("job", p, j)>>
             hours == HoursOf(p, j, DefaultHours)
             last == <<DoJob("works", p, j), Do("member", p)>>
  <2>1. p \in Workers /\ j \in Jobs
    BY <1>5, Roles
  <2>2. /\ DoJob("job", p, j) \in S /\ DoJob("works", p, j) \in S
        /\ Do("member", p) \in S /\ \A slot \in Slots : DoSlot(p, j, slot) \in S
    BY <2>1, Listings
  <2>3. /\ DefaultHours \in Seq(Slots) /\ Rows(DefaultHours) \subseteq Slots
    BY Lists
  <2> HIDE DEF S, j
  <2>4. hours \in Seq(S)
    BY <2>2, <2>3, HoursOfType
  <2>5. /\ first \in Seq(S) /\ Rows(first) = {DoJob("job", p, j)}
    <3>1. first \in Seq(S) /\ DOMAIN first = {1} /\ first[1] = DoJob("job", p, j)
      BY <2>2
    <3> HIDE DEF first
    <3> QED BY <3>1 DEF Rows
  <2>6. /\ last \in Seq(S)
        /\ Rows(last) = {DoJob("works", p, j), Do("member", p)}
    <3>1. /\ last \in Seq(S) /\ DOMAIN last = {1, 2}
          /\ last[1] = DoJob("works", p, j) /\ last[2] = Do("member", p)
      BY <2>2
    <3> HIDE DEF last
    <3> QED BY <3>1 DEF Rows
  <2>7. Rows(hours) = {DoSlot(p, j, slot) : slot \in Rows(DefaultHours)}
    BY HoursIs
  <2>8. CsvRow(p) = a \o (first \o hours \o last)
    BY <1>5, Zenon DEF CsvRow, j
  <2> HIDE DEF first, hours, last, a
  <2>9. PICK fh : fh = first \o hours
    OBVIOUS
  <2>10. fh \in Seq(S) /\ Rows(fh) = Rows(first) \cup Rows(hours)
    BY <2>4, <2>5, <2>9, Joined
  <2>11. PICK rest : rest = fh \o last
    OBVIOUS
  <2>12. rest \in Seq(S) /\ Rows(rest) = Rows(first) \cup Rows(hours) \cup Rows(last)
    BY <2>6, <2>10, <2>11, Joined
  <2>13. ASSUME NEW st \in Rows(rest) PROVE ~Making(st) /\ ~Opening(st)
    <3>1. CASE st \in Rows(hours)
      <4>1. PICK slot : st = DoSlot(p, j, slot)
        BY <2>7, <3>1
      <4> QED BY <4>1, DoIs DEF Making, Opening
    <3>2. CASE st \notin Rows(hours)
      <4>1. st \in {DoJob("job", p, j), DoJob("works", p, j), Do("member", p)}
        BY <2>5, <2>6, <2>12, <3>2
      <4>2. st.op = "job" \/ st.op = "works" \/ st.op = "member"
        BY <4>1, DoIs
      <4> QED BY <4>2 DEF Making, Opening
    <3> QED BY <3>1, <3>2
  <2>14. CsvRow(p) = a \o rest
    BY <2>8, <2>9, <2>11
  <2>15. /\ Block(CsvRow(p), p) /\ user \in Rows(CsvRow(p))
         /\ Do("profile", p) \in Rows(CsvRow(p))
         /\ Rows(rest) \subseteq Rows(CsvRow(p))
    BY <1>3, <2>12, <2>13, <2>14
  <2> QED BY <1>5, <2>6, <2>12, <2>15 DEF j
<1> QED BY <1>4, <1>5

\* What one row of staff.csv runs, if anything.
LEMMA StaffBlock ==
  ASSUME NEW p \in Rows(StaffRows), StaffRow(p) # <<>>
  PROVE  LET b == StaffRow(p)
         IN  /\ p \notin db.users /\ Block(b, p)
             /\ DoUser("staff_user", p, StaffUid(p)) \in Rows(b)
             /\ Do("staff_profile", p) \in Rows(b)
             /\ Do("member", p) \in Rows(b)
             /\ DoJob("works", p, JobOf[p]) \in Rows(b)
<1>1. PICK b : b = StaffRow(p)
  OBVIOUS
<1>2. /\ p \notin db.users
      /\ b = <<DoUser("staff_user", p, StaffUid(p)), Do("staff_profile", p),
               DoJob("works", p, JobOf[p]), Do("member", p)>>
  BY <1>1 DEF StaffRow
<1>3. /\ DOMAIN b = {1, 2, 3, 4}
      /\ b[1] = DoUser("staff_user", p, StaffUid(p))
      /\ b[2] = Do("staff_profile", p) /\ b[3] = DoJob("works", p, JobOf[p])
      /\ b[4] = Do("member", p)
  BY <1>2
<1>4. \A i \in DOMAIN b : /\ b[i].row = p /\ ~Opening(b[i])
                          /\ Making(b[i]) <=> i = 1
  <2>1. PICK uid : uid = StaffUid(p)
    OBVIOUS
  <2>2. /\ b[1].row = p /\ b[1].op = "staff_user" /\ b[2].row = p
        /\ b[2].op = "staff_profile" /\ b[3].row = p /\ b[3].op = "works"
        /\ b[4].row = p /\ b[4].op = "member"
    <3>1. b[1] = DoUser("staff_user", p, uid)
      BY <1>3, <2>1
    <3> QED BY <1>3, <3>1 DEF Do, DoUser, DoJob
  <2>3. /\ Making(b[1]) /\ ~Making(b[2]) /\ ~Making(b[3]) /\ ~Making(b[4])
        /\ ~Opening(b[1]) /\ ~Opening(b[2]) /\ ~Opening(b[3]) /\ ~Opening(b[4])
    BY <2>2 DEF Making, Opening
  <2> QED BY <1>3, <2>2, <2>3
<1>5. Block(b, p)
  <2>1. Maker(b) = 1 /\ \A o \in DOMAIN b : ~(o < 1)
    BY <1>3, <1>4 DEF Maker
  <2> QED BY <1>3, <1>4, <2>1 DEF Block
<1>6. b[1] \in Rows(b) /\ b[2] \in Rows(b) /\ b[3] \in Rows(b) /\ b[4] \in Rows(b)
  BY <1>3 DEF Rows
<1> QED BY <1>1, <1>2, <1>3, <1>5, <1>6

\* Each row of a list runs all its statements or none.
Whole(list, ss, made) ==
  \A k \in DOMAIN list :
    ss[k] = <<>> \/ (list[k] \notin made /\ Block(ss[k], list[k]))

\* The scripts of the rows of a file, one after the other.
LEMMA BlocksShape ==
  ASSUME NEW S, NEW R, NEW list \in Seq(R), IsInjective(list), NEW ss, NEW made,
         DOMAIN ss = DOMAIN list, ss = [k \in DOMAIN list |-> ss[k]],
         \A k \in DOMAIN list : ss[k] \in Seq(S),
         Whole(list, ss, made)
  PROVE  Shape(FlattenSeq(ss), made) /\ Covers(FlattenSeq(ss), ss, list)
<1>1. PICK blk, pos : Places(FlattenSeq(ss), ss, Len(list), blk, pos)
  BY FlattenPlaces
<1>2. PICK s \in Seq(S) : s = FlattenSeq(ss)
  BY FlattenType
<1>3. DOMAIN list = 1..Len(list) /\ Len(list) \in Nat
  BY LenProperties
<1>4. ASSUME NEW k \in DOMAIN list, NEW o \in DOMAIN ss[k]
      PROVE  /\ o \in Nat /\ 1 <= o /\ ss[k] # <<>>
             /\ list[k] \notin made /\ Block(ss[k], list[k])
  <2>1. PICK b \in Seq(S) : b = ss[k]
    BY Zenon
  <2>2. o \in Nat /\ 1 <= o
    BY <2>1, Positions
  <2>3. b # <<>>
    <3>1. \A x : x \notin DOMAIN <<>>
      BY EmptySeq, LenProperties, DOMAIN <<>> = 1..0
    <3>2. o \in DOMAIN b
      BY <2>1
    <3> QED BY <3>1, <3>2
  <2>4. ss[k] # <<>>
    BY <2>1, <2>3, Zenon
  <2>5. list[k] \notin made /\ Block(ss[k], list[k])
    BY <2>4, Zenon DEF Whole
  <2> QED BY <2>2, <2>4, <2>5, Zenon
<1>5. Places(s, ss, Len(list), blk, pos)
  BY <1>1, <1>2, Zenon
<1>6. Blocks(list, ss, made)
  BY <1>4, Zenon DEF Blocks
<1>7. PICK n \in Nat : n = Len(list)
  BY <1>3
<1>8. DOMAIN list = 1..n /\ Places(s, ss, n, blk, pos)
  BY <1>3, <1>5, <1>7, Zenon
<1>9. Shape(s, made) /\ Covers(s, ss, list)
  BY <1>2, <1>6, <1>7, <1>8, PlacedShape, Zenon
<1> QED BY <1>2, <1>9, Zenon

\* What is in a script is of one of its parts, and all its parts are in it.
LEMMA CoversRows ==
  ASSUME NEW s, NEW ss, NEW list, Covers(s, ss, list)
  PROVE  /\ \A k \in DOMAIN list : Rows(ss[k]) \subseteq Rows(s)
         /\ \A i \in DOMAIN s : \E k \in DOMAIN list : s[i] \in Rows(ss[k])
  BY DEF Covers, Rows

\* What a person has in the tables d, or will have of the script s: a profile,
\* the units of a manager, the membership and the job of a worker.
Furnished(p, d, s) ==
  /\ p \in d.profiles \/ Waiting({"profile", "staff_profile"}, p, s)
  /\ p \in Managers => p \in d.managing \/ Waiting({"manager"}, p, s)
  /\ p \in Workers =>
       /\ p \in d.members \/ Waiting({"member"}, p, s)
       /\ <<p, JobOf[p]>> \in d.works \/ Waiting({"works"}, p, s)

\* A statement of the script waits in it.
LEMMA WaitingIs ==
  ASSUME NEW s, NEW st \in Rows(s), NEW ops, st.op \in ops
  PROVE  Waiting(ops, st.row, s)
  BY DEF Waiting, Rows

\* seedFromCSV's script furnishes whom it makes, and makes whom it does not find.
LEMMA CsvScript ==
  LET s == Concat(CsvRow, CsvRows)
  IN  /\ Shape(s, db.users)
      /\ \A p : Makes(s, p) => Furnished(p, db, s)
      /\ \A p \in Rows(CsvRows) : p \in db.users \/ Makes(s, p)
<1> DEFINE ss == [k \in DOMAIN CsvRows |-> CsvRow(CsvRows[k])]
           S == Listed("csv")
<1>1. \A k \in DOMAIN CsvRows : CsvRows[k] \in Rows(CsvRows)
  BY DEF Rows
<1>2. \A k \in DOMAIN CsvRows : ss[k] = CsvRow(CsvRows[k])
  OBVIOUS
<1>3. /\ DOMAIN ss = DOMAIN CsvRows /\ ss = [k \in DOMAIN CsvRows |-> ss[k]]
      /\ \A k \in DOMAIN CsvRows : ss[k] \in Seq(S)
  <2>1. \A k \in DOMAIN CsvRows : ss[k] \in Seq(LinesOf("csv", CsvRows[k]))
    BY <1>1, CsvRowType
  <2>2. \A row : LinesOf("csv", row) \subseteq S
    BY DEF LinesOf
  <2> HIDE DEF S
  <2>3. \A row : \A x \in Seq(LinesOf("csv", row)) : x \in Seq(S)
    BY <2>2, SeqMonotonic
  <2> QED BY <2>1, <2>3
<1>4. Concat(CsvRow, CsvRows) = FlattenSeq(ss)
  BY DEF Concat, Each
<1>5. CsvRows \in Seq(Rows(CsvRows)) /\ IsInjective(CsvRows)
  BY Lists, SeedAssumption
<1> HIDE DEF ss, S
<1>6. Whole(CsvRows, ss, db.users)
  <2> SUFFICES ASSUME NEW k \in DOMAIN CsvRows
               PROVE  \/ ss[k] = <<>>
                      \/ CsvRows[k] \notin db.users /\ Block(ss[k], CsvRows[k])
    BY Zenon DEF Whole
  <2>1. CASE CsvRows[k] \in db.users
    BY <1>2, <2>1, Zenon DEF CsvRow
  <2>2. CASE CsvRows[k] \notin db.users
    BY <1>1, <1>2, <2>2, CsvBlock, Zenon
  <2> QED BY <2>1, <2>2
<1> DEFINE s == FlattenSeq(ss)
<1>7. /\ Shape(s, db.users)
      /\ \A k \in DOMAIN CsvRows : Rows(ss[k]) \subseteq Rows(s)
      /\ \A i \in DOMAIN s :
           \E k \in DOMAIN CsvRows : ss[k] # <<>> /\ CsvRows[k] = s[i].row
  <2>1. Shape(s, db.users) /\ Covers(s, ss, CsvRows)
    BY <1>3, <1>5, <1>6, BlocksShape, Zenon
  <2> HIDE DEF s
  <2>2. /\ \A k \in DOMAIN CsvRows : Rows(ss[k]) \subseteq Rows(s)
        /\ \A i \in DOMAIN s : \E k \in DOMAIN CsvRows : s[i] \in Rows(ss[k])
    BY <2>1, CoversRows
  <2>3. ASSUME NEW k \in DOMAIN CsvRows, NEW st \in Rows(ss[k])
        PROVE  ss[k] # <<>> /\ CsvRows[k] = st.row
    <3>1. DOMAIN <<>> = {}
      OBVIOUS
    <3>2. ss[k] # <<>>
      BY <3>1 DEF Rows
    <3> QED BY <1>6, <3>2 DEF Whole, Block, Rows
  <2> QED BY <2>1, <2>2, <2>3
<1> HIDE DEF s
<1>8. ASSUME NEW p \in Rows(CsvRows), p \notin db.users
      PROVE  Makes(s, p) /\ Furnished(p, db, s)
  <2>1. PICK k \in DOMAIN CsvRows : p = CsvRows[k]
    BY DEF Rows
  <2>2. Rows(CsvRow(p)) \subseteq Rows(s)
    BY <1>2, <1>7, <2>1, Zenon
  <2>3. /\ DoUser("user", p, UidOf[p]) \in Rows(s)
        /\ Do("profile", p) \in Rows(s)
        /\ p \in Managers => Do("manager", p) \in Rows(s)
        /\ p \in Workers => /\ Do("member", p) \in Rows(s)
                            /\ DoJob("works", p, JobOf[p]) \in Rows(s)
    BY <1>8, <2>2, CsvBlock
  <2>4. Makes(s, p)
    <3>1. PICK i \in DOMAIN s : s[i] = DoUser("user", p, UidOf[p])
      BY <2>3 DEF Rows
    <3>2. Making(s[i]) /\ s[i].row = p
      BY <3>1, DoIs DEF Making
    <3> QED BY <3>2 DEF Makes
  <2>5. Waiting({"profile", "staff_profile"}, p, s)
    <3>1. Do("profile", p).op \in {"profile", "staff_profile"}
            /\ Do("profile", p).row = p
      BY DoIs
    <3> QED BY <2>3, <3>1, WaitingIs
  <2>6. p \in Managers => Waiting({"manager"}, p, s)
    <3>1. Do("manager", p).op \in {"manager"} /\ Do("manager", p).row = p
      BY DoIs
    <3> QED BY <2>3, <3>1, WaitingIs
  <2>7. p \in Workers => Waiting({"member"}, p, s)
    <3>1. Do("member", p).op \in {"member"} /\ Do("member", p).row = p
      BY DoIs
    <3> QED BY <2>3, <3>1, WaitingIs
  <2>8. p \in Workers => Waiting({"works"}, p, s)
    <3> DEFINE d == DoJob("works", p, JobOf[p])
    <3>1. d.op \in {"works"} /\ d.row = p
      BY DoIs
    <3> HIDE DEF d
    <3> QED BY <2>3, <3>1, WaitingIs DEF d
  <2> QED BY <2>4, <2>5, <2>6, <2>7, <2>8 DEF Furnished
<1>9. ASSUME NEW p, Makes(s, p) PROVE p \in Rows(CsvRows) /\ p \notin db.users
  <2>1. PICK i \in DOMAIN s : Making(s[i]) /\ s[i].row = p
    BY <1>9 DEF Makes
  <2>2. p \notin db.users
    BY <1>7, <2>1 DEF Shape, Fresh
  <2>3. PICK k \in DOMAIN CsvRows : CsvRows[k] = p
    BY <1>7, <2>1
  <2> QED BY <1>1, <2>2, <2>3
<1> QED BY <1>4, <1>7, <1>8, <1>9 DEF s

\* So does the script of staff.csv.
LEMMA StaffScript ==
  ASSUME TypeOK
  PROVE  LET s == Concat(StaffRow, StaffRows)
         IN  /\ Shape(s, db.users)
             /\ \A p : Makes(s, p) => Furnished(p, db, s)
<1> DEFINE ss == [k \in DOMAIN StaffRows |-> StaffRow(StaffRows[k])]
           S == Listed("extra_staff")
<1>1. \A k \in DOMAIN StaffRows : StaffRows[k] \in Rows(StaffRows)
  BY DEF Rows
<1>2. \A k \in DOMAIN StaffRows : ss[k] = StaffRow(StaffRows[k])
  OBVIOUS
<1>3. /\ DOMAIN ss = DOMAIN StaffRows /\ ss = [k \in DOMAIN StaffRows |-> ss[k]]
      /\ \A k \in DOMAIN StaffRows : ss[k] \in Seq(S)
  <2>1. \A k \in DOMAIN StaffRows :
          ss[k] \in Seq(LinesOf("extra_staff", StaffRows[k]))
    BY <1>1, StaffRowType
  <2>2. \A row : LinesOf("extra_staff", row) \subseteq S
    BY DEF LinesOf
  <2> HIDE DEF S
  <2>3. \A row : \A x \in Seq(LinesOf("extra_staff", row)) : x \in Seq(S)
    BY <2>2, SeqMonotonic
  <2> QED BY <2>1, <2>3
<1>4. Concat(StaffRow, StaffRows) = FlattenSeq(ss)
  BY DEF Concat, Each
<1>5. StaffRows \in Seq(Rows(StaffRows)) /\ IsInjective(StaffRows)
  BY Lists, SeedAssumption
<1> HIDE DEF ss, S
<1>6. Whole(StaffRows, ss, db.users)
  BY <1>1, <1>2, StaffBlock, Zenon DEF Whole
<1> DEFINE s == FlattenSeq(ss)
<1>7. /\ Shape(s, db.users)
      /\ \A k \in DOMAIN StaffRows : Rows(ss[k]) \subseteq Rows(s)
      /\ \A i \in DOMAIN s :
           \E k \in DOMAIN StaffRows : ss[k] # <<>> /\ StaffRows[k] = s[i].row
  <2>1. Shape(s, db.users) /\ Covers(s, ss, StaffRows)
    BY <1>3, <1>5, <1>6, BlocksShape, Zenon
  <2> HIDE DEF s
  <2>2. /\ \A k \in DOMAIN StaffRows : Rows(ss[k]) \subseteq Rows(s)
        /\ \A i \in DOMAIN s : \E k \in DOMAIN StaffRows : s[i] \in Rows(ss[k])
    BY <2>1, CoversRows
  <2>3. ASSUME NEW k \in DOMAIN StaffRows, NEW st \in Rows(ss[k])
        PROVE  ss[k] # <<>> /\ StaffRows[k] = st.row
    <3>1. DOMAIN <<>> = {}
      OBVIOUS
    <3>2. ss[k] # <<>>
      BY <3>1 DEF Rows
    <3> QED BY <1>6, <3>2 DEF Whole, Block, Rows
  <2> QED BY <2>1, <2>2, <2>3
<1> HIDE DEF s
<1>8. ASSUME NEW p, Makes(s, p) PROVE Furnished(p, db, s)
  <2>1. PICK i \in DOMAIN s : Making(s[i]) /\ s[i].row = p
    BY <1>8 DEF Makes
  <2>2. PICK k \in DOMAIN StaffRows : ss[k] # <<>> /\ StaffRows[k] = p
    BY <1>7, <2>1
  <2>3. p \in Rows(StaffRows) /\ StaffRow(p) # <<>> /\ Rows(StaffRow(p)) \subseteq Rows(s)
    BY <1>1, <1>2, <1>7, <2>2, Zenon
  <2>4. /\ Do("staff_profile", p) \in Rows(s) /\ Do("member", p) \in Rows(s)
        /\ DoJob("works", p, JobOf[p]) \in Rows(s)
    BY <2>3, StaffBlock
  <2>5. Waiting({"profile", "staff_profile"}, p, s)
    <3>1. Do("staff_profile", p).op \in {"profile", "staff_profile"}
            /\ Do("staff_profile", p).row = p
      BY DoIs
    <3> QED BY <2>4, <3>1, WaitingIs
  <2>6. p \notin Managers
    BY <2>3, SeedAssumption
  <2>7. Waiting({"member"}, p, s)
    <3>1. Do("member", p).op \in {"member"} /\ Do("member", p).row = p
      BY DoIs
    <3> QED BY <2>4, <3>1, WaitingIs
  <2>8. Waiting({"works"}, p, s)
    <3> DEFINE d == DoJob("works", p, JobOf[p])
    <3>1. d.op \in {"works"} /\ d.row = p
      BY DoIs
    <3> HIDE DEF d
    <3> QED BY <2>4, <3>1, WaitingIs DEF d
  <2> QED BY <2>5, <2>6, <2>7, <2>8 DEF Furnished
<1> QED BY <1>4, <1>7, <1>8 DEF s

\* What a statement does to the tables of people.
LEMMA EffectPeople ==
  ASSUME Control, NEW st \in Statements, NEW e, e = Effect(st)
  PROVE  /\ db.users \subseteq e.users /\ db.profiles \subseteq e.profiles
         /\ db.managing \subseteq e.managing /\ db.members \subseteq e.members
         /\ db.works \subseteq e.works
         /\ e.users \subseteq db.users \cup {st.row}
         /\ Making(st) => st.row \in e.users
         /\ ~Making(st) /\ st.op # "admin" => e.users = db.users
         /\ ~Making(st) => e.uids = db.uids
         /\ Making(st) => /\ st.row \in People
                          /\ e.uids = [db.uids EXCEPT ![st.row] = st.n]
         /\ st.op \in {"profile", "staff_profile"} => st.row \in e.profiles
         /\ st.op \in {"manager"} => st.row \in e.managing
         /\ st.op \in {"member"} => st.row \in e.members
         /\ st.op \in {"works"} => <<st.row, st.job>> \in e.works
<1>1. db \in Tables /\ st.op \in Operations
  BY Fields DEF Statements, Sound
<1>2. CASE st.op \in {"object", "record", "department"}
  BY <1>1, <1>2 DEF Effect, Tables, Making
<1>3. CASE st.op \in {"admin", "user", "staff_user"}
  <2>1. st.row \in People
    BY <1>3 DEF Statements, Sound, Of, Accounting
  <2> QED BY <1>1, <1>3, <2>1 DEF Effect, Tables, Making
<1>4. CASE st.op \in {"profile", "staff_profile"}
  BY <1>1, <1>4 DEF Effect, Tables, Making
<1>5. CASE st.op \in {"manager", "job", "new_job", "member"}
  BY <1>1, <1>5 DEF Effect, Tables, Making
<1>6. CASE st.op = "works"
  <2>1. PICK w : w = db.works \cup {<<st.row, st.job>>}
    OBVIOUS
  <2>2. e = [db EXCEPT !.works = w]
    BY <2>1, <1>6 DEF Effect
  <2>3. <<st.row, st.job>> \in w /\ db.works \subseteq w
    BY <2>1
  <2> QED BY <1>1, <1>6, <2>2, <2>3 DEF Tables, Making
<1>7. CASE st.op \in {"hours", "clear"}
  <2>1. PICK h : e = [db EXCEPT !.hours = h]
    BY <1>7 DEF Effect
  <2> QED BY <1>1, <1>7, <2>1 DEF Tables, Making
<1>8. CASE st.op = "shift"
  <2>1. e = db \/ \E q : e = [db EXCEPT !.queue = q]
    BY <1>8 DEF Effect
  <2> QED BY <1>1, <1>8, <2>1 DEF Tables, Making
<1> QED BY <1>1, <1>2, <1>3, <1>4, <1>5, <1>6, <1>7, <1>8 DEF Operations

\* What it does to the jobs and their hours.
LEMMA EffectJobs ==
  ASSUME Control, NEW st \in Statements, NEW e, e = Effect(st)
  PROVE  /\ st.op \in {"job", "new_job"} => e.jobs = db.jobs \cup {st.job}
         /\ st.op \notin {"job", "new_job"} => e.jobs = db.jobs
         /\ st.op = "hours" =>
              /\ st.job \in Jobs
              /\ e.hours = [db.hours EXCEPT ![st.job] = @ \cup {st.slot}]
         /\ st.op = "clear" =>
              st.job \in Jobs /\ e.hours = [db.hours EXCEPT ![st.job] = {}]
         /\ st.op \notin {"hours", "clear"} => e.hours = db.hours
<1>1. db \in Tables /\ st.op \in Operations /\ Sound(st)
  BY Fields DEF Statements, Sound
<1>2. CASE st.op \in {"object", "record", "department", "admin", "user",
                       "staff_user"}
  BY <1>1, <1>2 DEF Effect, Tables
<1>3. CASE st.op \in {"profile", "staff_profile", "manager", "member"}
  BY <1>1, <1>3 DEF Effect, Tables
<1>4. CASE st.op \in {"job", "new_job"}
  BY <1>1, <1>4 DEF Effect, Tables
<1>5. CASE st.op = "works"
  <2>1. PICK w : e = [db EXCEPT !.works = w]
    BY <1>5 DEF Effect
  <2> QED BY <1>1, <1>5, <2>1 DEF Tables
<1>6. CASE st.op \in {"hours", "clear"}
  <2>1. PICK h : /\ e = [db EXCEPT !.hours = h]
                 /\ st.op = "hours" =>
                      h = [db.hours EXCEPT ![st.job] = @ \cup {st.slot}]
                 /\ st.op = "clear" => h = [db.hours EXCEPT ![st.job] = {}]
    BY <1>6 DEF Effect
  <2>2. e.hours = h /\ e.jobs = db.jobs
    BY <1>1, <2>1 DEF Tables
  <2>3. st.job \in Jobs
    BY <1>1, <1>6 DEF Sound, Of
  <2> QED BY <1>6, <2>1, <2>2, <2>3
<1>7. CASE st.op = "shift"
  <2>1. e = db \/ \E q : e = [db EXCEPT !.queue = q]
    BY <1>7 DEF Effect
  <2> QED BY <1>1, <1>7, <2>1 DEF Tables
<1> QED BY <1>1, <1>2, <1>3, <1>4, <1>5, <1>6, <1>7 DEF Operations

\* The name of a stage gives its number.
LEMMA StageIs ==
  ASSUME NEW i \in 1..15
  PROVE  /\ Stages[i] = "migrate" <=> i = 1
         /\ Stages[i] = "extra_jobs" <=> i = 4
         /\ Stages[i] \in Listing <=> i \in {1, 2, 3, 4, 5, 6, 7, 8, 10}
         /\ Drawing(Stages[i]) <=> i \in {9, 13, 14, 15}
         /\ Planning(Stages[i]) <=> i \in {11, 12}
<1>1. i = 1 \/ i = 2 \/ i = 3 \/ i = 4 \/ i = 5 \/ i = 6 \/ i = 7 \/ i = 8 \/ i = 9
        \/ i = 10 \/ i = 11 \/ i = 12 \/ i = 13 \/ i = 14 \/ i = 15
  OBVIOUS
<1>2. CASE i \in {1, 2, 3, 4, 5}
  BY <1>2, StageNames DEF Listing, Drawing, Drawn, Planning
<1>3. CASE i \in {6, 7, 8, 9, 10}
  BY <1>3, StageNames DEF Listing, Drawing, Drawn, Planning
<1>4. CASE i \in {11, 12, 13, 14, 15}
  BY <1>4, StageNames DEF Listing, Drawing, Drawn, Planning
<1> QED BY <1>1, <1>2, <1>3, <1>4

-----------------------------------------------------------------------------
(***************************************************************************)
(* The steps, by what they do to the script and to the tables of people.   *)
(***************************************************************************)
Beginning ==
  /\ boot.pc = "begin" /\ Stages[boot.stage] \in Listing
  /\ boot'.pc = "run" /\ boot'.stage = boot.stage
  /\ boot'.script = Script(Stages[boot.stage])
  /\ UNCHANGED <<db, hit, torn>>

Executing ==
  /\ boot.pc = "run" /\ boot.script # <<>>
  /\ boot'.pc = "run" /\ boot'.stage = boot.stage
  /\ boot'.script = Tail(boot.script)
  /\ db' = Effect(Head(boot.script))
  /\ UNCHANGED <<hit, torn>>

Failing ==
  /\ boot.pc = "run" /\ boot.script # <<>>
  /\ boot'.pc = "run" /\ boot'.stage = boot.stage
  /\ boot'.script = AfterError(Head(boot.script), Tail(boot.script))
  /\ ~Refused(Head(boot.script)) /\ UNCHANGED db
  /\ hit' = hit \cup {Head(boot.script).row}
  /\ torn' = torn \cup Half(Head(boot.script))

Refusing ==
  /\ boot.pc = "run" /\ boot.script # <<>>
  /\ boot'.pc = "run" /\ boot'.stage = boot.stage
  /\ boot'.script = AfterError(Head(boot.script), Tail(boot.script))
  /\ Refused(Head(boot.script))
  /\ UNCHANGED <<db, hit, torn>>

Stopping ==
  /\ boot'.pc = "down" /\ UNCHANGED db
  /\ hit \subseteq hit' /\ torn \subseteq torn'
  /\ boot.script # <<>> => Half(Head(boot.script)) \subseteq torn'

Leaving ==
  /\ boot.script = <<>> /\ boot.pc \notin {"down", "serve"} /\ UNCHANGED db
  /\ hit \subseteq hit' /\ torn \subseteq torn'
  /\ \/ boot'.pc = "begin" /\ boot'.stage = boot.stage + 1
     \/ boot'.pc = "begin" /\ boot'.stage = 6 /\ boot.stage = 4
     \/ boot'.pc = "serve" /\ boot'.stage = 15 /\ boot.stage = 15
  /\ \/ boot.pc = "run" \/ Stages[boot.stage] \notin Listing
     \/ Stages[boot.stage] \in hit'

Starting ==
  /\ boot'.pc = "begin" /\ boot'.stage = 1
  /\ boot.pc = "down" /\ hit' = {} /\ UNCHANGED <<db, torn>>

Busy ==
  /\ boot.pc \notin {"down", "run", "serve"} /\ boot'.pc \in {"plan", "write", "draw"}
  /\ boot'.stage = boot.stage /\ Stages[boot.stage] \notin Listing
  /\ UNCHANGED <<hit, torn, db.users, db.uids, db.profiles, db.managing, db.jobs,
                 db.hours, db.works, db.members>>

\* What the next function's start, or the end of the list, leaves.
LEMMA NextStageIs ==
  ASSUME Control, boot' = NextStage
  PROVE  \/ boot'.pc = "begin" /\ boot'.stage = boot.stage + 1
         \/ boot'.pc = "serve" /\ boot'.stage = 15 /\ boot.stage = 15
<1>1. Len(Stages) = 15
  BY StageNames
<1>2. CASE boot.stage = 15
  <2>1. boot' = At("serve", 15)
    BY <1>1, <1>2 DEF NextStage
  <2> QED BY <1>2, <2>1 DEF At
<1>3. CASE boot.stage # 15
  <2>1. boot' = At("begin", boot.stage + 1)
    BY <1>1, <1>3 DEF NextStage
  <2> QED BY <2>1 DEF At
<1> QED BY <1>2, <1>3

\* Only three functions make a statement the database may refuse.
LEMMA RefusedIs ==
  ASSUME Control, boot.script # <<>>, Refused(Head(boot.script))
  PROVE  LET st == Head(boot.script)
         IN  /\ boot.pc = "run" /\ boot.stage \in {3, 5, 10}
             /\ boot.stage = 3 => /\ st.op = "user" /\ st.row \in Rows(CsvRows)
                                  /\ st.n = UidOf[st.row]
             /\ boot.stage = 5 => st.op = "staff_user"
             /\ boot.stage = 10 => /\ st.op = "new_job" /\ st.row = StaffAccount
                                   /\ st.job = StaffJob
<1> DEFINE st == Head(boot.script)
           stage == Stages[boot.stage]
<1>1. boot.pc = "run" /\ boot.stage \in 1..15 /\ stage \in Listing
        /\ st \in Listed(stage)
  BY Heads, Fields
<1>2. st.op \in OpsOf(stage) /\ Allowed(stage, st)
  BY <1>1, Zenon DEF Listed, Allowed
<1>3. \/ st.op = "new_job"
      \/ st.op \in {"user", "staff_user"}
  BY DEF Refused
<1> HIDE DEF st
<1>4. boot.stage \in {3, 5, 10}
  <2>1. stage \in {"csv", "extra_staff", "staff"}
    <3>1. SUFFICES ASSUME stage \notin {"csv", "extra_staff", "staff"} PROVE FALSE
      OBVIOUS
    <3>2. stage \in {"migrate", "admin", "extra_jobs", "security_hours",
                    "default_hours", "workqueue"}
      BY <1>1, <3>1 DEF Listing
    <3> HIDE DEF stage
    <3> QED BY <1>2, <1>3, <3>2, OpsAre
  <2> QED BY <1>1, <2>1, StageIs, StageNames
<1>5. CASE boot.stage = 3
  <2>1. stage = "csv"
    BY <1>5, StageNames
  <2>2. st.op = "user"
    BY <1>2, <1>3, <2>1, OpsAre
  <2> QED BY <1>1, <1>2, <1>5, <2>1, <2>2 DEF Allowed, st
<1>6. CASE boot.stage = 5
  <2>1. stage = "extra_staff"
    BY <1>6, StageNames
  <2>2. st.op = "staff_user"
    BY <1>2, <1>3, <2>1, OpsAre
  <2> QED BY <1>1, <1>6, <2>2 DEF st
<1>7. CASE boot.stage = 10
  <2>1. stage = "staff"
    BY <1>7, StageNames
  <2>2. st.op = "new_job"
    BY <1>2, <1>3, <2>1, OpsAre
  <2> QED BY <1>1, <1>2, <1>7, <2>1, <2>2 DEF Allowed, st
<1> QED BY <1>4, <1>5, <1>6, <1>7

\* Every step is one of these.
LEMMA Moves ==
  ASSUME Control, [Next]_vars
  PROVE  \/ Beginning \/ Executing \/ Failing \/ Refusing \/ Stopping
         \/ Leaving \/ Starting \/ Busy \/ UNCHANGED vars
<1>1. PICK a, b, c, d, e, f, g :
        boot = [pc |-> a, stage |-> b, script |-> c, planner |-> d,
                subjects |-> e, subject |-> f, count |-> g]
  BY Fields
<1>2. boot.pc # "run" => boot.script = <<>>
  BY DEF Control, Held
<1>3. boot.stage \in 1..15
  BY Fields
<1>4. CASE Begin
  <2>1. Stages[boot.stage] \in Listing
    BY <1>3, <1>4, StageKinds DEF Begin
  <2>2. PICK s : s = Script(Stages[boot.stage])
    OBVIOUS
  <2>3. boot.pc = "begin" /\ boot' = [boot EXCEPT !.pc = "run", !.script = s]
          /\ UNCHANGED <<db, hit, torn>>
    BY <1>4, <2>2 DEF Begin
  <2>4. boot'.pc = "run" /\ boot'.stage = boot.stage /\ boot'.script = s
    BY <1>1, <2>3
  <2> QED BY <2>1, <2>2, <2>3, <2>4 DEF Beginning
<1>5. CASE Execute
  <2>1. PICK s : s = Tail(boot.script)
    OBVIOUS
  <2>2. boot.pc = "run" /\ boot.script # <<>>
          /\ boot' = [boot EXCEPT !.script = s]
          /\ db' = Effect(Head(boot.script)) /\ UNCHANGED <<hit, torn>>
    BY <1>5, <2>1 DEF Execute
  <2>3. boot'.pc = boot.pc /\ boot'.stage = boot.stage /\ boot'.script = s
    BY <1>1, <2>2
  <2> QED BY <2>1, <2>2, <2>3 DEF Executing
<1>6. CASE StatementFails
  <2>1. PICK s : s = AfterError(Head(boot.script), Tail(boot.script))
    OBVIOUS
  <2>2. /\ boot.pc = "run" /\ boot.script # <<>> /\ UNCHANGED db
        /\ IF Refused(Head(boot.script)) THEN UNCHANGED <<hit, torn>>
           ELSE /\ hit' = hit \cup {Head(boot.script).row}
                /\ torn' = torn \cup Half(Head(boot.script))
        /\ \/ boot' = At("down", 1) /\ Stages[boot.stage] = "migrate"
           \/ boot' = [boot EXCEPT !.script = s]
    BY <1>6, <2>1 DEF StatementFails
  <2>3. CASE boot' = At("down", 1) /\ Stages[boot.stage] = "migrate"
    <3>1. boot'.pc = "down"
      BY <2>3 DEF At
    <3>2. ~Refused(Head(boot.script))
      <4>1. boot.stage \notin {3, 5, 10}
        BY <1>3, <2>3, StageIs
      <4> QED BY <2>2, <4>1, RefusedIs
    <3> QED BY <2>2, <3>1, <3>2 DEF Stopping
  <2>4. CASE boot' = [boot EXCEPT !.script = s]
    <3>1. boot'.pc = boot.pc /\ boot'.stage = boot.stage /\ boot'.script = s
      BY <1>1, <2>4
    <3> QED BY <2>1, <2>2, <3>1 DEF Failing, Refusing
  <2> QED BY <2>2, <2>3, <2>4
<1>7. CASE Kill
  <2>1. boot'.pc = "down"
    BY <1>7 DEF Kill, At
  <2>2. UNCHANGED <<db, hit>> /\ torn \subseteq torn'
          /\ (boot.script # <<>> => Half(Head(boot.script)) \subseteq torn')
    BY <1>7 DEF Kill
  <2> QED BY <2>1, <2>2 DEF Stopping
<1>8. CASE Return
  <2>1. boot.pc = "run" /\ boot.script = <<>> /\ boot' = NextStage
          /\ UNCHANGED <<db, hit, torn>>
    BY <1>8 DEF Return
  <2> QED BY <2>1, NextStageIs DEF Leaving
<1>9. CASE WriteDone \/ DrawDone \/ WriteError
  <2>1. boot.pc \in {"write", "draw"} /\ boot' = NextStage /\ UNCHANGED <<db, torn>>
          /\ hit \subseteq hit'
    BY <1>9 DEF WriteDone, DrawDone, WriteError
  <2>2. Planning(Stages[boot.stage]) \/ Drawing(Stages[boot.stage])
    BY <2>1 DEF Control, Held
  <2>3. Stages[boot.stage] \notin Listing
    BY <1>3, <2>2, StageIs
  <2> QED BY <1>2, <2>1, <2>3, NextStageIs DEF Leaving
<1>10. CASE ReadError
  <2>1. /\ boot.pc \in {"begin", "draw"} /\ UNCHANGED db
        /\ hit' = hit \cup {Stages[boot.stage]} /\ torn \subseteq torn'
        /\ \/ boot' = At("down", 1)
           \/ boot' = At("begin", boot.stage + 2) /\ Stages[boot.stage] = "extra_jobs"
           \/ boot' = NextStage
    BY <1>10 DEF ReadError
  <2>2. CASE boot' = At("down", 1)
    <3>1. boot'.pc = "down" /\ boot.script = <<>>
      BY <1>2, <2>1, <2>2 DEF At
    <3> QED BY <2>1, <3>1 DEF Stopping
  <2>3. CASE boot' = At("begin", boot.stage + 2) /\ Stages[boot.stage] = "extra_jobs"
    <3>1. boot.stage = 4
      BY <1>3, <2>3, StageIs
    <3>2. boot'.pc = "begin" /\ boot'.stage = boot.stage + 2
      BY <2>3 DEF At
    <3> QED BY <1>2, <2>1, <3>1, <3>2 DEF Leaving
  <2>4. CASE boot' = NextStage
    BY <1>2, <2>1, <2>4, NextStageIs DEF Leaving
  <2> QED BY <2>1, <2>2, <2>3, <2>4
<1>11. CASE Start
  BY <1>11 DEF Start, At, Starting
<1>12. CASE BeginPlan \/ PlanShift \/ PlanDone \/ WriteShift
  <2>1. boot.pc \notin {"down", "run", "serve"} /\ UNCHANGED <<hit, torn>>
    BY <1>12 DEF BeginPlan, PlanShift, PlanDone, WriteShift
  <2>2. boot'.stage = boot.stage /\ boot'.pc \in {"plan", "write"}
    <3>1. CASE BeginPlan
      BY <1>1, <3>1 DEF BeginPlan
    <3>2. CASE PlanShift
      BY <3>2, Turned DEF With
    <3>3. CASE PlanDone
      BY <1>1, <3>3 DEF PlanDone
    <3>4. CASE WriteShift
      BY <3>4, Written DEF With
    <3> QED BY <1>12, <3>1, <3>2, <3>3, <3>4
  <2>3. Stages[boot.stage] \notin Listing
    <3>1. Control'
      BY NextControls
    <3>2. Planning(Stages[boot'.stage])
      BY <2>2, <3>1 DEF Control, Held
    <3> QED BY <1>3, <2>2, <3>2, StageIs
  <2>4. db' = db \/ \E q : db' = [db EXCEPT !.queue = q]
    <3>1. CASE BeginPlan \/ PlanShift \/ PlanDone
      BY <3>1 DEF BeginPlan, PlanShift, PlanDone
    <3>2. CASE WriteShift
      <4>1. CASE db' # db
        <5>1. PICK k \in DOMAIN db.queue, w \in Workers :
                db' = [db EXCEPT !.queue[k].worker = w]
          BY <3>2, <4>1, Written
        <5> QED BY <5>1
      <4> QED BY <4>1
    <3> QED BY <1>12, <3>1, <3>2
  <2>5. db \in Tables
    BY Fields
  <2>6. UNCHANGED <<db.users, db.uids, db.profiles, db.managing, db.jobs,
                    db.hours, db.works, db.members>>
    BY <2>4, <2>5 DEF Tables
  <2> QED BY <2>1, <2>2, <2>3, <2>6 DEF Busy
<1>13. CASE BeginDraw \/ NextSubject \/ DrawRow \/ EndSubject
  <2>1. boot.pc \in {"begin", "draw"} /\ UNCHANGED <<hit, torn>>
    BY <1>13 DEF BeginDraw, NextSubject, DrawRow, EndSubject
  <2>2. boot'.stage = boot.stage /\ boot'.pc = "draw"
    <3>1. CASE BeginDraw
      BY <1>1, <3>1 DEF BeginDraw
    <3>2. CASE NextSubject
      BY <1>1, <3>2 DEF NextSubject
    <3>3. CASE DrawRow
      BY <1>1, <3>3 DEF DrawRow
    <3>4. CASE EndSubject
      BY <1>1, <3>4 DEF EndSubject
    <3> QED BY <1>13, <3>1, <3>2, <3>3, <3>4
  <2>3. Stages[boot.stage] \notin Listing
    <3>1. Control'
      BY NextControls
    <3>2. Drawing(Stages[boot'.stage])
      BY <2>2, <3>1 DEF Control, Held
    <3> QED BY <1>3, <2>2, <3>2, StageIs
  <2>4. db' = db \/ \E v : db' = [db EXCEPT !.drawn = v]
    BY <1>13 DEF BeginDraw, NextSubject, DrawRow, EndSubject
  <2>5. db \in Tables
    BY Fields
  <2>6. UNCHANGED <<db.users, db.uids, db.profiles, db.managing, db.jobs,
                    db.hours, db.works, db.members>>
    BY <2>4, <2>5 DEF Tables
  <2> QED BY <2>1, <2>2, <2>3, <2>6 DEF Busy
<1>14. CASE UNCHANGED vars
  BY <1>14
<1> QED BY <1>4, <1>5, <1>6, <1>7, <1>8, <1>9, <1>10, <1>11, <1>12, <1>13, <1>14
           DEF Next, Step

-----------------------------------------------------------------------------
(***************************************************************************)
(* The rows of the files.                                                  *)
(***************************************************************************)
\* What is left to do of the rows of seed.csv or staff.csv.
Files == IF boot.pc = "run" /\ boot.stage \in {3, 5} THEN boot.script ELSE <<>>

Doing(n) == boot.pc = "run" /\ boot.stage = n
Past(n)  == boot.pc # "down" /\ (boot.pc = "serve" \/ boot.stage > n)

Orderly    == Shape(Files, db.users)
Furnishing == \A p \in People \ (torn \cup {Admin}) :
                p \in db.users \/ Makes(Files, p) => Furnished(p, db, Files)
Numbered   == \A q \in People : \/ db.uids[q] = 0
                                \/ q \in Rows(CsvRows) /\ db.uids[q] = UidOf[q]
                                \/ q \in Rows(StaffRows)
Covered ==
  /\ Doing(3) => \A p \in Rows(CsvRows) :
       p \in db.users \/ p \in hit \/ UidGone(p) \/ Makes(boot.script, p)
  /\ Past(3) => \A p \in Rows(CsvRows) :
       p \in db.users \/ p \in hit \/ "csv" \in hit \/ UidGone(p)
RowsInv == Orderly /\ Furnishing /\ Numbered /\ Covered

\* Nothing is left to do.
LEMMA NothingLeft ==
  ASSUME NEW made, NEW p, NEW ops
  PROVE  Shape(<<>>, made) /\ ~Makes(<<>>, p) /\ ~Waiting(ops, p, <<>>)
<1>1. DOMAIN <<>> = {}
  OBVIOUS
<1> QED BY <1>1 DEF Shape, Fresh, First, Begun, Together, AtHead, Makes, Waiting

\* What stays in the tables, or waits, furnishes.
LEMMA FurnishedStays ==
  ASSUME NEW p, NEW d, NEW e, NEW s, NEW t, Furnished(p, d, s),
         d.profiles \subseteq e.profiles, d.managing \subseteq e.managing,
         d.members \subseteq e.members, d.works \subseteq e.works,
         \A ops : Waiting(ops, p, s) => Waiting(ops, p, t)
  PROVE  Furnished(p, e, t)
<1>1. p \in e.profiles \/ Waiting({"profile", "staff_profile"}, p, t)
  BY DEF Furnished
<1>2. p \in Managers => p \in e.managing \/ Waiting({"manager"}, p, t)
  BY DEF Furnished
<1>3. p \in Workers => p \in e.members \/ Waiting({"member"}, p, t)
  BY DEF Furnished
<1>4. p \in Workers => <<p, JobOf[p]>> \in e.works \/ Waiting({"works"}, p, t)
  BY DEF Furnished
<1> QED BY <1>1, <1>2, <1>3, <1>4 DEF Furnished

\* The statement that is next, or one after it.
LEMMA HeadOrTail ==
  ASSUME NEW S, NEW s \in Seq(S), s # <<>>, NEW p
  PROVE  /\ Head(s) = s[1] /\ 1 \in DOMAIN s
         /\ Makes(s, p) => (Making(s[1]) /\ s[1].row = p) \/ Makes(Tail(s), p)
         /\ \A ops : Waiting(ops, p, s) => \/ s[1].op \in ops /\ s[1].row = p
                                           \/ Waiting(ops, p, Tail(s))
<1>1. PICK f : \A k \in DOMAIN s : k # 1 => /\ k-1 \in DOMAIN Tail(s)
                                            /\ s[k] = Tail(s)[k-1]
  BY TailThin
<1>2. Head(s) = s[1] /\ 1 \in DOMAIN s
  <2>1. Len(s) \in Nat \ {0} /\ DOMAIN s = 1..Len(s)
    BY LenProperties, EmptySeq
  <2> QED BY <2>1, HeadTailProperties
<1> QED BY <1>1, <1>2 DEF Makes, Waiting

\* A step that has nothing to do with the files.
LEMMA QuietRows ==
  ASSUME Orderly, Furnishing, Files = <<>>, Files' = <<>>,
         db'.users \subseteq db.users \cup {Admin},
         db.profiles \subseteq db'.profiles, db.managing \subseteq db'.managing,
         db.members \subseteq db'.members, db.works \subseteq db'.works,
         torn \subseteq torn'
  PROVE  Orderly' /\ Furnishing'
<1>1. Orderly'
  BY NothingLeft DEF Orderly
<1>2. ASSUME NEW p \in People \ (torn' \cup {Admin}),
             p \in db'.users \/ Makes(Files', p)
      PROVE  Furnished(p, db', Files')
  <2>1. p \in db.users /\ p \in People \ (torn \cup {Admin})
    BY <1>2, NothingLeft
  <2>2. Furnished(p, db, <<>>)
    BY <2>1 DEF Furnishing
  <2>3. Furnished(p, db', <<>>)
    BY <2>2, FurnishedStays
  <2> QED BY <2>3
<1>3. Furnishing'
  BY <1>2 DEF Furnishing
<1> QED BY <1>1, <1>3

\* A statement of a row.
LEMMA ExecutingRows ==
  ASSUME Control, Executing, boot.stage \in {3, 5}, Orderly, Furnishing
  PROVE  Orderly' /\ Furnishing'
<1> DEFINE s == boot.script
           t == Tail(s)
           st == Head(s)
<1>1. /\ Files = s /\ Files' = t /\ db' = Effect(st) /\ torn' = torn /\ s # <<>>
  BY DEF Executing, Files
<1>2. /\ st \in Statements /\ st \in Listed(Stages[boot.stage])
      /\ s \in Seq(Statements) /\ t \in Seq(Statements)
  BY <1>1, Heads, Fields
<1>3. st.op # "admin" /\ (st.op = "works" => st.job = JobOf[st.row])
  <2>1. Allowed(Stages[boot.stage], st)
    BY <1>2 DEF Listed
  <2>2. CASE boot.stage = 3
    BY <2>1, <2>2, StageNames, OpsAre DEF Allowed
  <2>3. CASE boot.stage = 5
    BY <2>1, <2>3, StageNames, OpsAre DEF Allowed
  <2> QED BY <2>2, <2>3
<1> HIDE DEF s
<1>4. \A p : /\ st = s[1] /\ 1 \in DOMAIN s
             /\ Makes(s, p) => (Making(st) /\ st.row = p) \/ Makes(t, p)
             /\ \A ops : Waiting(ops, p, s) => \/ st.op \in ops /\ st.row = p
                                               \/ Waiting(ops, p, t)
  BY <1>1, <1>2, HeadOrTail
<1>5. PICK f : Thinned(s, t, f)
  BY <1>1, <1>2, TailThin
<1> HIDE DEF t, st
<1>6. /\ db.users \subseteq db'.users /\ db.profiles \subseteq db'.profiles
      /\ db.managing \subseteq db'.managing /\ db.members \subseteq db'.members
      /\ db.works \subseteq db'.works
      /\ db'.users \subseteq db.users \cup {st.row}
      /\ Making(st) => st.row \in db'.users
      /\ ~Making(st) => db'.users = db.users
      /\ st.op \in {"profile", "staff_profile"} => st.row \in db'.profiles
      /\ st.op \in {"manager"} => st.row \in db'.managing
      /\ st.op \in {"member"} => st.row \in db'.members
      /\ st.op \in {"works"} => <<st.row, st.job>> \in db'.works
  BY <1>1, <1>2, <1>3, EffectPeople
<1>7. Shape(s, db.users)
  BY <1>1 DEF Orderly
<1>8. Shape(t, db'.users)
  <2>1. Opening(st) => ~Making(st)
    BY DEF Opening, Making
  <2>2. ASSUME NEW i \in DOMAIN t, Making(st) \/ Opening(st), t[i].row = st.row
        PROVE  st.row \in db'.users \/ Makes(t, st.row)
    <3>1. CASE Making(st)
      BY <1>6, <3>1
    <3>2. CASE Opening(st)
      <4>1. st.row \in db.users \/ Makes(s, st.row)
        BY <1>4, <1>7 DEF Shape, Begun
      <4> QED BY <1>4, <1>6, <2>1, <3>2, <4>1
    <3> QED BY <2>2, <3>1, <3>2
  <2> QED BY <1>2, <1>4, <1>5, <1>6, <1>7, <2>1, <2>2, ShapeThin
<1>9. ASSUME NEW p \in People \ (torn' \cup {Admin}), p \in db'.users \/ Makes(t, p)
      PROVE  Furnished(p, db', t)
  <2>1. p \in db.users \/ Makes(s, p)
    <3>1. Makes(t, p) => Makes(s, p)
      BY <1>2, <1>5, <1>7, ThinMakes
    <3>2. p \in db'.users /\ p \notin db.users => Making(st) /\ st.row = p
      BY <1>6
    <3>3. Making(st) /\ st.row = p => Makes(s, p)
      BY <1>4 DEF Makes
    <3> QED BY <1>9, <3>1, <3>2, <3>3
  <2>2. Furnished(p, db, s)
    BY <1>1, <2>1 DEF Furnishing
  <2>3. \A ops : Waiting(ops, p, s) => \/ st.op \in ops /\ st.row = p
                                       \/ Waiting(ops, p, t)
    BY <1>4
  <2>4. p \in db'.profiles \/ Waiting({"profile", "staff_profile"}, p, t)
    BY <1>6, <2>2, <2>3 DEF Furnished
  <2>5. p \in Managers => p \in db'.managing \/ Waiting({"manager"}, p, t)
    BY <1>6, <2>2, <2>3 DEF Furnished
  <2>6. p \in Workers => p \in db'.members \/ Waiting({"member"}, p, t)
    BY <1>6, <2>2, <2>3 DEF Furnished
  <2>7. p \in Workers => <<p, JobOf[p]>> \in db'.works \/ Waiting({"works"}, p, t)
    <3>1. st.op \in {"works"} /\ st.row = p => <<p, JobOf[p]>> \in db'.works
      BY <1>3, <1>6
    <3> QED BY <1>6, <2>2, <2>3, <3>1 DEF Furnished
  <2> QED BY <2>4, <2>5, <2>6, <2>7 DEF Furnished
<1>10. Furnishing'
  BY <1>1, <1>9 DEF Furnishing
<1> QED BY <1>1, <1>8, <1>10 DEF Orderly

\* A row that fails, or is refused.
LEMMA FailingRows ==
  ASSUME Control, Failing \/ Refusing, boot.stage \in {3, 5}, Orderly, Furnishing
  PROVE  /\ Orderly' /\ Furnishing'
         /\ \A p : Makes(Files, p) =>
                     p = Head(boot.script).row \/ Makes(Files', p)
<1> DEFINE s == boot.script
           t == AfterError(Head(s), Tail(s))
<1>1. /\ Files = s /\ Files' = t /\ db' = db /\ s # <<>> /\ torn \subseteq torn'
      /\ Half(Head(s)) \subseteq torn' \/ Refused(Head(s))
  BY DEF Failing, Refusing, Files
<1>0. Refused(Head(s)) => Making(Head(s))
  BY <1>1, RefusedIs DEF Making
<1>2. /\ Head(s) \in Listed(Stages[boot.stage])
      /\ s \in Seq(Statements) /\ Tail(s) \in Seq(Statements)
  BY <1>1, Heads, Fields
<1>3. Head(s) = s[1]
  BY <1>1, <1>2, HeadOrTail
<1>4. s[1].op \in OpsOf(Stages[boot.stage])
  BY <1>2, <1>3, Zenon DEF Listed, Allowed
<1> HIDE DEF s
<1>5. t \in Seq(Statements)
  BY <1>2, AfterErrorType
<1>6. PICK f : /\ Thinned(s, t, f)
               /\ \A i \in DOMAIN t :
                    Making(s[1]) \/ Opening(s[1]) => s[f[i]].row # s[1].row
  BY <1>1, <1>2, <1>4, AfterErrorThin
<1> HIDE DEF t
<1>7. Shape(s, db.users)
  BY <1>1 DEF Orderly
<1>8. Shape(t, db.users)
  <2>1. \A i \in DOMAIN t : t[i] = s[f[i]]
    BY <1>6 DEF Thinned
  <2>2. \A i \in DOMAIN t : Making(s[1]) \/ Opening(s[1]) => t[i].row # s[1].row
    BY <1>6, <2>1
  <2> QED BY <1>2, <1>5, <1>6, <1>7, <2>2, ShapeThin
<1>9. \A p : /\ Makes(t, p) => p # s[1].row /\ Makes(s, p)
             /\ p # s[1].row /\ Makes(s, p) => Makes(t, p)
             /\ \A ops : p # s[1].row /\ Waiting(ops, p, s) => Waiting(ops, p, t)
  <2>1. \A p : /\ Makes(t, p) => Makes(s, p) /\ (p # s[1].row \/ Opening(s[1]))
               /\ p # s[1].row /\ Makes(s, p) => Makes(t, p)
               /\ \A ops : p # s[1].row /\ Waiting(ops, p, s) => Waiting(ops, p, t)
    BY <1>2, <1>5, <1>6, <1>7, ThinMakes
  <2>2. \A p : Makes(t, p) /\ Opening(s[1]) => p # s[1].row
    <3>1. \A i \in DOMAIN t : t[i] = s[f[i]]
      BY <1>6 DEF Thinned
    <3> QED BY <1>6, <3>1 DEF Makes
  <2> QED BY <2>1, <2>2
<1>14. s[1].row \in db.users => s[1].row \in torn'
  <2>1. CASE Half(s[1]) \subseteq torn'
    BY <2>1 DEF Half
  <2>2. CASE Making(s[1])
    <3>1. 1 \in DOMAIN s
      BY <1>1, <1>2, HeadOrTail
    <3> QED BY <1>7, <2>2, <3>1 DEF Shape, Fresh
  <2> QED BY <1>0, <1>1, <1>3, <2>1, <2>2
<1>10. ASSUME NEW p \in People \ (torn' \cup {Admin}), p \in db.users \/ Makes(t, p)
       PROVE  Furnished(p, db, t)
  <2>1. p # s[1].row /\ p \in People \ (torn \cup {Admin})
    BY <1>1, <1>9, <1>10, <1>14
  <2>2. Furnished(p, db, s)
    BY <1>1, <1>9, <1>10, <2>1 DEF Furnishing
  <2>3. \A ops : Waiting(ops, p, s) => Waiting(ops, p, t)
    BY <1>9, <2>1
  <2> QED BY <2>2, <2>3, FurnishedStays
<1>11. Furnishing'
  BY <1>1, <1>10 DEF Furnishing
<1>12. Orderly'
  BY <1>1, <1>8 DEF Orderly
<1>13. \A p : Makes(s, p) => p = Head(s).row \/ Makes(t, p)
  BY <1>3, <1>9
<1> QED BY <1>1, <1>11, <1>12, <1>13 DEF s

\* A kill, or an error of the migration.
LEMMA StoppingRows ==
  ASSUME Control, Stopping, Orderly, Furnishing PROVE Orderly' /\ Furnishing'
<1>1. /\ Files' = <<>> /\ db' = db /\ torn \subseteq torn'
      /\ boot.script # <<>> => {Head(boot.script).row} \cap db.users \subseteq torn'
  BY DEF Stopping, Files, Half
<1>2. Orderly'
  BY <1>1, NothingLeft DEF Orderly
<1>3. ASSUME NEW p \in People \ (torn' \cup {Admin}), p \in db.users
      PROVE  Furnished(p, db, <<>>)
  <2>1. Furnished(p, db, Files)
    BY <1>1, <1>3 DEF Furnishing
  <2>2. ASSUME NEW ops, Waiting(ops, p, Files) PROVE FALSE
    <3>1. PICK k \in DOMAIN Files : Files[k].row = p
      BY <2>2 DEF Waiting
    <3>2. Files[1].row = p
      BY <1>3, <3>1 DEF Orderly, Shape, AtHead
    <3>3. Files # <<>>
      <4>1. ~Waiting(ops, p, <<>>)
        BY NothingLeft
      <4> QED BY <2>2, <4>1
    <3>4. Files = boot.script
      BY <3>3 DEF Files
    <3>5. Head(boot.script) = boot.script[1]
      BY <3>3, <3>4, Fields, HeadOrTail
    <3> QED BY <1>1, <1>3, <3>2, <3>3, <3>4, <3>5
  <2> QED BY <2>1, <2>2, FurnishedStays
<1>4. Furnishing'
  BY <1>1, <1>3, NothingLeft DEF Furnishing
<1> QED BY <1>2, <1>4

\* A file is read.
LEMMA BeginningRows ==
  ASSUME Control, Beginning, boot.stage \in {3, 5}, Furnishing
  PROVE  Orderly' /\ Furnishing'
<1>1. /\ Files = <<>> /\ Files' = Script(Stages[boot.stage])
      /\ db' = db /\ torn' = torn
  BY DEF Beginning, Files
<1>2. PICK s : s = Script(Stages[boot.stage])
  OBVIOUS
<1>3. Shape(s, db.users) /\ \A p : Makes(s, p) => Furnished(p, db, s)
  <2>1. CASE boot.stage = 3
    <3>1. s = Concat(CsvRow, CsvRows)
      BY <1>2, <2>1, StageNames DEF Script
    <3> QED BY <3>1, CsvScript
  <2>2. CASE boot.stage = 5
    <3>1. s = Concat(StaffRow, StaffRows)
      BY <1>2, <2>2, StageNames DEF Script
    <3> QED BY <3>1, StaffScript DEF Control
  <2> QED BY <2>1, <2>2
<1>4. ASSUME NEW p \in People \ (torn \cup {Admin}), p \in db.users \/ Makes(s, p)
      PROVE  Furnished(p, db, s)
  <2>1. CASE p \in db.users
    <3>1. Furnished(p, db, <<>>)
      BY <1>1, <2>1 DEF Furnishing
    <3>2. \A ops : ~Waiting(ops, p, <<>>)
      BY NothingLeft
    <3> QED BY <3>1, <3>2, FurnishedStays
  <2>2. CASE Makes(s, p)
    BY <1>3, <2>2
  <2> QED BY <1>4, <2>1, <2>2
<1>5. Furnishing' /\ Orderly'
  BY <1>1, <1>2, <1>3, <1>4 DEF Furnishing, Orderly
<1> QED BY <1>5

\* Which function inserts users, and with what uid.
LEMMA MakerIs ==
  ASSUME Control, boot.script # <<>>, Making(Head(boot.script))
  PROVE  LET st == Head(boot.script)
         IN  /\ boot.stage \in {3, 5}
             /\ \/ st.row \in Rows(CsvRows) /\ st.n = UidOf[st.row]
                \/ st.row \in Rows(StaffRows)
<1>1. PICK st : st = Head(boot.script)
  OBVIOUS
<1>2. /\ st \in Listed(Stages[boot.stage]) /\ Stages[boot.stage] \in Listing
      /\ Making(st) /\ boot.stage \in 1..15
  BY <1>1, Heads, Fields
<1>3. Allowed(Stages[boot.stage], st) /\ st.op \in OpsOf(Stages[boot.stage])
  BY <1>2 DEF Listed, Allowed
<1>4. boot.stage \in {1, 2, 3, 4, 5, 6, 7, 8, 10}
  BY <1>2, StageIs
<1>5. boot.stage \in {3, 5}
  <2>1. CASE boot.stage \in {1, 2, 4}
    BY <1>2, <1>3, <2>1, StageNames, OpsAre DEF Making
  <2>2. CASE boot.stage \in {6, 7, 8, 10}
    BY <1>2, <1>3, <2>2, StageNames, OpsAre DEF Making
  <2> QED BY <1>4, <2>1, <2>2
<1> QED BY <1>1, <1>2, <1>3, <1>5 DEF Allowed, Making

\* A statement of no row.
LEMMA ElsewhereRows ==
  ASSUME Control, Executing, boot.stage \notin {3, 5}
  PROVE  /\ db'.users \subseteq db.users \cup {Admin} /\ db.users \subseteq db'.users
         /\ db.profiles \subseteq db'.profiles /\ db.managing \subseteq db'.managing
         /\ db.members \subseteq db'.members /\ db.works \subseteq db'.works
<1>1. PICK st : st = Head(boot.script)
  OBVIOUS
<1>2. /\ st \in Statements /\ st \in Listed(Stages[boot.stage])
      /\ db' = Effect(st) /\ ~Making(st)
  BY <1>1, Heads, MakerIs DEF Executing
<1>3. st.op = "admin" => st.row = Admin
  BY <1>2 DEF Listed, Allowed
<1> QED BY <1>2, <1>3, EffectPeople

\* No user is deleted.
LEMMA UsersStay ==
  ASSUME Control, [Next]_vars PROVE db.users \subseteq db'.users
<1>1. CASE Executing
  <2>1. PICK st : st = Head(boot.script)
    OBVIOUS
  <2>2. st \in Statements /\ db' = Effect(st)
    BY <1>1, <2>1, Heads DEF Executing
  <2> QED BY <2>2, EffectPeople
<1>2. CASE Beginning \/ Failing \/ Refusing \/ Stopping \/ Leaving \/ Starting
             \/ Busy \/ UNCHANGED vars
  BY <1>2 DEF Beginning, Failing, Refusing, Stopping, Leaving, Starting, Busy, vars
<1> QED BY <1>1, <1>2, Moves

\* What a step does to the uids: nothing, but for the user it inserts.
LEMMA UidsMove ==
  ASSUME Control, [Next]_vars
  PROVE  \/ db'.uids = db.uids
         \/ /\ Executing /\ Making(Head(boot.script))
            /\ Head(boot.script).row \in People
            /\ \A q \in People : q # Head(boot.script).row =>
                                   db'.uids[q] = db.uids[q]
            /\ db'.uids[Head(boot.script).row] = Head(boot.script).n
<1>1. CASE Executing
  <2>1. PICK st : st = Head(boot.script)
    OBVIOUS
  <2>2. st \in Statements /\ db' = Effect(st) /\ db.uids \in [People -> Nat]
    BY <1>1, <2>1, Heads, Fields DEF Executing, Tables
  <2>3. CASE ~Making(st)
    BY <2>2, <2>3, EffectPeople
  <2>4. CASE Making(st)
    <3>1. st.row \in People /\ db'.uids = [db.uids EXCEPT ![st.row] = st.n]
      BY <2>2, <2>4, EffectPeople
    <3> QED BY <1>1, <2>1, <2>2, <2>4, <3>1
  <2> QED BY <2>3, <2>4
<1>2. CASE Beginning \/ Failing \/ Refusing \/ Stopping \/ Leaving \/ Starting
             \/ Busy \/ UNCHANGED vars
  BY <1>2 DEF Beginning, Failing, Refusing, Stopping, Leaving, Starting, Busy, vars
<1> QED BY <1>1, <1>2, Moves

\* Nobody but the rows of staff.csv has a uid other than its own.
LEMMA NumberedStep ==
  ASSUME Control, [Next]_vars, Numbered PROVE Numbered'
<1>1. CASE db'.uids = db.uids
  BY <1>1 DEF Numbered
<1>2. ASSUME NEW st, st = Head(boot.script), Executing, Making(st),
             \A q \in People : q # st.row => db'.uids[q] = db.uids[q],
             db'.uids[st.row] = st.n
      PROVE  Numbered'
  <2>1. \/ st.row \in Rows(CsvRows) /\ st.n = UidOf[st.row]
        \/ st.row \in Rows(StaffRows)
    BY <1>2, MakerIs DEF Executing
  <2> QED BY <1>2, <2>1 DEF Numbered
<1> QED BY <1>1, <1>2, UidsMove

\* A uid that somebody of staff.csv has stays taken.
LEMMA GoneStays ==
  ASSUME Control, [Next]_vars, Orderly, NEW p, UidGone(p) PROVE UidGone(p)'
<1>1. PICK q \in db.users \cap Rows(StaffRows) : db.uids[q] = UidOf[p]
  BY DEF UidGone
<1>2. q \in db'.users /\ q \in People
  BY UsersStay, Fields DEF Tables
<1>3. db'.uids[q] = db.uids[q]
  <2>1. CASE db'.uids = db.uids
    BY <2>1
  <2>2. ASSUME NEW st, st = Head(boot.script), Executing, Making(st),
               \A x \in People : x # st.row => db'.uids[x] = db.uids[x]
        PROVE  db'.uids[q] = db.uids[q]
    <3>1. boot.script # <<>> /\ Files = boot.script
      BY <2>2, MakerIs DEF Executing, Files
    <3>2. st = boot.script[1] /\ 1 \in DOMAIN boot.script
      BY <2>2, <3>1, Fields, HeadOrTail
    <3>3. st.row \notin db.users
      BY <2>2, <3>1, <3>2 DEF Orderly, Shape, Fresh
    <3> QED BY <1>1, <1>2, <2>2, <3>3
  <2> QED BY <2>1, <2>2, UidsMove
<1> QED BY <1>1, <1>2, <1>3 DEF UidGone

\* A row of seed.csv is refused when somebody of staff.csv has its uid.
LEMMA GoneNow ==
  ASSUME Control, RowsInv, Refusing, boot.stage = 3
  PROVE  UidGone(Head(boot.script).row)
<1>1. PICK st : st = Head(boot.script)
  OBVIOUS
<1>2. /\ boot.script # <<>> /\ Refused(st) /\ st.op = "user"
      /\ st.row \in Rows(CsvRows) /\ st.n = UidOf[st.row]
  BY <1>1, RefusedIs DEF Refusing
<1>3. PICK q \in db.users : db.uids[q] = UidOf[st.row]
  BY <1>2 DEF Refused, UidTaken
<1>4. st.row \notin db.users
  <2>1. Files = boot.script
    BY DEF Files, Refusing
  <2>2. st = boot.script[1] /\ 1 \in DOMAIN boot.script
    BY <1>1, <1>2, Fields, HeadOrTail
  <2> QED BY <1>2, <2>1, <2>2 DEF RowsInv, Orderly, Shape, Fresh, Making
<1>5. q \in Rows(StaffRows)
  <2>1. q \in People
    BY Fields DEF Tables
  <2>2. UidOf[st.row] \in Nat \ {0}
    BY <1>2, SeedAssumption
  <2>3. ASSUME q \in Rows(CsvRows), db.uids[q] = UidOf[q] PROVE q = st.row
    BY <1>2, <1>3, <2>3, SeedAssumption DEF IsInjective
  <2> QED BY <1>3, <1>4, <2>1, <2>2, <2>3 DEF RowsInv, Numbered
<1> QED BY <1>1, <1>3, <1>5 DEF UidGone

\* The rows of seed.csv are covered.
LEMMA CoveredStep ==
  ASSUME Control, [Next]_vars, RowsInv PROVE Covered'
<1>1. db.users \subseteq db'.users
  BY UsersStay
<1>2. Covered /\ \A p : UidGone(p) => UidGone(p)'
  BY GoneStays DEF RowsInv
<1>3. \/ Beginning \/ Executing \/ Failing \/ Refusing \/ Stopping \/ Leaving
      \/ Starting \/ Busy \/ UNCHANGED vars
  BY Moves
<1>4. boot.stage \in 1..15 /\ Stages[3] = "csv" /\ "csv" \in Listing
        /\ (boot.pc # "run" => boot.script = <<>>)
  BY Fields, StageNames DEF Listing, Control, Held
<1>5. ASSUME Doing(3)', NEW p \in Rows(CsvRows)
      PROVE  p \in db'.users \/ p \in hit' \/ UidGone(p)'
               \/ Makes(boot'.script, p)
  <2>1. CASE Beginning
    <3>1. boot'.script = Concat(CsvRow, CsvRows) /\ db' = db
      BY <1>4, <1>5, <2>1 DEF Beginning, Doing, Script
    <3> QED BY <3>1, CsvScript
  <2>2. CASE Executing
    <3>1. /\ Doing(3) /\ boot'.script = Tail(boot.script) /\ hit' = hit
          /\ boot.script # <<>> /\ db' = Effect(Head(boot.script))
      BY <1>5, <2>2 DEF Executing, Doing
    <3>2. p \in db.users \/ p \in hit \/ UidGone(p) \/ Makes(boot.script, p)
      BY <1>2, <3>1 DEF Covered
    <3>3. PICK st : st = Head(boot.script)
      OBVIOUS
    <3>4. Making(st) => st.row \in db'.users
      <4>1. st \in Statements /\ db' = Effect(st)
        BY <3>1, <3>3, Heads
      <4> QED BY <4>1, EffectPeople
    <3>5. Makes(boot.script, p) => (Making(st) /\ st.row = p)
                                     \/ Makes(Tail(boot.script), p)
      BY <3>1, <3>3, Fields, HeadOrTail
    <3> QED BY <1>1, <1>2, <3>1, <3>2, <3>4, <3>5
  <2>3. CASE Failing
    <3>1. Doing(3) /\ boot.stage \in {3, 5} /\ Files = boot.script
            /\ Files' = boot'.script
      BY <1>5, <2>3 DEF Failing, Doing, Files
    <3>2. p \in db.users \/ p \in hit \/ UidGone(p) \/ Makes(boot.script, p)
      BY <1>2, <3>1 DEF Covered
    <3>3. Makes(Files, p) => p = Head(boot.script).row \/ Makes(Files', p)
      BY <2>3, <3>1, FailingRows DEF RowsInv
    <3>4. hit' = hit \cup {Head(boot.script).row}
      BY <2>3 DEF Failing
    <3> QED BY <1>1, <1>2, <3>1, <3>2, <3>3, <3>4
  <2>6. CASE Refusing
    <3>1. Doing(3) /\ boot.stage \in {3, 5} /\ Files = boot.script
            /\ Files' = boot'.script /\ hit' = hit
      BY <1>5, <2>6 DEF Refusing, Doing, Files
    <3>2. p \in db.users \/ p \in hit \/ UidGone(p) \/ Makes(boot.script, p)
      BY <1>2, <3>1 DEF Covered
    <3>3. Makes(Files, p) => p = Head(boot.script).row \/ Makes(Files', p)
      BY <2>6, <3>1, FailingRows DEF RowsInv
    <3>4. UidGone(Head(boot.script).row)
      BY <2>6, <3>1, GoneNow DEF Doing
    <3> QED BY <1>1, <1>2, <3>1, <3>2, <3>3, <3>4
  <2>4. CASE Stopping \/ Leaving \/ Starting \/ Busy
    BY <1>5, <2>4 DEF Stopping, Leaving, Starting, Busy, Doing
  <2>5. CASE UNCHANGED vars
    BY <1>2, <1>5, <2>5 DEF Covered, Doing, vars
  <2> QED BY <1>3, <2>1, <2>2, <2>3, <2>4, <2>5, <2>6
<1>6. ASSUME Past(3)', NEW p \in Rows(CsvRows)
      PROVE  p \in db'.users \/ p \in hit' \/ "csv" \in hit' \/ UidGone(p)'
  <2>1. CASE Past(3) /\ hit \subseteq hit'
    BY <1>1, <1>2, <2>1 DEF Covered
  <2>2. (Past(3) /\ hit \subseteq hit') \/ (Leaving /\ boot.stage = 3)
    <3>1. CASE Leaving
      BY <1>4, <1>6, <3>1 DEF Leaving, Past
    <3>2. CASE Stopping
      BY <1>6, <3>2 DEF Stopping, Past
    <3>3. CASE Starting
      BY <1>6, <3>3 DEF Starting, Past
    <3>4. CASE Beginning \/ Executing \/ Failing \/ Refusing
      BY <1>6, <3>4 DEF Beginning, Executing, Failing, Refusing, Past
    <3>5. CASE Busy \/ UNCHANGED vars
      BY <1>6, <3>5 DEF Busy, vars, Past
    <3> QED BY <1>3, <3>1, <3>2, <3>3, <3>4, <3>5
  <2>3. CASE Leaving /\ boot.stage = 3
    <3>1. boot.script = <<>> /\ hit \subseteq hit'
            /\ (boot.pc = "run" \/ "csv" \in hit')
      BY <1>4, <2>3 DEF Leaving
    <3>2. CASE boot.pc = "run"
      <4>1. p \in db.users \/ p \in hit \/ UidGone(p) \/ Makes(<<>>, p)
        BY <1>2, <2>3, <3>1, <3>2 DEF Covered, Doing
      <4> QED BY <1>1, <1>2, <3>1, <4>1, NothingLeft
    <3> QED BY <3>1, <3>2
  <2> QED BY <2>1, <2>2, <2>3
<1> QED BY <1>5, <1>6 DEF Covered

\* The rows of the files stay orderly and furnished.
LEMMA FilesStep ==
  ASSUME Control, [Next]_vars, RowsInv PROVE Orderly' /\ Furnishing'
<1>1. Orderly /\ Furnishing
  BY DEF RowsInv
<1>2. boot.pc # "run" => boot.script = <<>>
  BY DEF Control, Held
<1>3. CASE Beginning
  <2>1. CASE boot.stage \in {3, 5}
    BY <1>1, <1>3, <2>1, BeginningRows
  <2>2. CASE boot.stage \notin {3, 5}
    <3>1. Files = <<>> /\ Files' = <<>> /\ UNCHANGED <<db, torn>>
      BY <1>3, <2>2 DEF Beginning, Files
    <3> QED BY <1>1, <3>1, QuietRows
  <2> QED BY <2>1, <2>2
<1>4. CASE Executing
  <2>1. CASE boot.stage \in {3, 5}
    BY <1>1, <1>4, <2>1, ExecutingRows
  <2>2. CASE boot.stage \notin {3, 5}
    <3>1. Files = <<>> /\ Files' = <<>> /\ UNCHANGED torn
      BY <1>4, <2>2 DEF Executing, Files
    <3> QED BY <1>1, <1>4, <2>2, <3>1, ElsewhereRows, QuietRows
  <2> QED BY <2>1, <2>2
<1>5. CASE Failing \/ Refusing
  <2>1. CASE boot.stage \in {3, 5}
    BY <1>1, <1>5, <2>1, FailingRows
  <2>2. CASE boot.stage \notin {3, 5}
    <3>1. Files = <<>> /\ Files' = <<>> /\ UNCHANGED db /\ torn \subseteq torn'
      BY <1>5, <2>2 DEF Failing, Refusing, Files
    <3> QED BY <1>1, <3>1, QuietRows
  <2> QED BY <2>1, <2>2
<1>6. CASE Stopping
  BY <1>1, <1>6, StoppingRows
<1>7. CASE Leaving
  <2>1. Files = <<>> /\ Files' = <<>> /\ UNCHANGED db /\ torn \subseteq torn'
    BY <1>7 DEF Leaving, Files
  <2> QED BY <1>1, <2>1, QuietRows
<1>8. CASE Starting
  <2>1. Files = <<>> /\ Files' = <<>> /\ UNCHANGED <<db, torn>>
    BY <1>8 DEF Starting, Files
  <2> QED BY <1>1, <2>1, QuietRows
<1>9. CASE Busy
  <2>1. Files = <<>> /\ Files' = <<>>
    BY <1>9 DEF Busy, Files
  <2> QED BY <1>1, <1>9, <2>1, QuietRows DEF Busy
<1>10. CASE UNCHANGED vars
  BY <1>1, <1>10 DEF vars, Orderly, Furnishing, Files
<1> QED BY <1>3, <1>4, <1>5, <1>6, <1>7, <1>8, <1>9, <1>10, Moves

\* Between two statements of any function, in every reachable state: the rows of
\* the files that have a user have the rest too, or it still waits in the list.
THEOREM AlwaysRows == Spec => []RowsInv
<1>1. Init => RowsInv
  <2> SUFFICES ASSUME Init PROVE RowsInv
    OBVIOUS
  <2>1. db.users = {} /\ boot.pc = "down" /\ \A q \in People : db.uids[q] = 0
    BY DEF Init, At
  <2>2. Files = <<>>
    BY <2>1 DEF Files
  <2> QED BY <2>1, <2>2, NothingLeft
          DEF RowsInv, Orderly, Furnishing, Numbered, Covered, Doing, Past
<1>2. Control /\ RowsInv /\ [Next]_vars => RowsInv'
  BY FilesStep, NumberedStep, CoveredStep DEF RowsInv
<1> QED BY <1>1, <1>2, AlwaysControl, PTL DEF Spec

\* The rows of the files are independent, whatever they hold and however often
\* the seeding is killed or fails: once the backend serves, every row of seed.csv
\* has its user unless a fault of this boot struck that row or the whole file, or
\* a row of staff.csv has been given its uid (a boot in which a row of seed.csv
\* failed may do so); and every user of a file has its profile, job, membership
\* and team unless a fault struck that very row after its user was inserted.
THEOREM RowsAlwaysIndependent == Spec => []RowsAreIndependent
<1>1. Control /\ RowsInv => RowsAreIndependent
  <2> SUFFICES ASSUME Control, RowsInv, Served PROVE RowsAreIndependent
    BY DEF RowsAreIndependent
  <2>1. boot.pc = "serve" /\ Files = <<>>
    BY DEF Served, Files
  <2>2. \A p \in Rows(CsvRows) :
          p \in db.users \/ p \in hit \/ "csv" \in hit \/ UidGone(p)
    BY <2>1 DEF RowsInv, Covered, Past
  <2>3. ASSUME NEW p \in db.users \ (torn \cup {Admin})
        PROVE  /\ p \in db.profiles
               /\ p \in Managers => p \in db.managing
               /\ p \in Workers => p \in db.members /\ <<p, JobOf[p]>> \in db.works
    <3>1. p \in People
      BY Fields DEF Tables
    <3>2. Furnished(p, db, <<>>)
      BY <2>1, <3>1 DEF RowsInv, Furnishing
    <3> QED BY <3>2, NothingLeft DEF Furnished
  <2> QED BY <2>2, <2>3 DEF RowsAreIndependent
<1> QED BY <1>1, AlwaysControl, AlwaysRows, PTL

-----------------------------------------------------------------------------
(***************************************************************************)
(* A boot that meets no fault.                                             *)
(***************************************************************************)
\* How it comes to be at the list of a function, and past it.
LEMMA Reaching ==
  ASSUME Control, [Next]_vars, hit' = {}, NEW n \in {2, 6, 7, 8, 10}
  PROVE  /\ Doing(n)' =>
              \/ Beginning /\ boot.stage = n /\ hit = {}
              \/ Executing /\ Doing(n) /\ hit = {}
              \/ Refusing /\ Doing(n) /\ hit = {} /\ n = 10
              \/ UNCHANGED vars
         /\ Past(n)' =>
              \/ Past(n) /\ hit = {} /\ UNCHANGED db
              \/ Past(n) /\ hit = {} /\ Executing /\ boot.stage > n
              \/ Past(n) /\ hit = {} /\ Busy
              \/ Doing(n) /\ hit = {} /\ boot.script = <<>> /\ UNCHANGED db
<1>1. \/ Beginning \/ Executing \/ Failing \/ Refusing \/ Stopping \/ Leaving
      \/ Starting \/ Busy \/ UNCHANGED vars
  BY Moves
<1>2. boot.stage \in 1..15 /\ Stages[n] \in Listing
  BY Fields, StageIs
<1>3. CASE Beginning
  BY <1>3 DEF Beginning, Doing, Past
<1>4. CASE Executing
  BY <1>4 DEF Executing, Doing, Past
<1>5. CASE Failing
  BY <1>5 DEF Failing
<1>6. CASE Stopping
  BY <1>6 DEF Stopping, Doing, Past
<1>7. CASE Leaving
  <2>1. hit = {} /\ UNCHANGED db /\ boot.script = <<>> /\ ~Doing(n)'
    BY <1>7 DEF Leaving, Doing
  <2>2. CASE boot.stage = n
    BY <1>2, <1>7, <2>1, <2>2 DEF Leaving, Doing
  <2>3. CASE boot.stage # n
    BY <1>2, <1>7, <2>1, <2>3 DEF Leaving, Past
  <2> QED BY <2>2, <2>3
<1>8. CASE Starting
  BY <1>8 DEF Starting, Doing, Past
<1>9. CASE Busy
  BY <1>2, <1>9 DEF Busy, Doing, Past
<1>10. CASE UNCHANGED vars
  BY <1>10 DEF vars, Past
<1>11. CASE Refusing
  <2>1. boot.stage \in {3, 5, 10}
    BY <1>11, RefusedIs DEF Refusing
  <2> QED BY <1>11, <2>1 DEF Refusing, Doing, Past
<1> QED BY <1>1, <1>3, <1>4, <1>5, <1>6, <1>7, <1>8, <1>9, <1>10, <1>11

\* Sequences one after the other have the elements of each, and no others.
LEMMA PlacedCovers ==
  ASSUME NEW s, NEW n, NEW list, DOMAIN list = 1..n, NEW ss, NEW blk, NEW pos,
         Places(s, ss, n, blk, pos)
  PROVE  Covers(s, ss, list)
<1>1. ASSUME NEW k \in DOMAIN list, NEW o \in DOMAIN ss[k]
      PROVE  \E i \in DOMAIN s : s[i] = ss[k][o]
  <2>1. PICK i \in DOMAIN s : blk[i] = k /\ pos[i] = o
    BY DEF Places
  <2> QED BY <2>1 DEF Places
<1>2. ASSUME NEW i \in DOMAIN s
      PROVE  \E k \in DOMAIN list : \E o \in DOMAIN ss[k] : s[i] = ss[k][o]
  BY DEF Places
<1> QED BY <1>1, <1>2 DEF Covers

\* A list of scripts one after the other has the statements of each.
LEMMA Spread ==
  ASSUME NEW S, NEW R, NEW list \in Seq(R), NEW ss,
         DOMAIN ss = DOMAIN list, ss = [k \in DOMAIN list |-> ss[k]],
         \A k \in DOMAIN list : ss[k] \in Seq(S)
  PROVE  Covers(FlattenSeq(ss), ss, list)
<1>1. PICK blk, pos : Places(FlattenSeq(ss), ss, Len(list), blk, pos)
  BY FlattenPlaces
<1>2. DOMAIN list = 1..Len(list)
  BY LenProperties
<1> QED BY <1>1, <1>2, PlacedCovers, Zenon

-----------------------------------------------------------------------------
\* ensureDevAdmin.
AdminInv ==
  /\ Doing(2) => Admin \in db.profiles \/ Waiting({"profile"}, Admin, boot.script)
  /\ Past(2) => Admin \in db.profiles

\* Every step keeps what ensureDevAdmin has done.
LEMMA AdminStep ==
  ASSUME Control, [Next]_vars, hit' = {}, hit = {} => AdminInv PROVE AdminInv'
<1>1. CASE Executing
  <2>1. PICK st : st = Head(boot.script)
    OBVIOUS
  <2>2. st \in Statements /\ db' = Effect(st) /\ boot.script # <<>>
          /\ boot'.script = Tail(boot.script)
    BY <1>1, <2>1, Heads DEF Executing
  <2>3. /\ db.profiles \subseteq db'.profiles
        /\ st.op \in {"profile", "staff_profile"} => st.row \in db'.profiles
    BY <2>2, EffectPeople
  <2>4. Waiting({"profile"}, Admin, boot.script) =>
          \/ st.op \in {"profile"} /\ st.row = Admin
          \/ Waiting({"profile"}, Admin, boot'.script)
    BY <2>1, <2>2, Fields, HeadOrTail
  <2>5. Doing(2)' => Doing(2) /\ hit = {}
    BY <1>1 DEF Executing, Doing
  <2>6. Past(2)' => Past(2) /\ hit = {}
    BY <1>1 DEF Executing, Past
  <2> QED BY <2>3, <2>4, <2>5, <2>6 DEF AdminInv
<1>2. ASSUME Doing(2)', ~Executing
      PROVE  Admin \in db'.profiles \/ Waiting({"profile"}, Admin, boot'.script)
  <2>1. CASE Beginning /\ boot.stage = 2
    <3>1. boot'.script = <<Do("admin", Admin), Do("profile", Admin)>>
      BY <2>1, StageNames DEF Beginning, Script
    <3>2. 2 \in DOMAIN boot'.script /\ boot'.script[2] = Do("profile", Admin)
      BY <3>1
    <3> QED BY <3>2, DoIs DEF Waiting
  <2>2. CASE UNCHANGED vars
    BY <1>2, <2>2 DEF vars, AdminInv, Doing
  <2> QED BY <1>2, <2>1, <2>2, Reaching
<1>3. ASSUME Past(2)', ~Executing PROVE Admin \in db'.profiles
  <2>1. CASE Past(2) /\ hit = {} /\ db'.profiles = db.profiles
    BY <2>1 DEF AdminInv
  <2>2. CASE Doing(2) /\ hit = {} /\ boot.script = <<>> /\ UNCHANGED db
    BY <2>2, NothingLeft DEF AdminInv
  <2> QED BY <1>3, <2>1, <2>2, Reaching DEF Busy
<1> QED BY <1>1, <1>2, <1>3 DEF AdminInv

-----------------------------------------------------------------------------
\* seedStaff.  Its list, if it has one, starts with the INSERT of 'Staff Work',
\* and gives the staff account that job further on.
Settled == HasJob \/ StaffJob \in torn
StaffList(s) ==
  /\ s # <<>> => StaffAccount \in db.users
  /\ \A k \in DOMAIN s : s[k].op = "new_job" =>
       k = 1 /\ Waiting({"works"}, StaffAccount, s)

\* 'Staff Work' exists only because the staff account has a job, or a fault came
\* between the two, or the list is between the two.
Underway == /\ Doing(10) /\ Waiting({"works"}, StaffAccount, boot.script)
            /\ \A k \in DOMAIN boot.script : boot.script[k].op # "new_job"
WorkInv  == /\ Doing(10) => StaffList(boot.script)
            /\ StaffJob \in db.jobs => Settled \/ Underway

StaffInv ==
  /\ Doing(10) => (StaffAccount \in db.users =>
                     Settled \/ Waiting({"works"}, StaffAccount, boot.script))
  /\ Past(10) => (StaffAccount \in db.users => Settled)

\* The list of seedStaff.
LEMMA StaffWorkIs ==
  ASSUME NEW s, s = StaffWork
  PROVE  /\ StaffList(s)
         /\ StaffAccount \in db.users =>
              HasJob \/ Waiting({"works"}, StaffAccount, s)
<1>1. CASE StaffAccount \notin db.users \/ HasJob
  <2>1. s = <<>>
    BY <1>1 DEF StaffWork, HasJob
  <2>2. DOMAIN s = {}
    BY <2>1
  <2> QED BY <1>1, <2>1, <2>2 DEF StaffList
<1>2. CASE StaffAccount \in db.users /\ ~HasJob
  <2> DEFINE a == <<DoJob("new_job", StaffAccount, StaffJob)>>
             b == HoursOf(StaffAccount, StaffJob, DefaultHours)
             c == <<DoJob("works", StaffAccount, StaffJob),
                    DoJob("member", StaffAccount, StaffJob)>>
             S == Listed("staff")
             ab == a \o b
  <2>1. StaffWork = a \o b \o c
    BY <1>2 DEF StaffWork, HasJob
  <2>2. a \in Seq(S) /\ c \in Seq(S) /\ b \in Seq(S)
    <3>1. a \in Seq(S) /\ c \in Seq(S)
      BY Listings, Two
    <3>2. b \in Seq(S)
      <4>1. DefaultHours \in Seq(Slots) /\ Rows(DefaultHours) \subseteq Slots
        BY Lists
      <4>2. \A slot \in Slots : DoSlot(StaffAccount, StaffJob, slot) \in S
        BY Listings, Roles
      <4> HIDE DEF S
      <4>3. HoursOf(StaffAccount, StaffJob, DefaultHours) \in Seq(S)
        BY <4>1, <4>2, HoursOfType
      <4> QED BY <4>3
    <3> QED BY <3>1, <3>2
  <2>3. DOMAIN a = {1} /\ \A st \in Rows(b) : st.op = "hours"
    <3>1. Rows(b) = {DoSlot(StaffAccount, StaffJob, slot) : slot \in Rows(DefaultHours)}
      BY HoursIs
    <3> HIDE DEF b
    <3>2. \A st \in Rows(b) : st.op = "hours"
      BY <3>1, DoIs
    <3>3. DOMAIN a = {1}
      OBVIOUS
    <3> QED BY <3>2, <3>3
  <2>4. PICK w : w = DoJob("works", StaffAccount, StaffJob)
    OBVIOUS
  <2>5. w \in Rows(c) /\ \A st \in Rows(c) : st.op # "new_job"
    <3>1. /\ DOMAIN c = {1, 2} /\ c[1] = w
          /\ c[2] = DoJob("member", StaffAccount, StaffJob)
      BY <2>4
    <3> HIDE DEF c
    <3>2. \A st \in Rows(c) : st = w \/ st = DoJob("member", StaffAccount, StaffJob)
      BY <3>1 DEF Rows
    <3>3. w \in Rows(c)
      BY <3>1 DEF Rows
    <3> QED BY <2>4, <3>2, <3>3, DoIs
  <2> HIDE DEF a, b, c, S
  <2>6. /\ ab \in Seq(S)
        /\ \A i \in DOMAIN ab : i \in DOMAIN a \/ ab[i] \in Rows(b)
    BY <2>2, Joined, Zenon
  <2> HIDE DEF ab
  <2>7. /\ Rows(ab \o c) = Rows(ab) \cup Rows(c)
        /\ \A i \in DOMAIN ab : i \in DOMAIN (ab \o c) /\ (ab \o c)[i] = ab[i]
        /\ \A i \in DOMAIN (ab \o c) : i \in DOMAIN ab \/ (ab \o c)[i] \in Rows(c)
    BY <2>2, <2>6, Joined, Zenon
  <2>8. s = ab \o c
    BY <2>1 DEF ab
  <2>9. Waiting({"works"}, StaffAccount, s)
    <3>1. w.op \in {"works"} /\ w.row = StaffAccount
      BY <2>4, DoIs
    <3>2. w \in Rows(s)
      BY <2>5, <2>7, <2>8
    <3> QED BY <3>1, <3>2, WaitingIs
  <2>10. \A k \in DOMAIN s : s[k].op = "new_job" => k = 1
    <3> SUFFICES ASSUME NEW k \in DOMAIN s, s[k].op = "new_job" PROVE k = 1
      OBVIOUS
    <3>1. k \in DOMAIN ab /\ s[k] = ab[k]
      BY <2>5, <2>7, <2>8
    <3> QED BY <2>3, <2>6, <3>1
  <2> QED BY <1>2, <2>9, <2>10 DEF StaffList
<1> QED BY <1>1, <1>2

\* What the staff account has, or a fault has torn, stays so.
LEMMA SettledStays ==
  ASSUME Control, [Next]_vars, Settled PROVE Settled'
<1>1. torn \subseteq torn' /\ db.works \subseteq db'.works
  <2>1. CASE Executing
    <3>1. PICK st : st = Head(boot.script)
      OBVIOUS
    <3>2. st \in Statements /\ db' = Effect(st) /\ torn' = torn
      BY <2>1, <3>1, Heads DEF Executing
    <3> QED BY <3>2, EffectPeople
  <2>2. CASE Beginning \/ Failing \/ Refusing \/ Stopping \/ Leaving \/ Starting
               \/ Busy \/ UNCHANGED vars
    BY <2>2 DEF Beginning, Failing, Refusing, Stopping, Leaving, Starting, Busy, vars
  <2> QED BY <2>1, <2>2, Moves
<1> QED BY <1>1 DEF Settled, HasJob

\* The statement the list of seedStaff is at, and what is left after it.
LEMMA StaffHead ==
  ASSUME Control, Doing(10), boot.script # <<>>, NEW st, st = Head(boot.script),
         NEW t, t = Tail(boot.script)
  PROVE  /\ st \in Statements /\ st.op \in {"new_job", "hours", "works", "member"}
         /\ st.row = StaffAccount /\ st.job = StaffJob
         /\ 1 \in DOMAIN boot.script /\ st = boot.script[1]
         /\ t \in Seq(Listed("staff"))
         /\ \A i \in DOMAIN t : \E k \in DOMAIN boot.script :
              k # 1 /\ t[i] = boot.script[k]
<1>1. st \in Listed("staff") /\ st \in Statements /\ t \in Seq(Listed("staff"))
  BY Heads, StageNames DEF Doing
<1>2. /\ st.op \in {"new_job", "hours", "works", "member"}
      /\ st.row = StaffAccount /\ st.job = StaffJob
  BY <1>1, OpsAre DEF Listed, Allowed
<1>3. 1 \in DOMAIN boot.script /\ st = boot.script[1]
  BY Fields, HeadOrTail
<1>4. PICK f : Thinned(boot.script, t, f)
  BY Fields, TailThin
<1>5. \A i \in DOMAIN t : \E k \in DOMAIN boot.script :
        k # 1 /\ t[i] = boot.script[k]
  BY <1>4 DEF Thinned
<1> QED BY <1>1, <1>2, <1>3, <1>5

\* A fault after the INSERT of 'Staff Work' tears it.
LEMMA WorkTorn ==
  ASSUME Control, Doing(10), StaffList(boot.script), boot.script # <<>>,
         StaffJob \in db.jobs
  PROVE  StaffJob \in Half(Head(boot.script))
<1>1. PICK st : st = Head(boot.script)
  OBVIOUS
<1>2. st.row = StaffAccount /\ st.job = StaffJob
  BY <1>1, StaffHead
<1>3. StaffAccount \in db.users
  BY DEF StaffList
<1> QED BY <1>1, <1>2, <1>3 DEF Half

\* No statement after the first of the list of seedStaff inserts the job.
LEMMA StaffListStep ==
  ASSUME Control, [Next]_vars, WorkInv, Doing(10)' PROVE StaffList(boot.script)'
<1>1. db.users \subseteq db'.users
  BY UsersStay
<1>2. CASE Beginning
  <2>1. PICK s : s = StaffWork
    OBVIOUS
  <2>2. boot'.script = s /\ db' = db
    BY <1>2, <2>1, StageNames DEF Beginning, Doing, Script
  <2>3. StaffList(s)
    BY <2>1, StaffWorkIs
  <2> QED BY <2>2, <2>3 DEF StaffList
<1>3. CASE Executing \/ Failing \/ Refusing
  <2>1. PICK st, t : st = Head(boot.script) /\ t = Tail(boot.script)
    OBVIOUS
  <2>2. /\ Doing(10) /\ boot.script # <<>>
        /\ boot'.script = t \/ boot'.script = AfterError(st, t)
    BY <1>3, <2>1 DEF Executing, Failing, Refusing, Doing
  <2>3. StaffList(boot.script)
    BY <2>2 DEF WorkInv
  <2> DEFINE S == {x \in Listed("staff") : x.op # "new_job"}
  <2>4. t \in Seq(S)
    <3>1. /\ t \in Seq(Listed("staff"))
          /\ \A i \in DOMAIN t : \E k \in DOMAIN boot.script :
               k # 1 /\ t[i] = boot.script[k]
      <4>1. Doing(10) /\ boot.script # <<>>
        BY <2>2
      <4>2. st = Head(boot.script) /\ t = Tail(boot.script)
        BY <2>1
      <4> HIDE DEF S
      <4>3. t \in Seq(Listed("staff"))
        BY <4>1, <4>2, StaffHead
      <4>4. \A i \in DOMAIN t : \E k \in DOMAIN boot.script :
              k # 1 /\ t[i] = boot.script[k]
        BY <4>1, <4>2, StaffHead
      <4> QED BY <4>3, <4>4
    <3>2. \A i \in DOMAIN t : t[i] \in Listed("staff") /\ t[i].op # "new_job"
      <4> SUFFICES ASSUME NEW i \in DOMAIN t
                   PROVE  t[i] \in Listed("staff") /\ t[i].op # "new_job"
        OBVIOUS
      <4>1. t[i] \in Listed("staff")
        BY <3>1
      <4> QED BY <2>3, <3>1, <4>1 DEF StaffList
    <3>3. DOMAIN t = 1..Len(t) /\ Len(t) \in Nat
      BY <3>1, LenProperties
    <3>4. t = [i \in 1..Len(t) |-> t[i]]
      BY <3>1, <3>3
    <3>5. \A i \in 1..Len(t) : t[i] \in S
      BY <3>2, <3>3
    <3> HIDE DEF S
    <3> QED BY <3>3, <3>4, <3>5, IsASeq
  <2>5. PICK r : r = boot'.script
    OBVIOUS
  <2>6. r \in Seq(S)
    <3> HIDE DEF S
    <3> QED BY <2>2, <2>4, <2>5, AfterErrorType
  <2>7. \A k \in DOMAIN r : r[k].op # "new_job"
    BY <2>6
  <2>8. StaffAccount \in db.users
    BY <2>2, <2>3 DEF StaffList
  <2> QED BY <1>1, <2>5, <2>7, <2>8 DEF StaffList
<1>4. CASE Stopping \/ Leaving \/ Starting \/ Busy
  BY <1>4 DEF Stopping, Leaving, Starting, Busy, Doing
<1>5. CASE UNCHANGED vars
  BY <1>5 DEF vars, WorkInv, StaffList, Doing
<1> QED BY <1>2, <1>3, <1>4, <1>5, Moves

\* Who has 'Staff Work' in the list before a statement has it after, but for the
\* statement itself.
LEMMA UnderwayStep ==
  ASSUME Control, [Next]_vars, Executing, Doing(10),
         Waiting({"works"}, StaffAccount, boot.script),
         \A k \in DOMAIN boot.script : boot.script[k].op = "new_job" => k = 1
  PROVE  Settled' \/ Underway'
<1>1. PICK st, t : st = Head(boot.script) /\ t = Tail(boot.script)
  OBVIOUS
<1>2. /\ boot.script # <<>> /\ boot'.script = t /\ db' = Effect(st) /\ Doing(10)'
  BY <1>1 DEF Executing, Doing
<1>3. /\ st \in Statements /\ st.row = StaffAccount /\ st.job = StaffJob
      /\ st = boot.script[1]
      /\ \A i \in DOMAIN t : \E k \in DOMAIN boot.script :
           k # 1 /\ t[i] = boot.script[k]
  BY <1>1, <1>2, StaffHead
<1>4. \A i \in DOMAIN t : t[i].op # "new_job"
  BY <1>3
<1>5. CASE st.op \in {"works"}
  <2>1. <<StaffAccount, StaffJob>> \in db'.works
    BY <1>2, <1>3, <1>5, EffectPeople
  <2>2. StaffJob \in Jobs
    BY <1>3, <1>5 DEF Statements, Sound, Of
  <2> QED BY <2>1, <2>2 DEF Settled, HasJob
<1>6. CASE st.op \notin {"works"}
  <2>1. Waiting({"works"}, StaffAccount, boot.script) =>
          \/ boot.script[1].op \in {"works"} /\ boot.script[1].row = StaffAccount
          \/ Waiting({"works"}, StaffAccount, Tail(boot.script))
    BY <1>2, Fields, HeadOrTail
  <2>2. Waiting({"works"}, StaffAccount, t)
    BY <1>1, <1>3, <1>6, <2>1
  <2> QED BY <1>2, <1>4, <2>2 DEF Underway
<1> QED BY <1>5, <1>6

\* The job the staff account was to get is not there without a reason.
LEMMA WorkStep ==
  ASSUME Control, [Next]_vars, WorkInv PROVE WorkInv'
<1>1. ASSUME StaffJob \in db'.jobs, ~Settled PROVE Settled' \/ Underway'
  <2>1. CASE StaffJob \in db.jobs
    <3>1. Underway /\ StaffList(boot.script) /\ boot.script # <<>>
      <4>1. Underway /\ StaffList(boot.script)
        BY <1>1, <2>1 DEF WorkInv, Underway
      <4> QED BY <4>1, NothingLeft DEF Underway
    <3>2. StaffJob \in Half(Head(boot.script))
      BY <2>1, <3>1, WorkTorn DEF Underway
    <3>3. CASE Executing
      BY <3>1, <3>3, UnderwayStep DEF Underway
    <3>4. CASE Failing \/ Stopping
      <4>1. StaffJob \in torn'
        BY <3>1, <3>2, <3>4 DEF Failing, Stopping
      <4> QED BY <4>1 DEF Settled
    <3>5. CASE Refusing
      <4>1. Head(boot.script).op = "new_job"
        BY <3>1, <3>5, RefusedIs DEF Refusing, Underway, Doing
      <4>2. 1 \in DOMAIN boot.script /\ Head(boot.script) = boot.script[1]
        BY <3>1, Fields, HeadOrTail
      <4> QED BY <3>1, <4>1, <4>2 DEF Underway
    <3>6. CASE Beginning \/ Leaving \/ Starting \/ Busy
      BY <3>1, <3>6 DEF Beginning, Leaving, Starting, Busy, Underway, Doing
    <3>7. CASE UNCHANGED vars
      BY <3>1, <3>7 DEF vars, Underway, Doing
    <3> QED BY <3>3, <3>4, <3>5, <3>6, <3>7, Moves
  <2>2. CASE StaffJob \notin db.jobs
    <3>1. Executing
      <4>1. CASE Beginning \/ Failing \/ Refusing \/ Stopping \/ Leaving
                   \/ Starting \/ Busy \/ UNCHANGED vars
        BY <1>1, <2>2, <4>1 DEF Beginning, Failing, Refusing, Stopping, Leaving,
                                Starting, Busy, vars
      <4> QED BY <4>1, Moves
    <3>2. PICK st : st = Head(boot.script)
      OBVIOUS
    <3>3. /\ st \in Statements /\ st \in Listed(Stages[boot.stage])
          /\ Stages[boot.stage] \in Listing /\ db' = Effect(st)
          /\ boot.script # <<>> /\ boot.pc = "run"
      BY <3>1, <3>2, Heads DEF Executing
    <3>4. st.op \in {"job", "new_job"} /\ st.job = StaffJob
      <4>1. PICK e : e = Effect(st)
        OBVIOUS
      <4>2. /\ st.op \in {"job", "new_job"} => e.jobs = db.jobs \cup {st.job}
            /\ st.op \notin {"job", "new_job"} => e.jobs = db.jobs
        BY <3>3, <4>1, EffectJobs
      <4> QED BY <1>1, <2>2, <3>3, <4>1, <4>2
    <3>5. st.op \in OpsOf(Stages[boot.stage]) /\ (st.op = "job" => st.job # StaffJob)
      BY <3>3 DEF Listed, Allowed
    <3>6. st.op = "new_job"
      BY <3>4, <3>5
    <3>7. boot.stage = 10
      <4>1. boot.stage \in {1, 2, 3, 4, 5, 6, 7, 8, 10}
        BY <3>3, Fields, StageIs
      <4>2. CASE boot.stage \in {1, 2, 3, 4}
        BY <3>5, <3>6, <4>2, StageNames, OpsAre
      <4>3. CASE boot.stage \in {5, 6, 7, 8}
        BY <3>5, <3>6, <4>3, StageNames, OpsAre
      <4> QED BY <4>1, <4>2, <4>3
    <3>8. Doing(10) /\ StaffList(boot.script)
      BY <3>3, <3>7 DEF Doing, WorkInv
    <3>9. 1 \in DOMAIN boot.script /\ st = boot.script[1]
      BY <3>2, <3>3, Fields, HeadOrTail
    <3> QED BY <3>1, <3>6, <3>8, <3>9, UnderwayStep DEF StaffList
  <2> QED BY <2>1, <2>2
<1>2. CASE Settled
  BY <1>2, SettledStays, StaffListStep DEF WorkInv
<1>3. CASE ~Settled
  BY <1>1, <1>3, StaffListStep DEF WorkInv
<1> QED BY <1>2, <1>3

\* In every reachable state.
LEMMA AlwaysWork == Spec => []WorkInv
<1>1. Init => WorkInv
  <2> SUFFICES ASSUME Init PROVE WorkInv
    OBVIOUS
  <2>1. boot.pc = "down" /\ db.jobs = {}
    BY DEF Init, At
  <2> QED BY <2>1 DEF WorkInv, Doing
<1>2. Control /\ WorkInv /\ [Next]_vars => WorkInv'
  BY WorkStep
<1> QED BY <1>1, <1>2, AlwaysControl, PTL DEF Spec

\* Every step keeps what seedStaff has done.
LEMMA StaffStep ==
  ASSUME Control, WorkInv, [Next]_vars, hit' = {}, hit = {} => StaffInv
  PROVE  StaffInv'
<1>0. boot.stage \in 1..15
  BY Fields
<1>1. ASSUME Doing(10)', StaffAccount \in db'.users
      PROVE  Settled' \/ Waiting({"works"}, StaffAccount, boot'.script)
  <2>1. CASE Beginning /\ boot.stage = 10
    <3>1. PICK s : s = StaffWork
      OBVIOUS
    <3>2. boot'.script = s /\ db' = db
      BY <2>1, <3>1, StageNames DEF Beginning, Script
    <3>3. HasJob \/ Waiting({"works"}, StaffAccount, s)
      BY <1>1, <3>1, <3>2, StaffWorkIs
    <3> QED BY <3>2, <3>3 DEF Settled, HasJob
  <2>2. CASE Executing /\ Doing(10) /\ hit = {}
    <3>1. PICK st : st = Head(boot.script)
      OBVIOUS
    <3>2. boot.script # <<>> /\ db' = Effect(st) /\ boot'.script = Tail(boot.script)
      BY <2>2, <3>1 DEF Executing
    <3>3. st \in Statements /\ st.op \in {"new_job", "hours", "works", "member"}
      BY <2>2, <3>1, <3>2, StaffHead
    <3>4. db'.users = db.users
      BY <3>2, <3>3, EffectPeople DEF Making
    <3>5. Settled \/ Waiting({"works"}, StaffAccount, boot.script)
      BY <1>1, <2>2, <3>4 DEF StaffInv
    <3>6. CASE Waiting({"works"}, StaffAccount, boot.script)
      <4>1. StaffList(boot.script)
        BY <2>2 DEF WorkInv
      <4> QED BY <2>2, <3>6, <4>1, UnderwayStep DEF StaffList, Underway
    <3> QED BY <3>5, <3>6, SettledStays
  <2>3. CASE Refusing /\ Doing(10)
    <3>1. /\ boot.script # <<>> /\ Head(boot.script).op = "new_job"
          /\ StaffJob \in db.jobs
      BY <2>3, RefusedIs DEF Refusing, Refused, Doing
    <3>2. 1 \in DOMAIN boot.script /\ boot.script[1].op = "new_job"
      BY <3>1, Fields, HeadOrTail
    <3>3. Settled
      BY <3>1, <3>2 DEF WorkInv, Underway
    <3> QED BY <3>3, SettledStays
  <2>4. CASE UNCHANGED vars
    BY <1>1, <2>4 DEF vars, StaffInv, Doing, Settled, HasJob
  <2> QED BY <1>1, <2>1, <2>2, <2>3, <2>4, Reaching
<1>2. ASSUME Past(10)', StaffAccount \in db'.users PROVE Settled'
  <2>1. CASE Past(10) /\ hit = {} /\ UNCHANGED db.users
    <3>1. Settled
      BY <1>2, <2>1 DEF StaffInv
    <3> QED BY <3>1, SettledStays
  <2>2. CASE Executing /\ boot.stage > 10
    <3>1. Stages[boot.stage] \in Listing
      BY <2>2, Heads DEF Executing
    <3> QED BY <1>0, <2>2, <3>1, StageIs
  <2>3. CASE Doing(10) /\ hit = {} /\ boot.script = <<>> /\ UNCHANGED db
    <3>1. Settled
      BY <1>2, <2>3, NothingLeft DEF StaffInv
    <3> QED BY <3>1, SettledStays
  <2> QED BY <1>2, <2>1, <2>2, <2>3, Reaching DEF Busy
<1> QED BY <1>1, <1>2 DEF StaffInv

\* Does the statement delete the hours of a job?
Clears(j, st) == st.op = "clear" /\ st.job = j

\* What seedSecuritySchedules runs for one guard job: the delete comes first, and
\* only once, and then each of the three shifts.
LEMMA ReplaceBlock ==
  ASSUME NEW j \in db.jobs \cap SecurityJobs, NEW b, b = Replace(j)
  PROVE  /\ 1 \in DOMAIN b
         /\ \A o \in DOMAIN b : /\ o \in Nat /\ 1 <= o /\ b[o].job = j
                                /\ b[o].op = "clear" <=> o = 1
         /\ \A slot \in Rows(SecurityHours) :
              \E o \in DOMAIN b : b[o] = DoSlot(j, j, slot) /\ o # 1
<1> DEFINE c == DoJob("clear", j, j)
           a == <<c>>
           h == HoursOf(j, j, SecurityHours)
           S == {c} \cup Rows(h)
<1>1. b = a \o h
  BY DEF Replace
<1>2. a \in Seq(S) /\ DOMAIN a = {1} /\ a[1] = c
  OBVIOUS
<1>3. h \in Seq(S)
  <2>1. DefaultHours \in Seq(Slots) /\ SecurityHours \in Seq(Slots)
    BY Lists
  <2>2. \A slot \in Rows(SecurityHours) : DoSlot(j, j, slot) \in S
    BY HoursIs
  <2> HIDE DEF S
  <2> QED BY <2>1, <2>2, HoursOfType
<1>4. /\ c.op = "clear" /\ c.job = j
      /\ \A slot : DoSlot(j, j, slot).op = "hours" /\ DoSlot(j, j, slot).job = j
  BY DoIs
<1>5. Rows(h) = {DoSlot(j, j, slot) : slot \in Rows(SecurityHours)}
  BY HoursIs
<1>6. \A st \in Rows(h) : st.op = "hours" /\ st.job = j
  <2> SUFFICES ASSUME NEW st \in Rows(h) PROVE st.op = "hours" /\ st.job = j
    OBVIOUS
  <2>1. PICK slot : st = DoSlot(j, j, slot)
    BY <1>5
  <2> QED BY <1>4, <2>1
<1> HIDE DEF a, h, S, c
<1>7. /\ b \in Seq(S) /\ Rows(b) = Rows(a) \cup Rows(h)
      /\ \A i \in DOMAIN a : i \in DOMAIN b /\ b[i] = a[i]
      /\ \A i \in DOMAIN b : i \in DOMAIN a \/ b[i] \in Rows(h)
  BY <1>1, <1>2, <1>3, Joined
<1>8. 1 \in DOMAIN b /\ b[1] = c
  BY <1>2, <1>7
<1>9. DOMAIN b = 1..Len(b) /\ Len(b) \in Nat
  BY <1>7, LenProperties
<1>10. \A o \in DOMAIN b : o = 1 \/ b[o] \in Rows(h)
  BY <1>2, <1>7
<1>11. ASSUME NEW o \in DOMAIN b
       PROVE  o \in Nat /\ 1 <= o /\ b[o].job = j /\ (b[o].op = "clear" <=> o = 1)
  <2>1. o \in Nat /\ 1 <= o
    BY <1>9
  <2>2. CASE o = 1
    BY <1>4, <1>8, <2>1, <2>2
  <2>3. CASE o # 1
    BY <1>6, <1>10, <2>1, <2>3
  <2> QED BY <2>2, <2>3
<1>12. ASSUME NEW slot \in Rows(SecurityHours)
       PROVE  \E o \in DOMAIN b : b[o] = DoSlot(j, j, slot) /\ o # 1
  <2>1. DoSlot(j, j, slot) \in Rows(b)
    BY <1>5, <1>7
  <2>2. PICK o \in DOMAIN b : b[o] = DoSlot(j, j, slot)
    BY <2>1 DEF Rows
  <2>3. o # 1
    BY <1>4, <1>8, <2>2
  <2> QED BY <2>2, <2>3
<1> QED BY <1>8, <1>11, <1>12

\* What it leaves to do for a guard job, in the script s.
Guarded(j, s) ==
  \E c \in DOMAIN s :
    /\ \A i \in DOMAIN s : Clears(j, s[i]) <=> i = c
    /\ \A slot \in Rows(SecurityHours) :
         \E k \in DOMAIN s : s[k] = DoSlot(j, j, slot) /\ c < k

\* The block of one of its jobs, in its place in the script.
LEMMA PlacedGuards ==
  ASSUME NEW S, NEW s \in Seq(S), NEW n \in Nat, NEW list, DOMAIN list = 1..n,
         IsInjective(list), NEW ss, \A k \in DOMAIN list : ss[k] = Replace(list[k]),
         NEW blk, NEW pos, Places(s, ss, n, blk, pos),
         NEW m \in DOMAIN list, list[m] \in db.jobs \cap SecurityJobs
  PROVE  Guarded(list[m], s)
<1> DEFINE j == list[m]
<1>1. /\ 1 \in DOMAIN ss[m]
      /\ \A o \in DOMAIN ss[m] : /\ o \in Nat /\ 1 <= o /\ ss[m][o].job = j
                                 /\ ss[m][o].op = "clear" <=> o = 1
      /\ \A slot \in Rows(SecurityHours) :
           \E o \in DOMAIN ss[m] : ss[m][o] = DoSlot(j, j, slot) /\ o # 1
  BY ReplaceBlock
<1>2. ASSUME NEW k \in DOMAIN list, NEW o \in DOMAIN ss[k]
      PROVE  ss[k][o].job = list[k]
  <2>1. ss[k] # <<>>
    BY <1>2, DOMAIN <<>> = {}
  <2>2. list[k] \in db.jobs \cap SecurityJobs /\ ss[k] = Replace(list[k])
    BY <2>1 DEF Replace
  <2> QED BY <1>2, <2>2, ReplaceBlock
<1>3. \A i \in DOMAIN s : /\ blk[i] \in DOMAIN list /\ pos[i] \in DOMAIN ss[blk[i]]
                          /\ s[i] = ss[blk[i]][pos[i]] /\ s[i].job = list[blk[i]]
                          /\ i \in Nat
  <2>1. DOMAIN s = 1..Len(s)
    BY LenProperties
  <2> QED BY <1>2, <2>1 DEF Places
<1>4. PICK c \in DOMAIN s : blk[c] = m /\ pos[c] = 1
  BY <1>1 DEF Places
<1>5. \A i \in DOMAIN s : i # c /\ blk[i] = m => pos[i] > 1 /\ c < i
  <2> SUFFICES ASSUME NEW i \in DOMAIN s, i # c, blk[i] = m
               PROVE  pos[i] > 1 /\ c < i
    OBVIOUS
  <2>1. pos[i] \in Nat /\ 1 <= pos[i] /\ m \in Nat
    BY <1>1, <1>3
  <2>2. i < c => m < m \/ pos[i] < 1
    BY <1>4 DEF Places
  <2>3. c < i => m < m \/ 1 < pos[i]
    BY <1>4 DEF Places
  <2> QED BY <1>3, <2>1, <2>2, <2>3
<1>6. ASSUME NEW i \in DOMAIN s PROVE Clears(j, s[i]) <=> i = c
  <2>1. CASE i = c
    BY <1>1, <1>3, <1>4, <2>1 DEF Clears
  <2>2. ASSUME i # c, Clears(j, s[i]) PROVE FALSE
    <3>1. list[blk[i]] = list[m] /\ s[i].op = "clear"
      BY <1>3, <2>2 DEF Clears
    <3>2. blk[i] = m
      BY <1>3, <3>1 DEF IsInjective
    <3>3. pos[i] = 1
      BY <1>1, <1>3, <3>1, <3>2
    <3> QED BY <1>5, <2>2, <3>2, <3>3
  <2> QED BY <2>1, <2>2
<1>7. ASSUME NEW slot \in Rows(SecurityHours)
      PROVE  \E k \in DOMAIN s : s[k] = DoSlot(j, j, slot) /\ c < k
  <2>1. PICK o \in DOMAIN ss[m] : ss[m][o] = DoSlot(j, j, slot) /\ o # 1
    BY <1>1
  <2>2. PICK k \in DOMAIN s : blk[k] = m /\ pos[k] = o
    BY <1>3, <2>1 DEF Places
  <2>3. k # c /\ s[k] = DoSlot(j, j, slot)
    BY <1>3, <1>4, <2>1, <2>2
  <2> QED BY <1>5, <2>2, <2>3
<1> QED BY <1>6, <1>7 DEF Guarded

\* seedSecuritySchedules' script replaces the hours of every guard job.
LEMMA GuardScript ==
  \A j \in db.jobs \cap SecurityJobs : Guarded(j, Concat(Replace, ExtraJobs))
<1> DEFINE S == Listed("security_hours")
           ss == [k \in DOMAIN ExtraJobs |-> Replace(ExtraJobs[k])]
<1>1. ExtraJobs \in Seq(Jobs) /\ IsInjective(ExtraJobs)
  BY Lists, SeqMonotonic, SeedAssumption
<1>2. \A k \in DOMAIN ExtraJobs : ExtraJobs[k] \in Jobs
  BY <1>1, LenProperties, ElementOfSeq
<1>3. /\ DOMAIN ss = DOMAIN ExtraJobs /\ ss = [k \in DOMAIN ExtraJobs |-> ss[k]]
      /\ \A k \in DOMAIN ExtraJobs : ss[k] \in Seq(S)
  <2>1. \A k \in DOMAIN ExtraJobs : ss[k] \in Seq(LinesOf("security_hours", ExtraJobs[k]))
    BY <1>2, ReplaceType
  <2>2. \A row : LinesOf("security_hours", row) \subseteq S
    BY DEF LinesOf
  <2> HIDE DEF S
  <2>3. \A row : \A x \in Seq(LinesOf("security_hours", row)) : x \in Seq(S)
    BY <2>2, SeqMonotonic
  <2> QED BY <2>1, <2>3
<1>4. Concat(Replace, ExtraJobs) = FlattenSeq(ss)
  BY DEF Concat, Each
<1>5. \A k \in DOMAIN ExtraJobs : ss[k] = Replace(ExtraJobs[k])
  OBVIOUS
<1> HIDE DEF ss, S
<1>6. PICK s \in Seq(S) : s = FlattenSeq(ss)
  BY <1>1, <1>3, FlattenType
<1>7. PICK blk, pos : Places(s, ss, Len(ExtraJobs), blk, pos)
  BY <1>1, <1>3, <1>6, FlattenPlaces
<1>8. DOMAIN ExtraJobs = 1..Len(ExtraJobs) /\ Len(ExtraJobs) \in Nat
  BY <1>1, LenProperties
<1>9. ASSUME NEW j \in db.jobs \cap SecurityJobs PROVE Guarded(j, s)
  <2>1. j \in Rows(ExtraJobs)
    BY SeedAssumption
  <2>2. PICK m \in DOMAIN ExtraJobs : ExtraJobs[m] = j
    BY <2>1 DEF Rows
  <2> QED BY <1>1, <1>5, <1>7, <1>8, <2>2, PlacedGuards
<1> QED BY <1>4, <1>6, <1>9

\* seedDefaultJobSchedules' script has a statement for every job without hours,
\* and none for another job.
LEMMA HoursScript ==
  LET s == Concat(Backfill, JobList)
  IN  /\ \A j \in db.jobs \cap Jobs :
           db.hours[j] = {} => \E k \in DOMAIN s : s[k].job = j
      /\ \A k \in DOMAIN s : s[k].job \in db.jobs /\ db.hours[s[k].job] = {}
<1> DEFINE S == Listed("default_hours")
           ss == [k \in DOMAIN JobList |-> Backfill(JobList[k])]
<1>1. JobList \in Seq(Jobs)
  BY Lists, SeqMonotonic
<1>2. \A k \in DOMAIN JobList : JobList[k] \in Jobs
  BY <1>1, LenProperties, ElementOfSeq
<1>3. /\ DOMAIN ss = DOMAIN JobList /\ ss = [k \in DOMAIN JobList |-> ss[k]]
      /\ \A k \in DOMAIN JobList : ss[k] \in Seq(S)
  <2>1. \A k \in DOMAIN JobList : ss[k] \in Seq(LinesOf("default_hours", JobList[k]))
    BY <1>2, BackfillType
  <2>2. \A row : LinesOf("default_hours", row) \subseteq S
    BY DEF LinesOf
  <2> HIDE DEF S
  <2>3. \A row : \A x \in Seq(LinesOf("default_hours", row)) : x \in Seq(S)
    BY <2>2, SeqMonotonic
  <2> QED BY <2>1, <2>3
<1>4. Concat(Backfill, JobList) = FlattenSeq(ss)
  BY DEF Concat, Each
<1>5. \A k \in DOMAIN JobList : ss[k] = Backfill(JobList[k])
  OBVIOUS
<1> HIDE DEF ss, S
<1> DEFINE s == FlattenSeq(ss)
<1>6. Covers(s, ss, JobList)
  BY <1>1, <1>3, Spread
<1> HIDE DEF s
<1>7. /\ \A k \in DOMAIN JobList : Rows(ss[k]) \subseteq Rows(s)
      /\ \A i \in DOMAIN s : \E k \in DOMAIN JobList : s[i] \in Rows(ss[k])
  BY <1>6, CoversRows
<1>8. ASSUME NEW j \in db.jobs \cap Jobs, db.hours[j] = {}
      PROVE  \E k \in DOMAIN s : s[k].job = j
  <2>1. PICK m \in DOMAIN JobList : JobList[m] = j
    BY DEF Jobs, Rows
  <2>2. ss[m] = HoursOf(j, j, DefaultHours)
    BY <1>5, <1>8, <2>1 DEF Backfill
  <2>3. PICK slot : slot \in Rows(DefaultHours)
    <3>1. DefaultHours # <<>> /\ DefaultHours \in Seq(Slots)
      BY SeedAssumption, Lists
    <3>2. 1 \in DOMAIN DefaultHours
      BY <3>1, LenProperties, EmptySeq
    <3> QED BY <3>2 DEF Rows
  <2>4. DoSlot(j, j, slot) \in Rows(s)
    BY <1>7, <2>2, <2>3, HoursIs
  <2>5. PICK k \in DOMAIN s : s[k] = DoSlot(j, j, slot)
    BY <2>4 DEF Rows
  <2> QED BY <2>5, DoIs
<1>9. ASSUME NEW i \in DOMAIN s
      PROVE  s[i].job \in db.jobs /\ db.hours[s[i].job] = {}
  <2>1. PICK m \in DOMAIN JobList : s[i] \in Rows(ss[m])
    BY <1>7
  <2>2. PICK j : j = JobList[m]
    OBVIOUS
  <2>3. ss[m] # <<>>
    BY <2>1, DOMAIN <<>> = {} DEF Rows
  <2>4. j \in db.jobs /\ db.hours[j] = {} /\ ss[m] = HoursOf(j, j, DefaultHours)
    BY <1>5, <2>2, <2>3 DEF Backfill
  <2>5. PICK slot : s[i] = DoSlot(j, j, slot)
    BY <2>1, <2>4, HoursIs
  <2> QED BY <2>4, <2>5, DoIs
<1> QED BY <1>4, <1>8, <1>9 DEF s

\* What seedWorkqueue runs for a job has a statement for both weeks of each of the
\* job's hours.
LEMMA ShiftsOfRows ==
  ASSUME NEW j \in Jobs, NEW slot \in Slots, slot \in db.hours[j], NEW week \in Weeks
  PROVE  DoShift(j, slot, week) \in Rows(ShiftsOf(j))
<1> DEFINE Queue(x) == <<DoShift(j, x, 0), DoShift(j, x, 1)>>
           S == {DoShift(j, x, k) : x \in Slots, k \in Weeks}
           kept == [k \in DOMAIN SlotList |->
                      IF SlotList[k] \in db.hours[j] THEN <<SlotList[k]>>
                      ELSE <<>>]
           slots == FlattenSeq(kept)
           ss == [k \in DOMAIN slots |-> Queue(slots[k])]
<1>1. /\ DOMAIN kept = DOMAIN SlotList /\ kept = [k \in DOMAIN SlotList |-> kept[k]]
      /\ \A k \in DOMAIN SlotList : kept[k] \in Seq(Slots)
      /\ \A k \in DOMAIN SlotList :
           SlotList[k] = slot => kept[k] = <<slot>>
  <2>1. \A k \in DOMAIN SlotList : kept[k] \in Seq(Slots)
    BY Lists, LenProperties, ElementOfSeq
  <2>2. \A k \in DOMAIN SlotList : SlotList[k] = slot => kept[k] = <<slot>>
    OBVIOUS
  <2> QED BY <2>1, <2>2
<1>2. ASSUME NEW x \in Slots PROVE Queue(x) \in Seq(S)
  <2>1. 0 \in Weeks /\ 1 \in Weeks
    BY DEF Weeks
  <2>2. DoShift(j, x, 0) \in S /\ DoShift(j, x, 1) \in S
    BY <2>1
  <2> HIDE DEF S
  <2> QED BY <2>2, Two
<1>3. ASSUME NEW x PROVE DoShift(j, x, week) \in Rows(Queue(x))
  <2>1. DOMAIN Queue(x) = {1, 2} /\ Queue(x)[1] = DoShift(j, x, 0)
          /\ Queue(x)[2] = DoShift(j, x, 1)
    OBVIOUS
  <2>2. week = 0 \/ week = 1
    BY DEF Weeks
  <2> HIDE DEF Queue
  <2> QED BY <2>1, <2>2 DEF Rows
<1>4. ShiftsOf(j) = FlattenSeq(ss)
  BY DEF ShiftsOf, Concat, Each, Keep
<1>5. SlotList \in Seq(Slots)
  BY Lists
<1> HIDE DEF kept, Queue, S
<1>6. slots \in Seq(Slots) /\ Covers(slots, kept, SlotList)
  BY <1>1, <1>5, FlattenType, Spread
<1>7. slot \in Rows(slots)
  <2>1. PICK k \in DOMAIN SlotList : SlotList[k] = slot
    BY DEF Slots, Rows
  <2>2. kept[k] = <<slot>>
    BY <1>1, <2>1
  <2>3. slot \in Rows(kept[k])
    BY <2>2 DEF Rows
  <2> HIDE DEF slots
  <2> QED BY <1>6, <2>3, CoversRows
<1> HIDE DEF slots
<1>8. \A k \in DOMAIN slots : slots[k] \in Slots
  BY <1>6, LenProperties, ElementOfSeq
<1>9. /\ DOMAIN ss = DOMAIN slots /\ ss = [k \in DOMAIN slots |-> ss[k]]
      /\ \A k \in DOMAIN slots : ss[k] \in Seq(S)
      /\ \A k \in DOMAIN slots : ss[k] = Queue(slots[k])
  BY <1>2, <1>8
<1> HIDE DEF ss
<1>10. PICK k \in DOMAIN slots : slots[k] = slot
  BY <1>7 DEF Rows
<1>11. DoShift(j, slot, week) \in Rows(ss[k])
  BY <1>3, <1>9, <1>10
<1>12. PICK s : s = FlattenSeq(ss)
  OBVIOUS
<1>13. Covers(s, ss, slots)
  BY <1>6, <1>9, <1>12, Spread
<1>14. DoShift(j, slot, week) \in Rows(s)
  BY <1>11, <1>13, CoversRows
<1> QED BY <1>4, <1>12, <1>14

\* seedWorkqueue's script.
LEMMA ShiftsScript ==
  ASSUME NEW j \in Jobs, NEW slot \in Slots, slot \in db.hours[j], NEW week \in Weeks
  PROVE  DoShift(j, slot, week) \in Rows(Concat(ShiftsOf, JobList))
<1> DEFINE S == Listed("workqueue")
           ss == [k \in DOMAIN JobList |-> ShiftsOf(JobList[k])]
<1>1. JobList \in Seq(Jobs)
  BY Lists, SeqMonotonic
<1>2. \A k \in DOMAIN JobList : JobList[k] \in Jobs
  BY <1>1, LenProperties, ElementOfSeq
<1>3. /\ DOMAIN ss = DOMAIN JobList /\ ss = [k \in DOMAIN JobList |-> ss[k]]
      /\ \A k \in DOMAIN JobList : ss[k] \in Seq(S)
      /\ \A k \in DOMAIN JobList : ss[k] = ShiftsOf(JobList[k])
  BY <1>2, ShiftsOfType
<1>4. Concat(ShiftsOf, JobList) = FlattenSeq(ss)
  BY DEF Concat, Each
<1> HIDE DEF ss, S
<1>5. PICK s : s = FlattenSeq(ss)
  OBVIOUS
<1>6. Covers(s, ss, JobList)
  BY <1>1, <1>3, <1>5, Spread
<1>7. PICK m \in DOMAIN JobList : JobList[m] = j
  BY DEF Jobs, Rows
<1>8. DoShift(j, slot, week) \in Rows(ss[m])
  BY <1>3, <1>7, ShiftsOfRows
<1>9. DoShift(j, slot, week) \in Rows(s)
  BY <1>6, <1>8, CoversRows
<1> QED BY <1>4, <1>5, <1>9

-----------------------------------------------------------------------------
\* seedSecuritySchedules.
Ordered(j, slot, s) ==
  \/ slot \in db.hours[j] /\ \A i \in DOMAIN s : ~Clears(j, s[i])
  \/ \E k \in DOMAIN s : /\ s[k] = DoSlot(j, j, slot)
                         /\ \A i \in DOMAIN s : Clears(j, s[i]) => i < k
Guarding(j, s) ==
  /\ \/ db.hours[j] \subseteq Rows(SecurityHours)
     \/ \E k \in DOMAIN s : Clears(j, s[k])
  /\ \A slot \in Rows(SecurityHours) : Ordered(j, slot, s)
GuardInv ==
  /\ Doing(6) => \A j \in db.jobs \cap SecurityJobs : Guarding(j, boot.script)
  /\ Past(6) => \A j \in (db.jobs \cap SecurityJobs) \ {StaffJob} :
                  db.hours[j] = Rows(SecurityHours)

\* One statement of its script.
LEMMA GuardStatement ==
  ASSUME Control, Executing, boot.stage = 6, NEW j \in db.jobs \cap SecurityJobs,
         Guarding(j, boot.script)
  PROVE  Guarding(j, boot.script)' /\ db'.jobs = db.jobs
<1> DEFINE s == boot.script
           t == Tail(s)
           st == Head(s)
<1>1. /\ st \in Statements /\ st \in Listed("security_hours") /\ s # <<>>
      /\ db' = Effect(st) /\ boot'.script = t /\ s \in Seq(Statements)
  BY Heads, Fields, StageNames DEF Executing
<1>2. /\ st.op = "clear" \/ (st.op = "hours" /\ st.slot \in Rows(SecurityHours))
  BY <1>1, OpsAre DEF Listed, Allowed
<1>3. j \in Jobs /\ db.hours \in [Jobs -> SUBSET Slots]
  BY Fields DEF Tables
<1>4. /\ db'.jobs = db.jobs /\ st.job \in Jobs
      /\ st.op = "hours" =>
           db'.hours = [db.hours EXCEPT ![st.job] = @ \cup {st.slot}]
      /\ st.op = "clear" => db'.hours = [db.hours EXCEPT ![st.job] = {}]
  BY <1>1, <1>2, EffectJobs
<1>5. /\ 1 \in DOMAIN s /\ s[1] = st
      /\ \A k \in DOMAIN s : k \in Nat /\ 1 <= k
      /\ \A k \in DOMAIN s : k # 1 => k-1 \in DOMAIN t /\ s[k] = t[k-1]
      /\ \A k \in DOMAIN t : k \in Nat /\ k+1 \in DOMAIN s /\ t[k] = s[k+1]
  <2>1. Len(s) \in Nat \ {0} /\ DOMAIN s = 1..Len(s)
    BY <1>1, LenProperties, EmptySeq
  <2>2. /\ t \in Seq(Statements) /\ Len(t) = Len(s) - 1 /\ st = s[1]
        /\ \A k \in 1..Len(t) : t[k] = s[k+1]
    BY <1>1, HeadTailProperties
  <2>3. DOMAIN t = 1..Len(t)
    BY <2>2, LenProperties
  <2> HIDE DEF s, t, st
  <2>4. \A k \in DOMAIN t : k \in Nat /\ k+1 \in DOMAIN s /\ t[k] = s[k+1]
    BY <2>1, <2>2, <2>3
  <2>5. ASSUME NEW k \in DOMAIN s, k # 1 PROVE k-1 \in DOMAIN t /\ s[k] = t[k-1]
    <3>1. k-1 \in 1..Len(t) /\ (k-1)+1 = k
      BY <2>1, <2>2, <2>5
    <3> QED BY <2>2, <2>3, <3>1
  <2> QED BY <2>1, <2>2, <2>4, <2>5
<1> HIDE DEF s, t, st
<1>6. /\ Clears(j, st) => db'.hours[j] = {}
      /\ ~Clears(j, st) => db'.hours[j] = db.hours[j]
                             \/ (db'.hours[j] = db.hours[j] \cup {st.slot}
                                   /\ st.op = "hours" /\ st.job = j)
      /\ st.op = "hours" /\ st.job = j => st.slot \in db'.hours[j]
  BY <1>2, <1>3, <1>4 DEF Clears
<1>7. \/ db'.hours[j] \subseteq Rows(SecurityHours)
      \/ \E k \in DOMAIN t : Clears(j, t[k])
  <2>1. CASE Clears(j, st)
    BY <1>6, <2>1
  <2>2. CASE ~Clears(j, st) /\ db.hours[j] \subseteq Rows(SecurityHours)
    BY <1>2, <1>6, <2>2
  <2>3. ASSUME ~Clears(j, st), NEW k \in DOMAIN s, Clears(j, s[k])
        PROVE  \E i \in DOMAIN t : Clears(j, t[i])
    <3>1. k # 1
      BY <1>5, <2>3
    <3>2. k-1 \in DOMAIN t /\ Clears(j, t[k-1])
      BY <1>5, <2>3, <3>1
    <3> QED BY <3>2
  <2> QED BY <2>1, <2>2, <2>3 DEF Guarding, s
<1>8. ASSUME NEW slot \in Rows(SecurityHours)
      PROVE  \/ slot \in db'.hours[j] /\ \A i \in DOMAIN t : ~Clears(j, t[i])
             \/ \E k \in DOMAIN t : /\ t[k] = DoSlot(j, j, slot)
                                    /\ \A i \in DOMAIN t : Clears(j, t[i]) => i < k
  <2>1. CASE slot \in db.hours[j] /\ \A i \in DOMAIN s : ~Clears(j, s[i])
    BY <1>5, <1>6, <2>1
  <2>2. ASSUME NEW k \in DOMAIN s, s[k] = DoSlot(j, j, slot),
               \A i \in DOMAIN s : Clears(j, s[i]) => i < k
        PROVE  \/ slot \in db'.hours[j] /\ \A i \in DOMAIN t : ~Clears(j, t[i])
               \/ \E n \in DOMAIN t : /\ t[n] = DoSlot(j, j, slot)
                                      /\ \A i \in DOMAIN t : Clears(j, t[i]) => i < n
    <3>1. CASE k = 1
      <4>1. st.op = "hours" /\ st.job = j /\ st.slot = slot
        <5>1. st = DoSlot(j, j, slot)
          BY <1>5, <2>2, <3>1
        <5> QED BY <5>1, DoIs
      <4>2. \A i \in DOMAIN t : ~Clears(j, t[i])
        BY <1>5, <2>2, <3>1
      <4> QED BY <1>6, <4>1, <4>2
    <3>2. CASE k # 1
      <4>1. k-1 \in DOMAIN t /\ t[k-1] = DoSlot(j, j, slot)
        BY <1>5, <2>2, <3>2
      <4>2. ASSUME NEW i \in DOMAIN t, Clears(j, t[i]) PROVE i < k-1
        <5>1. i \in Nat /\ i+1 \in DOMAIN s /\ Clears(j, s[i+1])
          BY <1>5, <4>2
        <5>2. i+1 < k /\ k \in Nat
          BY <1>5, <2>2, <5>1
        <5> QED BY <5>1, <5>2
      <4> QED BY <4>1, <4>2
    <3> QED BY <3>1, <3>2
  <2>3. Ordered(j, slot, s)
    BY DEF Guarding, s
  <2> QED BY <2>1, <2>2, <2>3 DEF Ordered
<1> QED BY <1>1, <1>4, <1>7, <1>8 DEF Guarding, Ordered

\* What the statements of a function other than the two of the hours leave.
LEMMA LaterStatements ==
  ASSUME Control, Executing, boot.stage \in {8, 10}
  PROVE  /\ db'.jobs \subseteq db.jobs \cup {StaffJob}
         /\ \A j \in Jobs \ {StaffJob} : db'.hours[j] = db.hours[j]
<1>1. PICK st : st = Head(boot.script)
  OBVIOUS
<1>2. /\ st \in Statements /\ st \in Listed(Stages[boot.stage])
      /\ db' = Effect(st)
  BY <1>1, Heads DEF Executing
<1>3. Allowed(Stages[boot.stage], st)
  BY <1>2 DEF Listed
<1>4. db.hours \in [Jobs -> SUBSET Slots] /\ db.jobs \subseteq Jobs
        /\ NULL \notin Jobs /\ db'.jobs \subseteq Jobs
  <2>1. db' \in Tables
    BY <1>2, EffectType DEF Control
  <2> QED BY <2>1, Fields, SeedAssumption DEF Tables
<1>5. CASE boot.stage = 8
  <2>1. st.op = "shift"
    BY <1>3, <1>5, StageNames, OpsAre DEF Allowed
  <2>2. db'.jobs = db.jobs /\ db'.hours = db.hours
    BY <1>2, <2>1, EffectJobs
  <2> QED BY <2>2
<1>6. CASE boot.stage = 10
  <2>1. st.op \in {"new_job", "hours", "works", "member"}
          /\ st.job \in {StaffJob, NULL}
    BY <1>3, <1>6, StageNames, OpsAre DEF Allowed
  <2>2. /\ st.op = "new_job" => db'.jobs = db.jobs \cup {st.job}
        /\ st.op # "new_job" => db'.jobs = db.jobs
        /\ st.op = "hours" =>
             /\ st.job \in Jobs
             /\ db'.hours = [db.hours EXCEPT ![st.job] = @ \cup {st.slot}]
        /\ st.op # "hours" => db'.hours = db.hours
    BY <1>2, <2>1, EffectJobs
  <2>3. db'.jobs \subseteq db.jobs \cup {StaffJob}
    BY <1>4, <2>1, <2>2
  <2>4. \A j \in Jobs \ {StaffJob} : db'.hours[j] = db.hours[j]
    BY <1>4, <2>1, <2>2
  <2> QED BY <2>3, <2>4
<1> QED BY <1>5, <1>6

\* seedDefaultJobSchedules.
HoursInv ==
  /\ Doing(7) =>
       /\ \A j \in db.jobs : \/ db.hours[j] # {}
                             \/ \E k \in DOMAIN boot.script : boot.script[k].job = j
       /\ \A k \in DOMAIN boot.script :
            boot.script[k].job \notin SecurityJobs \ {StaffJob}
  /\ Past(7) => \A j \in db.jobs \ {StaffJob} : db.hours[j] # {}

\* The head of a script and its tail.
LEMMA Shifted ==
  ASSUME NEW S, NEW s \in Seq(S), s # <<>>
  PROVE  /\ 1 \in DOMAIN s /\ Head(s) = s[1] /\ Tail(s) \in Seq(S)
         /\ \A k \in DOMAIN s : k # 1 => \E i \in DOMAIN Tail(s) : Tail(s)[i] = s[k]
         /\ \A i \in DOMAIN Tail(s) : \E k \in DOMAIN s : Tail(s)[i] = s[k]
<1>1. Len(s) \in Nat \ {0} /\ DOMAIN s = 1..Len(s)
  BY LenProperties, EmptySeq
<1>2. PICK t : t = Tail(s)
  OBVIOUS
<1>3. /\ t \in Seq(S) /\ Len(t) = Len(s) - 1 /\ Head(s) = s[1]
      /\ \A k \in 1..Len(t) : t[k] = s[k+1]
  BY <1>2, HeadTailProperties
<1>4. DOMAIN t = 1..Len(t)
  BY <1>3, LenProperties
<1>5. ASSUME NEW k \in DOMAIN s, k # 1 PROVE \E i \in DOMAIN t : t[i] = s[k]
  <2>1. k-1 \in 1..Len(t) /\ (k-1)+1 = k
    BY <1>1, <1>3, <1>5
  <2> QED BY <1>3, <1>4, <2>1
<1>6. ASSUME NEW i \in DOMAIN t PROVE \E k \in DOMAIN s : t[i] = s[k]
  <2>1. i+1 \in DOMAIN s /\ t[i] = s[i+1]
    BY <1>1, <1>3, <1>4
  <2> QED BY <2>1
<1> QED BY <1>1, <1>2, <1>3, <1>5, <1>6

\* One statement of seedDefaultJobSchedules' script.
LEMMA HoursStatement ==
  ASSUME Control, Executing, boot.stage = 7
  PROVE  /\ Head(boot.script).job \in Jobs /\ db'.jobs = db.jobs
         /\ \A j \in Jobs : j # Head(boot.script).job => db'.hours[j] = db.hours[j]
         /\ \A j \in Jobs : db.hours[j] \subseteq db'.hours[j]
         /\ db'.hours[Head(boot.script).job] # {}
<1>1. PICK st : st = Head(boot.script)
  OBVIOUS
<1>2. st \in Statements /\ st \in Listed("default_hours") /\ db' = Effect(st)
  BY <1>1, Heads, StageNames DEF Executing
<1>3. st.op = "hours"
  BY <1>2, OpsAre DEF Listed, Allowed
<1>4. /\ db'.jobs = db.jobs /\ st.job \in Jobs
      /\ db'.hours = [db.hours EXCEPT ![st.job] = @ \cup {st.slot}]
  BY <1>2, <1>3, EffectJobs
<1>5. db.hours \in [Jobs -> SUBSET Slots]
  BY Fields DEF Tables
<1> QED BY <1>1, <1>4, <1>5

\* Every step keeps what seedDefaultJobSchedules has done.
LEMMA HoursStep ==
  ASSUME Control, [Next]_vars, hit' = {}, hit = {} => GuardInv /\ HoursInv
  PROVE  HoursInv'
<1>0. db.jobs \subseteq Jobs /\ db.hours \in [Jobs -> SUBSET Slots]
  BY Fields DEF Tables
<1>1. ASSUME Doing(7)'
      PROVE  /\ \A j \in db'.jobs :
                  \/ db'.hours[j] # {}
                  \/ \E k \in DOMAIN boot'.script : boot'.script[k].job = j
             /\ \A k \in DOMAIN boot'.script :
                  boot'.script[k].job \notin SecurityJobs \ {StaffJob}
  <2>1. CASE Beginning /\ boot.stage = 7 /\ hit = {}
    <3>1. PICK s : s = Concat(Backfill, JobList)
      OBVIOUS
    <3>2. boot'.script = s /\ db' = db /\ Past(6)
      BY <2>1, <3>1, StageNames DEF Beginning, Script, Past
    <3>3. /\ \A j \in db.jobs \cap Jobs :
               db.hours[j] = {} => \E k \in DOMAIN s : s[k].job = j
          /\ \A k \in DOMAIN s : s[k].job \in db.jobs /\ db.hours[s[k].job] = {}
      BY <3>1, HoursScript
    <3>4. \A j \in (db.jobs \cap SecurityJobs) \ {StaffJob} : db.hours[j] # {}
      <4>1. Rows(SecurityHours) # {}
        <5>1. SecurityHours # <<>> /\ SecurityHours \in Seq(Slots)
          BY SeedAssumption, Lists
        <5>2. 1 \in DOMAIN SecurityHours
          BY <5>1, LenProperties, EmptySeq
        <5> QED BY <5>2 DEF Rows
      <4> QED BY <2>1, <3>2, <4>1 DEF GuardInv
    <3> QED BY <1>0, <3>2, <3>3, <3>4
  <2>2. CASE Executing /\ Doing(7) /\ hit = {}
    <3>1. PICK s, t, st : s = boot.script /\ t = Tail(s) /\ st = Head(s)
      OBVIOUS
    <3>2. boot'.script = t /\ s # <<>> /\ s \in Seq(Statements)
      BY <2>2, <3>1, Fields DEF Executing
    <3>3. /\ s[1] = st
          /\ \A k \in DOMAIN s : k # 1 => \E i \in DOMAIN t : t[i] = s[k]
          /\ \A i \in DOMAIN t : \E k \in DOMAIN s : t[i] = s[k]
      BY <3>1, <3>2, Shifted
    <3>4. /\ db'.jobs = db.jobs
          /\ \A j \in Jobs : db.hours[j] \subseteq db'.hours[j]
          /\ db'.hours[st.job] # {}
      BY <2>2, <3>1, HoursStatement DEF Doing
    <3>5. /\ \A j \in db.jobs : db.hours[j] # {} \/ \E k \in DOMAIN s : s[k].job = j
          /\ \A k \in DOMAIN s : s[k].job \notin SecurityJobs \ {StaffJob}
      BY <2>2, <3>1 DEF HoursInv
    <3>6. ASSUME NEW j \in db.jobs, db'.hours[j] = {}
          PROVE  \E i \in DOMAIN t : t[i].job = j
      <4>1. PICK k \in DOMAIN s : s[k].job = j
        BY <1>0, <3>4, <3>5, <3>6
      <4>2. k # 1
        BY <3>3, <3>4, <3>6, <4>1
      <4> QED BY <3>3, <4>1, <4>2
    <3>7. \A i \in DOMAIN t : t[i].job \notin SecurityJobs \ {StaffJob}
      BY <3>3, <3>5
    <3> QED BY <3>2, <3>4, <3>6, <3>7
  <2>3. CASE UNCHANGED vars
    BY <1>1, <2>3 DEF vars, HoursInv, Doing
  <2> QED BY <1>1, <2>1, <2>2, <2>3, Reaching
<1>2. ASSUME Past(7)', NEW j \in db'.jobs \ {StaffJob} PROVE db'.hours[j] # {}
  <2>1. CASE Past(7) /\ hit = {} /\ UNCHANGED <<db.jobs, db.hours>>
    BY <1>2, <2>1 DEF HoursInv
  <2>2. CASE Past(7) /\ hit = {} /\ Executing /\ boot.stage > 7
    <3>1. boot.stage \in {8, 10}
      BY <2>2, Heads, Fields, StageIs DEF Executing
    <3>2. j \in db.jobs /\ db'.hours[j] = db.hours[j]
      BY <1>0, <1>2, <2>2, <3>1, LaterStatements
    <3> QED BY <1>2, <2>2, <3>2 DEF HoursInv
  <2>3. CASE Doing(7) /\ hit = {} /\ boot.script = <<>> /\ UNCHANGED db
    <3>1. DOMAIN boot.script = {}
      BY <2>3
    <3> QED BY <1>2, <2>3, <3>1 DEF HoursInv
  <2> QED BY <1>2, <2>1, <2>2, <2>3, Reaching DEF Busy
<1> QED BY <1>1, <1>2 DEF HoursInv

\* Every step keeps what seedSecuritySchedules has done.
LEMMA GuardStep ==
  ASSUME Control, [Next]_vars, hit' = {}, hit = {} => GuardInv /\ HoursInv
  PROVE  GuardInv'
<1>0. db.jobs \subseteq Jobs /\ db.hours \in [Jobs -> SUBSET Slots]
  BY Fields DEF Tables
<1>1. ASSUME Doing(6)', NEW j \in db'.jobs \cap SecurityJobs
      PROVE  Guarding(j, boot.script)'
  <2>1. CASE Beginning /\ boot.stage = 6 /\ hit = {}
    <3>1. PICK s : s = Concat(Replace, ExtraJobs)
      OBVIOUS
    <3>2. boot'.script = s /\ db' = db
      BY <2>1, <3>1, StageNames DEF Beginning, Script
    <3>3. Guarded(j, s)
      BY <1>1, <3>1, <3>2, GuardScript
    <3>4. Guarding(j, s)
      <4>1. PICK c \in DOMAIN s :
              /\ \A i \in DOMAIN s : Clears(j, s[i]) <=> i = c
              /\ \A slot \in Rows(SecurityHours) :
                   \E k \in DOMAIN s : s[k] = DoSlot(j, j, slot) /\ c < k
        BY <3>3 DEF Guarded
      <4>2. ASSUME NEW slot \in Rows(SecurityHours) PROVE Ordered(j, slot, s)
        <5>1. PICK k \in DOMAIN s : s[k] = DoSlot(j, j, slot) /\ c < k
          BY <4>1
        <5>2. \A i \in DOMAIN s : Clears(j, s[i]) => i < k
          BY <4>1, <5>1
        <5> QED BY <5>1, <5>2 DEF Ordered
      <4> QED BY <4>1, <4>2 DEF Guarding
    <3> QED BY <3>2, <3>4 DEF Guarding, Ordered
  <2>2. CASE Executing /\ Doing(6) /\ hit = {}
    <3>1. \A x \in db.jobs \cap SecurityJobs : Guarding(x, boot.script)
      BY <2>2 DEF GuardInv
    <3>2. boot.stage = 6 /\ Executing
      BY <2>2 DEF Doing
    <3>3. j \in db.jobs
      <4>1. PICK st : st = Head(boot.script)
        OBVIOUS
      <4>2. st \in Statements /\ st \in Listed("security_hours") /\ db' = Effect(st)
        BY <3>2, <4>1, Heads, StageNames DEF Executing
      <4>3. st.op \in {"clear", "hours"}
        BY <4>2, OpsAre DEF Listed, Allowed
      <4>4. db'.jobs = db.jobs
        BY <4>2, <4>3, EffectJobs
      <4> QED BY <1>1, <4>4
    <3> QED BY <1>1, <3>1, <3>2, <3>3, GuardStatement
  <2>3. CASE UNCHANGED vars
    BY <1>1, <2>3 DEF vars, GuardInv, Guarding, Ordered, Doing
  <2> QED BY <1>1, <2>1, <2>2, <2>3, Reaching
<1>2. ASSUME Past(6)', NEW j \in (db'.jobs \cap SecurityJobs) \ {StaffJob}
      PROVE  db'.hours[j] = Rows(SecurityHours)
  <2>1. CASE Past(6) /\ hit = {} /\ UNCHANGED <<db.jobs, db.hours>>
    BY <1>2, <2>1 DEF GuardInv
  <2>2. CASE Past(6) /\ hit = {} /\ Executing /\ boot.stage > 6
    <3>1. boot.stage \in {7, 8, 10}
      BY <2>2, Heads, Fields, StageIs DEF Executing
    <3>2. CASE boot.stage \in {8, 10}
      <4>1. j \in db.jobs /\ db'.hours[j] = db.hours[j]
        BY <1>0, <1>2, <2>2, <3>2, LaterStatements
      <4> QED BY <1>2, <2>2, <4>1 DEF GuardInv
    <3>3. CASE boot.stage = 7
      <4>1. Doing(7)
        BY <2>2, <3>3 DEF Executing, Doing
      <4>2. boot.script # <<>> /\ boot.script \in Seq(Statements)
        BY <2>2, Fields DEF Executing
      <4>3. Head(boot.script) = boot.script[1] /\ 1 \in DOMAIN boot.script
        BY <4>2, Shifted
      <4>4. Head(boot.script).job # j
        BY <1>2, <2>2, <4>1, <4>3 DEF HoursInv
      <4>5. j \in db.jobs /\ db'.hours[j] = db.hours[j]
        BY <1>0, <1>2, <2>2, <3>3, <4>4, HoursStatement
      <4> QED BY <1>2, <2>2, <4>5 DEF GuardInv
    <3> QED BY <3>1, <3>2, <3>3
  <2>3. CASE Doing(6) /\ hit = {} /\ boot.script = <<>> /\ UNCHANGED db
    <3>1. DOMAIN boot.script = {}
      BY <2>3
    <3>2. Guarding(j, boot.script)
      BY <1>2, <2>3 DEF GuardInv
    <3>3. db.hours[j] \subseteq Rows(SecurityHours)
      BY <3>1, <3>2 DEF Guarding
    <3>4. \A slot \in Rows(SecurityHours) : slot \in db.hours[j]
      BY <3>1, <3>2 DEF Guarding, Ordered
    <3> QED BY <2>3, <3>3, <3>4
  <2> QED BY <1>2, <2>1, <2>2, <2>3, Reaching DEF Busy
<1> QED BY <1>1, <1>2 DEF GuardInv

\* seedWorkqueue.
Queued(j, slot, week) ==
  \E k \in DOMAIN db.queue : SlotOf(db.queue[k]) = <<j, slot.key, week>>
ShiftsInv ==
  /\ Doing(8) => \A j \in db.jobs \ {StaffJob} : \A slot \in db.hours[j] :
       \A week \in Weeks :
         Queued(j, slot, week) \/ DoShift(j, slot, week) \in Rows(boot.script)
  /\ Past(8) => \A j \in db.jobs \ {StaffJob} : \A slot \in db.hours[j] :
       \A week \in Weeks : Queued(j, slot, week)

\* A queued shift stays in the queue.
LEMMA QueuedStays ==
  ASSUME Control, [Next]_vars, NEW j, NEW slot, NEW week, Queued(j, slot, week)
  PROVE  Queued(j, slot, week)'
<1>1. PICK k \in DOMAIN db.queue : SlotOf(db.queue[k]) = <<j, slot.key, week>>
  BY DEF Queued
<1>2. db.queue \in Seq(Shift)
  BY Fields DEF Tables
<1>3. k \in DOMAIN db'.queue /\ SlotOf(db'.queue[k]) = SlotOf(db.queue[k])
  <2>1. CASE UNCHANGED db.queue
    BY <1>1, <2>1
  <2>2. ASSUME NEW st \in Statements, db'.queue = Append(db.queue, RowOf(st))
        PROVE  k \in DOMAIN db'.queue /\ db'.queue[k] = db.queue[k]
    <3> DEFINE row == RowOf(st)
    <3>1. DOMAIN db.queue = 1..Len(db.queue) /\ Len(db.queue) \in Nat
      BY <1>2, LenProperties
    <3>2. row \in Shift \cup {row} /\ db.queue \in Seq(Shift \cup {row})
      BY <1>2, SeqMonotonic
    <3> HIDE DEF row
    <3>3. PICK q : q = Append(db.queue, row)
      OBVIOUS
    <3>4. /\ q \in Seq(Shift \cup {row}) /\ Len(q) = Len(db.queue) + 1
          /\ \A x \in 1..Len(db.queue) : q[x] = db.queue[x]
      BY <3>2, <3>3, AppendProperties
    <3>5. DOMAIN q = 1..Len(q)
      BY <3>4, LenProperties
    <3>6. db'.queue = q
      BY <2>2, <3>3 DEF row
    <3> QED BY <3>1, <3>4, <3>5, <3>6
  <2>3. CASE WriteShift
    <3>1. PICK pl : pl = boot.planner
      OBVIOUS
    <3>2. PICK m \in pl.todo :
            /\ m \in DOMAIN pl.plan /\ m \in DOMAIN db.queue
            /\ pl.plan[m] \in Workers
            /\ \/ db' = db
               \/ db' = [db EXCEPT !.queue[m].worker = pl.plan[m]]
      BY <2>3, <3>1, Written
    <3>3. CASE db' = db
      BY <1>1, <3>3
    <3>4. CASE db' = [db EXCEPT !.queue[m].worker = pl.plan[m]]
      <4>1. PICK w \in Workers : w = pl.plan[m]
        BY <3>2
      <4>2. DOMAIN db'.queue = DOMAIN db.queue
            /\ \A x \in DOMAIN db.queue :
                 /\ db'.queue[x].job = db.queue[x].job
                 /\ db'.queue[x].slot = db.queue[x].slot
                 /\ db'.queue[x].week = db.queue[x].week
        BY <3>2, <3>4, <4>1, Updated
      <4> QED BY <1>1, <4>2 DEF SlotOf
    <3> QED BY <3>2, <3>3, <3>4
  <2> QED BY <1>1, <2>1, <2>2, <2>3, QueueSteps
<1> QED BY <1>1, <1>3 DEF Queued

\* After its INSERT ... WHERE NOT EXISTS a shift is in the queue.
LEMMA QueuedNow ==
  ASSUME Control, Executing, NEW j \in Jobs, NEW slot \in Slots, NEW week \in Weeks,
         Head(boot.script) = DoShift(j, slot, week)
  PROVE  Queued(j, slot, week)'
<1>1. PICK st : st = Head(boot.script)
  OBVIOUS
<1>2. /\ st \in Statements /\ db' = Effect(st)
      /\ st.op = "shift" /\ st.job = j /\ st.slot = slot /\ st.n = week
  BY <1>1, Heads, DoIs DEF Executing
<1>3. db \in Tables /\ db.queue \in Seq(Shift)
  BY Fields DEF Tables
<1>4. PICK q : q = Append(db.queue, RowOf(st))
  OBVIOUS
<1>5. Effect(st) = IF NotQueued(st) THEN [db EXCEPT !.queue = q] ELSE db
  BY <1>2, <1>4 DEF Effect, RowOf
<1>6. CASE NotQueued(st)
  <2>1. db'.queue = q
    BY <1>2, <1>3, <1>5, <1>6 DEF Tables
  <2> DEFINE row == RowOf(st)
  <2>2. row.job = j /\ row.slot = slot /\ row.week = week
    BY <1>2 DEF RowOf
  <2>3. SlotOf(row) = <<j, slot.key, week>>
    BY <2>2 DEF SlotOf
  <2>4. row \in Shift \cup {row} /\ db.queue \in Seq(Shift \cup {row})
    BY <1>3, SeqMonotonic
  <2> HIDE DEF row
  <2>5. q = Append(db.queue, row)
    BY <1>4 DEF row
  <2>6. /\ q \in Seq(Shift \cup {row}) /\ Len(q) = Len(db.queue) + 1
        /\ q[Len(db.queue) + 1] = row /\ Len(db.queue) \in Nat
    BY <2>4, <2>5, AppendProperties, LenProperties
  <2>7. Len(q) \in DOMAIN q /\ q[Len(q)] = row
    BY <2>6, LenProperties
  <2> QED BY <2>1, <2>3, <2>7 DEF Queued
<1>7. CASE ~NotQueued(st)
  <2>1. PICK k \in DOMAIN db.queue :
          SlotOf(db.queue[k]) = <<st.job, st.slot.key, st.n>>
    BY <1>7 DEF NotQueued
  <2>2. db' = db
    BY <1>2, <1>5, <1>7
  <2> QED BY <1>2, <2>1, <2>2 DEF Queued
<1> QED BY <1>6, <1>7

\* Every step keeps what seedWorkqueue has done.
LEMMA ShiftsStep ==
  ASSUME Control, [Next]_vars, hit' = {}, hit = {} => ShiftsInv PROVE ShiftsInv'
<1>0. db.jobs \subseteq Jobs /\ db.hours \in [Jobs -> SUBSET Slots]
  BY Fields DEF Tables
<1>1. ASSUME Doing(8)', NEW j \in db'.jobs \ {StaffJob}, NEW slot \in db'.hours[j],
             NEW week \in Weeks
      PROVE  Queued(j, slot, week)' \/ DoShift(j, slot, week) \in Rows(boot'.script)
  <2>1. CASE Beginning /\ boot.stage = 8
    <3>1. boot'.script = Concat(ShiftsOf, JobList) /\ db' = db
      BY <2>1, StageNames DEF Beginning, Script
    <3>2. j \in Jobs /\ slot \in Slots /\ slot \in db.hours[j]
      BY <1>0, <1>1, <3>1
    <3> QED BY <3>1, <3>2, ShiftsScript
  <2>2. CASE Executing /\ Doing(8) /\ hit = {}
    <3>1. j \in db.jobs \ {StaffJob} /\ slot \in db.hours[j] /\ j \in Jobs
            /\ slot \in Slots
      BY <1>0, <1>1, <2>2, LaterStatements DEF Doing
    <3>2. Queued(j, slot, week) \/ DoShift(j, slot, week) \in Rows(boot.script)
      BY <2>2, <3>1 DEF ShiftsInv
    <3>3. CASE Queued(j, slot, week)
      BY <3>3, QueuedStays
    <3>4. CASE DoShift(j, slot, week) \in Rows(boot.script)
      <4>1. PICK d : d = DoShift(j, slot, week)
        OBVIOUS
      <4>2. PICK k \in DOMAIN boot.script : boot.script[k] = d
        BY <3>4, <4>1 DEF Rows
      <4>3. boot.script \in Seq(Statements) /\ boot.script # <<>>
              /\ boot'.script = Tail(boot.script)
        BY <2>2, Fields DEF Executing
      <4>4. /\ Head(boot.script) = boot.script[1]
            /\ k # 1 => \E i \in DOMAIN boot'.script : boot'.script[i] = d
        BY <4>2, <4>3, Shifted
      <4>5. CASE k = 1
        BY <2>2, <3>1, <4>1, <4>2, <4>4, <4>5, QueuedNow
      <4>6. CASE k # 1
        BY <4>1, <4>4, <4>6 DEF Rows
      <4> QED BY <4>5, <4>6
    <3> QED BY <3>2, <3>3, <3>4
  <2>3. CASE UNCHANGED vars
    BY <1>1, <2>3 DEF vars, ShiftsInv, Queued, Doing
  <2> QED BY <1>1, <2>1, <2>2, <2>3, Reaching
<1>2. ASSUME Past(8)', NEW j \in db'.jobs \ {StaffJob}, NEW slot \in db'.hours[j],
             NEW week \in Weeks
      PROVE  Queued(j, slot, week)'
  <2>1. CASE Past(8) /\ hit = {} /\ UNCHANGED <<db.jobs, db.hours>>
    <3>1. Queued(j, slot, week)
      BY <1>2, <2>1 DEF ShiftsInv
    <3> QED BY <3>1, QueuedStays
  <2>2. CASE Past(8) /\ hit = {} /\ Executing /\ boot.stage > 8
    <3>1. boot.stage \in {8, 10}
      BY <2>2, Heads, Fields, StageIs DEF Executing
    <3>2. j \in db.jobs \ {StaffJob} /\ slot \in db.hours[j]
      BY <1>0, <1>2, <2>2, <3>1, LaterStatements
    <3>3. Queued(j, slot, week)
      BY <2>2, <3>2 DEF ShiftsInv
    <3> QED BY <3>3, QueuedStays
  <2>3. CASE Doing(8) /\ hit = {} /\ boot.script = <<>> /\ UNCHANGED db
    <3>1. Rows(boot.script) = {}
      <4>1. DOMAIN boot.script = {}
        BY <2>3
      <4> QED BY <4>1 DEF Rows
    <3>2. Queued(j, slot, week)
      BY <1>2, <2>3, <3>1 DEF ShiftsInv
    <3> QED BY <3>2, QueuedStays
  <2> QED BY <1>2, <2>1, <2>2, <2>3, Reaching DEF Busy
<1> QED BY <1>1, <1>2 DEF ShiftsInv

-----------------------------------------------------------------------------
\* What each function the boot is past has done, and what the one it runs still
\* has to do.
Converging ==
  hit = {} => AdminInv /\ GuardInv /\ HoursInv /\ ShiftsInv /\ StaffInv

\* A boot that has met no fault so far has done, after each function it is past,
\* all that the function is for, in every reachable state: a later function of
\* seed.go takes nothing of it back.
THEOREM AlwaysConverging == Spec => []Converging
<1>1. Init => Converging
  <2> SUFFICES ASSUME Init PROVE Converging
    OBVIOUS
  <2>1. boot.pc = "down"
    BY DEF Init, At
  <2>2. \A n : ~Doing(n) /\ ~Past(n)
    BY <2>1 DEF Doing, Past
  <2> QED BY <2>2 DEF Converging, AdminInv, GuardInv, HoursInv, ShiftsInv, StaffInv
<1>2. Control /\ WorkInv /\ Converging /\ [Next]_vars => Converging'
  <2> SUFFICES ASSUME Control, WorkInv, Converging, [Next]_vars, hit' = {}
               PROVE  AdminInv' /\ GuardInv' /\ HoursInv' /\ ShiftsInv' /\ StaffInv'
    BY DEF Converging
  <2> QED BY AdminStep, GuardStep, HoursStep, ShiftsStep, StaffStep DEF Converging
<1> QED BY <1>1, <1>2, AlwaysControl, AlwaysWork, PTL DEF Spec

\* A boot that meets no fault (a statement the database refuses is none)
\* converges, whatever the boots before it left, and whatever the files hold: once
\* the backend serves, the admin has a profile, every job its hours, a guard job
\* the three shifts a day and nothing else, and each of the hours its shift in
\* both weeks.  So has the staff account a job, unless a fault of some boot came
\* between seedStaff's insert of 'Staff Work' and its end.
THEOREM BootAlwaysConverges == Spec => []BootConverges
<1>1. Control /\ Converging => BootConverges
  <2> SUFFICES ASSUME Control, Converging, Served, Clean PROVE BootConverges
    BY DEF BootConverges
  <2>1. /\ \A n : Past(n)
        /\ AdminInv /\ GuardInv /\ HoursInv /\ ShiftsInv /\ StaffInv
    BY DEF Served, Clean, Converging, Past
  <2>2. Admin \in db.profiles
    BY <2>1 DEF AdminInv
  <2>3. StaffAccount \in db.users => HasJob \/ StaffJob \in torn
    BY <2>1 DEF StaffInv, Settled
  <2>4. ASSUME NEW j \in db.jobs \ {StaffJob}
        PROVE  /\ db.hours[j] # {}
               /\ j \in SecurityJobs => db.hours[j] = Rows(SecurityHours)
               /\ \A slot \in db.hours[j], week \in Weeks :
                    \E k \in DOMAIN db.queue :
                      SlotOf(db.queue[k]) = <<j, slot.key, week>>
    <3>1. db.hours[j] # {}
      BY <2>1 DEF HoursInv
    <3>2. j \in SecurityJobs => db.hours[j] = Rows(SecurityHours)
      BY <2>1 DEF GuardInv
    <3>3. \A slot \in db.hours[j], week \in Weeks : Queued(j, slot, week)
      BY <2>1 DEF ShiftsInv
    <3> QED BY <3>1, <3>2, <3>3 DEF Queued
  <2> QED BY <2>2, <2>3, <2>4 DEF BootConverges
<1> QED BY <1>1, AlwaysControl, AlwaysConverging, PTL
=============================================================================
