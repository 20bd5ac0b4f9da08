------------------------------ MODULE MCSeeder ------------------------------
(***************************************************************************)
(* A seed.csv of a manager, the staff account (whose worker_type is the    *)
(* default, student, as in backend/seed/seed.csv:44) and a student, a      *)
(* staff.csv of one guard, one default job and one guard job.  The hours   *)
(* and the guard's cap are scaled down.                                    *)
(***************************************************************************)
EXTENDS Seeder

CONSTANTS admin, manager, desk, pupil, guard, deskJob, guardJob, staffWork

MCCsvRows   == <<manager, desk, pupil>>
PairCsvRows == <<desk, pupil>>
MCStaffRows == <<guard>>
MCJobOf     == (desk :> deskJob) @@ (pupil :> deskJob) @@ (guard :> guardJob)
MCTeamOf    == (deskJob :> "desk") @@ (staffWork :> "desk")
               @@ (guardJob :> "guards")
MCDepartmentOf == [x \in {manager, desk, pupil, guardJob} |-> "hall"]
PairDepartmentOf == [x \in {desk, pupil, guardJob} |-> "hall"]

\* As in the files, the highest uid is not that of the last row.
MCUidOf     == (manager :> 1) @@ (desk :> 3) @@ (pupil :> 2)
PairUidOf   == (desk :> 2) @@ (pupil :> 1)
MCDetails   == [w \in {desk, pupil, guard} |->
                  [type |-> "student", limit |-> 0]]
MCDefaultJobs == <<deskJob>>
MCExtraJobs   == <<guardJob>>

Slot(dow, start, hours) == [key |-> <<dow, start>>, hours |-> hours]

\* Two shifts of twelve hours a week, of which a worker's cap allows one, and a
\* shift of six for the guard: nine tenths of the hours are reached with a
\* shift of six still open, and not with one of twelve.
Weekend == <<Slot(6, 8, 12), Slot(0, 8, 12)>>
Night   == <<Slot(1, 0, 6)>>

\* One shift of twelve hours a week.
Saturday == <<Slot(6, 8, 12)>>

\* Two shifts for the guard that are together one hour over the cap.
NightAndDay == <<Slot(1, 0, 6), Slot(1, 6, 15)>>
=============================================================================
