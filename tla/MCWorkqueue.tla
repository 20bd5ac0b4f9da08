---------------------------- MODULE MCWorkqueue -----------------------------
(***************************************************************************)
(* Instances of Workqueue for TLC.  A manager of one team, an hourly       *)
(* worker of it whose regular hours are ten a week and a student whose cap *)
(* is twenty; each configuration chooses the rows it starts from and the   *)
(* inputs it sends, an empty set of inputs leaving the operation out.      *)
(***************************************************************************)
EXTENDS Workqueue, TLC

CONSTANTS hourly, student, manager, team, other, h1, h2,
          s1, s2, s3, s4, s5, s6, r1, r2, r3

AsStudent == [type |-> "student", limit |-> 0]
AsHourly  == [type |-> "hourly", limit |-> 10]

MCScope   == [m \in {manager} |-> {team}]
MCMember  == {<<hourly, team>>, <<student, team>>}
MCDetails == (hourly :> AsHourly) @@ (student :> AsStudent)

Open(day, start, end) ==
  [team |-> team, day |-> day, start |-> start, end |-> end,
   status |-> "open", worker |-> NULL, parent |-> NULL]
Held(w, day, start, end) ==
  [Open(day, start, end) EXCEPT !.status = "assigned", !.worker = w]

\* A Monday of twelve hours the student holds, an open Sunday of the same week
\* that would take the student to twenty-one, and an open Monday of the next.
SerialShifts == (s1 :> Held(student, 0, 8, 20)) @@ (s2 :> Open(6, 8, 17))
                @@ (s3 :> Open(7, 8, 17))
Toggle == {AsStudent, AsHourly}

\* One shift of six hours, cut along the two-hour grid of the calendar page
\* (frontend/app/(app)/calendar/page.tsx:74-96), and sixteen hours the student
\* holds in a team that is not the manager's.
SplitShifts ==
  (s1 :> Open(0, 8, 14)) @@
  (s2 :> [Held(student, 1, 0, 16) EXCEPT !.team = other])
SpareIds == Permutations({s3, s4})
First  == <<8, 10>>
Second == <<10, 12>>
Third  == <<12, 14>>
Grid   == {First, Second, Third, <<8, 12>>}
GridLists == {<<Second>>, <<First, Third>>, <<Third, First>>,
              <<First, Second, Third>>}

\* One open shift of four hours, and two handlers at a time.
RaceShifts == s1 :> Open(0, 8, 12)
RaceLists  == {<<First, Second>>}
Extra      == {[team |-> team, day |-> 0, start |-> 8, end |-> 9]}
RaceTemplates == {[worker |-> student, team |-> team, day |-> 0,
                   start |-> 8, end |-> 10]}
SlotSymmetry == Permutations({h1, h2})
RequestSymmetry == Permutations({h1, h2}) \cup Permutations({r1, r2})

\* Two open shifts of twelve hours in one week: the student may hold one.
CapShifts == (s1 :> Open(0, 8, 20)) @@ (s2 :> Open(1, 8, 20))

\* The hourly worker holds nine of ten regular hours; the template adds four.
OvertimeShifts == s1 :> Held(hourly, 0, 8, 17)
OvertimeTemplates == {[worker |-> hourly, team |-> team, day |-> 1,
                       start |-> 8, end |-> 12]}

\* One shift, held by the student.
MissShifts == s1 :> Held(student, 0, 8, 12)

=============================================================================
