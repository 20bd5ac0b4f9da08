--------------------------- MODULE MCOrganisation ---------------------------
(***************************************************************************)
(* Two admins, a department manager and a place for one more user; two     *)
(* teams of one department, of which the second is new; a job and a job to *)
(* be created.  Six sets of routes: the accounts, the jobs, the workers.   *)
(***************************************************************************)
EXTENDS Organisation, TLC

CONSTANTS h1, h2, a1, a2, head, guest, dept, desk, lab, clerk, porter

MCSeeded == [u \in Users |->
  [rank |-> IF u = guest THEN "none" ELSE IF u = head THEN "manager"
            ELSE "admin",
   disabled |-> FALSE]]

MCFirstTeams == (desk :> dept) @@ (lab :> NULL)
MCFirstJobs  == (clerk :> desk) @@ (porter :> NULL)
MCFirstHeads == (dept :> head) @@ (desk :> NULL) @@ (lab :> NULL)

Early == {<<1, 8>>}
Week  == {<<1, 9>>, <<2, 9>>}
MCSchedules == {Early, Week}
MCDefault   == {<<1, 9>>, <<6, 10>>}
MCClosures  == {{}, {<<24, 12>>}}

MCMixes == {{"role", "disable", "enable", "delete", "set-role"},
            {"appoint", "delete", "team"}, {"team", "job"},
            {"worker", "delete"}, {"assign", "delete"}, {"worker", "job"}}

Swaps == Permutations(Handlers) \cup Permutations({a1, a2})
=============================================================================
