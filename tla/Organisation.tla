---------------------------- MODULE Organisation ----------------------------
(***************************************************************************)
(* Who may do what, and who works where: roles and the accounts' disabled  *)
(* flag, the managers of departments and teams, the jobs of a team with    *)
(* their hours and closures, and the workers of a job (backend/users.go,   *)
(* schedule_workers.go, schedule_teams.go, schedule_jobs.go, schedule.go,  *)
(* app.go, roles.go, cmd/set-role).  A handler is its requests' checks,    *)
(* taken together as one step since they only read, and then one step for  *)
(* each statement or transaction that writes.  It may be cut short after   *)
(* any of them.  The gates of requireAuth are in module Accounts.          *)
(***************************************************************************)
EXTENDS Integers, FiniteSets

CONSTANTS
  NULL,
  Handlers,       \* requests served at the same time
  Mixes,          \* sets of routes: a behaviour uses those of one set
  Users,          \* values of users.id
  Seeded,         \* [rank, disabled] of the users there are at the start
  Departments, Teams, Jobs,
  FirstTeams,     \* the department of each team at the start, or NULL
  FirstJobs,      \* the team of each job at the start, or NULL
  FirstHeads,     \* the manager of each department and team, or NULL
  Schedules,      \* the hours a request may ask for, sets of <<day, start>>
  DefaultHours,   \* defaultJobSchedules
  Closures,       \* the holidays a request may ask for, sets of dates
  MaxRequests     \* bound on the requests that replace hours or closures

Units == Departments \cup Teams

\* Role ladder: a user's set of roles counts by its highest (hasRoleAny).
\* Student and staff are one rank here, nothing tells them apart.
Held == {"worker", "manager", "admin"}
User == [rank : Held \cup {"none"}, disabled : BOOLEAN]    \* none: no row
Gone == [rank |-> "none", disabled |-> FALSE]

ASSUME OrganisationAssumption ==
  /\ Seeded \in [Users -> User]
  /\ \E u \in Users : Seeded[u].rank = "admin" /\ ~Seeded[u].disabled
  /\ FirstTeams \in [Teams -> Departments \cup {NULL}]
  /\ FirstJobs \in [Jobs -> Teams \cup {NULL}]
  /\ FirstHeads \in [Units -> Users \cup {NULL}]
  /\ NULL \notin Users \cup Units \cup Jobs
  /\ {} \in Closures                         \* a request may ask for none
  /\ MaxRequests \in Nat

VARIABLES
  users,      \* table users
  heads,      \* manager_id of departments and teams
  parent,     \* teams.department_id, NULL: no such team
  teamOf,     \* jobs.team_id, NULL: no such job
  lists,      \* job_schedules and job_holidays, by job
  profiles,   \* user_profiles
  works,      \* student_jobs
  members,    \* worker_teams
  frames,     \* position and local variables of each handler
  requests,   \* requests so far that replace hours or closures
  ids,        \* users.id values ever taken
  mix,        \* the routes of this behaviour
  crossed,    \* has somebody who is no admin any more changed an account?
  ghost       \* what was cut short, moved or overlapped, for the properties

store == <<heads, parent, teamOf, lists, profiles, works, members>>
vars == <<users, store, frames, requests, ids, mix, crossed, ghost>>

\* A row of a job's list carries the request that inserted it, so that equal
\* rows of two requests are two rows.
Entry == [what : UNION (Schedules \cup Closures \cup {DefaultHours}),
          by : 1..MaxRequests]

Pcs == {"idle", "role", "disable", "enable", "delete", "appoint", "new team",
        "move team", "new job", "move job", "hours", "hours tx", "closures",
        "closures tx", "new worker", "profile", "works", "grant", "remove"}

Frame == [pc : Pcs, caller : Users \cup {NULL}, target : Users \cup {NULL},
          rank : Held, unit : Units \cup {NULL}, job : Jobs \cup {NULL},
          request : 0..MaxRequests, hours : Schedules \cup {DefaultHours},
          closed : Closures, seen : SUBSET Entry]

TypeOK ==
  /\ users \in [Users -> User]
  /\ heads \in [Units -> Users \cup {NULL}]
  /\ parent \in [Teams -> Departments \cup {NULL}]
  /\ teamOf \in [Jobs -> Teams \cup {NULL}]
  /\ lists \in [{"hours", "closures"} -> [Jobs -> SUBSET Entry]]
  /\ profiles \subseteq Users
  /\ works \subseteq Users \X Jobs /\ members \subseteq Users \X Teams
  /\ frames \in [Handlers -> Frame]
  /\ requests \in 0..MaxRequests /\ ids \subseteq Users /\ mix \in Mixes
  /\ crossed \in BOOLEAN
  /\ ghost \in [cut : SUBSET Users, moved : SUBSET Jobs, bare : SUBSET Jobs,
                overlapped : SUBSET Jobs]

-----------------------------------------------------------------------------
Idle == [pc |-> "idle", caller |-> NULL, target |-> NULL, rank |-> "worker",
         unit |-> NULL, job |-> NULL, request |-> 0, hours |-> DefaultHours,
         closed |-> {}, seen |-> {}]

Is(i, pc) == frames[i].pc = pc
Goto(i, f) == frames' = [frames EXCEPT ![i] = f]
To(i, pc) == frames' = [frames EXCEPT ![i].pc = pc]
Done(i) == Goto(i, Idle)

There(u) == users[u].rank # "none"
IsAdmin(u) == users[u].rank = "admin" /\ ~users[u].disabled

\* requireAuth and requireRole, on the caller's row.
Allowed(caller, ranks) ==
  users[caller].rank \in ranks /\ ~users[caller].disabled
Managers == {"manager", "admin"}

\* requireDepartmentScope.
HeadsDepartment(u) ==
  users[u].rank = "admin" \/ \E d \in Departments : heads[d] = u

\* teamInCallerScope and jobInCallerScope; admins are not asked.
InScope(u, team) ==
  \/ users[u].rank = "admin"
  \/ /\ team # NULL
     /\ parent[team] # NULL
     /\ heads[team] = u \/ heads[parent[team]] = u

-----------------------------------------------------------------------------
(***************************************************************************)
(* Admins and the accounts: patchRole, setDisabled, deleteUser.            *)
(***************************************************************************)
\* "Cannot change your own role", "Cannot disable your own account", "Cannot
\* delete your own account".  AnyTarget is the mutated form.
AnyTarget(caller, target) == TRUE
NotSelf(caller, target) == caller # target

\* isValidRole.  Unchecked is the mutated form that takes any role.
Unchecked == Held \cup {"owner"}
ValidRole == Held

EnterAccount(i) ==
  /\ frames[i] = Idle
  /\ \E caller, target \in Users, rank \in ValidRole,
        pc \in {"role", "disable", "enable", "delete"} \cap mix :
       /\ Allowed(caller, {"admin"})
       /\ NotSelf(caller, target)
       /\ pc # "role" => rank = "worker"        \* only patchRole has a rank
       /\ Goto(i, [Idle EXCEPT !.pc = pc, !.caller = caller,
                               !.target = target, !.rank = rank])
  /\ UNCHANGED <<users, store, requests, ids, mix, crossed, ghost>>

\* UPDATE users ... WHERE id = $n.
Changed(f) ==
  CASE f.pc = "role"    -> [users[f.target] EXCEPT !.rank = f.rank]
    [] f.pc = "disable" -> [users[f.target] EXCEPT !.disabled = TRUE]
    [] f.pc = "enable"  -> [users[f.target] EXCEPT !.disabled = FALSE]

AccountUpdate(i) ==
  LET f == frames[i]
  IN  /\ f.pc \in {"role", "disable", "enable"}
      /\ users' = IF There(f.target)
                  THEN [users EXCEPT ![f.target] = Changed(f)] ELSE users
      /\ crossed' = (crossed \/ ~IsAdmin(f.caller))
      /\ Done(i)
      /\ UNCHANGED <<store, requests, ids, mix, ghost>>

\* DELETE FROM users: ON DELETE CASCADE and SET NULL.
DeleteUser(i) ==
  LET f == frames[i]
      u == f.target
  IN  /\ f.pc = "delete"
      /\ users' = [users EXCEPT ![u] = Gone]
      /\ crossed' = (crossed \/ ~IsAdmin(f.caller))
      /\ heads' = [x \in Units |-> IF heads[x] = u THEN NULL ELSE heads[x]]
      /\ profiles' = profiles \ {u}
      /\ works' = {x \in works : x[1] # u}
      /\ members' = {x \in members : x[1] # u}
      /\ Done(i)
      /\ UNCHANGED <<parent, teamOf, lists, requests, ids, mix, ghost>>

\* cmd/set-role, run by an operator beside the backend.
SetRole(u, rank) ==
  /\ "set-role" \in mix /\ There(u)
  /\ users' = [users EXCEPT ![u].rank = rank]
  /\ crossed' = (crossed \/ users[u].rank = "admin")
  /\ UNCHANGED <<store, frames, requests, ids, mix, ghost>>

-----------------------------------------------------------------------------
(***************************************************************************)
(* Departments and teams.                                                  *)
(***************************************************************************)
\* assignDepartmentManager and assignTeamManager.
EnterAppoint(i) ==
  /\ frames[i] = Idle /\ "appoint" \in mix
  /\ \E caller, target \in Users, unit \in Units :
       /\ Allowed(caller, {"admin"})
       /\ Goto(i, [Idle EXCEPT !.pc = "appoint", !.target = target,
                               !.unit = unit])
  /\ UNCHANGED <<users, store, requests, ids, mix, crossed, ghost>>

\* The foreign key refuses a user, and WHERE a team, that is not there.
Appoint(i) ==
  LET f == frames[i]
  IN  /\ Is(i, "appoint")
      /\ heads' = IF There(f.target) /\ (f.unit \in Teams =>
                                           parent[f.unit] # NULL)
                  THEN [heads EXCEPT ![f.unit] = f.target] ELSE heads
      /\ Done(i)
      /\ UNCHANGED <<users, parent, teamOf, lists, profiles, works, members,
                     requests, ids, mix, crossed, ghost>>

\* createTeam and updateTeam; the department of the body is not checked.
EnterTeam(i) ==
  /\ frames[i] = Idle /\ "team" \in mix
  /\ \E caller \in Users, team \in Teams :
       /\ Allowed(caller, Managers) /\ HeadsDepartment(caller)
       /\ Goto(i, [Idle EXCEPT !.unit = team,
                     !.pc = IF parent[team] = NULL THEN "new team"
                            ELSE "move team"])
  /\ UNCHANGED <<users, store, requests, ids, mix, crossed, ghost>>

WriteTeam(i) ==
  LET team == frames[i].unit
  IN  /\ frames[i].pc \in {"new team", "move team"}
      /\ \E d \in Departments :
           parent' = IF Is(i, "new team") /\ parent[team] # NULL THEN parent
                     ELSE [parent EXCEPT ![team] = d]
      /\ Done(i)
      /\ UNCHANGED <<users, heads, teamOf, lists, profiles, works, members,
                     requests, ids, mix, crossed, ghost>>

-----------------------------------------------------------------------------
(***************************************************************************)
(* Jobs: the row, then the hours, then the closures.                       *)
(***************************************************************************)
\* createJob and updateJob check the team of the body; createJob takes the
\* default hours when it is given none.
EnterJob(i) ==
  /\ frames[i] = Idle /\ "job" \in mix /\ requests < MaxRequests
  /\ requests' = requests + 1
  /\ \E caller \in Users, team \in Teams, job \in Jobs, closed \in Closures :
     \E hours \in Schedules \cup (IF teamOf[job] = NULL THEN {DefaultHours}
                                  ELSE {}) :
       /\ Allowed(caller, Managers) /\ HeadsDepartment(caller)
       /\ parent[team] # NULL /\ InScope(caller, team)
       /\ Goto(i, [Idle EXCEPT !.unit = team, !.job = job,
                     !.request = requests', !.hours = hours, !.closed = closed,
                     !.pc = IF teamOf[job] = NULL THEN "new job"
                            ELSE "move job"])
  /\ UNCHANGED <<users, store, ids, mix, crossed, ghost>>

WriteJob(i) ==
  LET f == frames[i]
  IN  /\ f.pc \in {"new job", "move job"}
      /\ IF f.pc = "new job" /\ teamOf[f.job] # NULL
         THEN Done(i) /\ UNCHANGED <<teamOf, ghost>>
         ELSE /\ teamOf' = [teamOf EXCEPT ![f.job] = f.unit]
              /\ ghost' = IF f.pc = "new job"
                          THEN [ghost EXCEPT !.bare = @ \cup {f.job}]
                          ELSE IF teamOf[f.job] = f.unit THEN ghost
                          ELSE [ghost EXCEPT !.moved = @ \cup {f.job}]
              /\ Goto(i, [f EXCEPT !.pc = "hours", !.unit = NULL])
      /\ UNCHANGED <<users, heads, parent, lists, profiles, works, members,
                     requests, ids, mix, crossed>>

\* The list of each kind, and the transaction that replaces it.
ListAt(pc) == IF pc \in {"hours", "hours tx"} THEN "hours" ELSE "closures"
Body(f) == IF ListAt(f.pc) = "hours" THEN f.hours ELSE f.closed

\* Transactions that have deleted the rows of the same list.
Others(i, pc) == {k \in Handlers \ {i} : /\ frames[k].pc = pc
                                         /\ frames[k].job = frames[i].job}

\* DELETE: the rows a READ COMMITTED statement sees.  InsertsOnly is the
\* mutated form that deletes nothing.
InsertsOnly(job, list) == {}
Visible(job, list) == lists[list][job]

DeleteRows(i) ==
  LET f == frames[i]
      tx == IF f.pc = "hours" THEN "hours tx" ELSE "closures tx"
  IN  /\ f.pc \in {"hours", "closures"}
      /\ Goto(i, [f EXCEPT !.pc = tx, !.seen = Visible(f.job, ListAt(f.pc))])
      /\ ghost' = IF Others(i, tx) = {} THEN ghost
                  ELSE [ghost EXCEPT !.overlapped = @ \cup {f.job}]
      /\ UNCHANGED <<users, store, requests, ids, mix, crossed>>

\* The INSERTs and the commit.  A DELETE that met rows another transaction had
\* deleted has waited for it, and has not seen what that one inserted; a day
\* that is then taken violates UNIQUE and rolls the transaction back.  (Which
\* of two such transactions comes first is left open.)
CommitRows(i) ==
  LET f == frames[i]
      list == ListAt(f.pc)
      kept == lists[list][f.job] \ f.seen
      new == [what : Body(f), by : {f.request}]
  IN  /\ f.pc \in {"hours tx", "closures tx"}
      /\ IF \E x \in kept : x.what \in Body(f)
         THEN Done(i) /\ UNCHANGED <<lists, ghost>>
         ELSE /\ lists' = [lists EXCEPT ![list][f.job] = kept \cup new]
              /\ IF list = "hours"
                 THEN /\ ghost' = [ghost EXCEPT !.bare = @ \ {f.job}]
                      /\ Goto(i, [f EXCEPT !.pc = "closures", !.seen = {},
                                             !.hours = DefaultHours])
                 ELSE UNCHANGED ghost /\ Done(i)
      /\ UNCHANGED <<users, heads, parent, teamOf, profiles, works, members,
                     requests, ids, mix, crossed>>

-----------------------------------------------------------------------------
(***************************************************************************)
(* Workers: createWorker, assignWorkerJob, removeWorkerJob.                *)
(***************************************************************************)
EnterWorker(i) ==
  /\ frames[i] = Idle /\ "worker" \in mix
  /\ \E caller \in Users, job \in Jobs :
       /\ Allowed(caller, Managers) /\ HeadsDepartment(caller)
       /\ InScope(caller, teamOf[job])
       /\ Goto(i, [Idle EXCEPT !.pc = "new worker", !.job = job])
  /\ UNCHANGED <<users, store, requests, ids, mix, crossed, ghost>>

InsertWorker(i) ==
  /\ Is(i, "new worker")
  /\ \E u \in Users \ ids :
       /\ users' = [users EXCEPT ![u] = [rank |-> "worker",
                                         disabled |-> FALSE]]
       /\ ids' = ids \cup {u}
       /\ Goto(i, [frames[i] EXCEPT !.pc = "profile", !.target = u])
  /\ UNCHANGED <<store, requests, mix, crossed, ghost>>

\* The foreign key refuses the row of a user who is gone.
InsertProfile(i) ==
  LET u == frames[i].target
  IN  /\ Is(i, "profile")
      /\ IF There(u) THEN profiles' = profiles \cup {u} /\ To(i, "works")
         ELSE Done(i) /\ UNCHANGED profiles
      /\ UNCHANGED <<users, heads, parent, teamOf, lists, works, members,
                     requests, ids, mix, crossed, ghost>>

EnterAssign(i) ==
  /\ frames[i] = Idle /\ "assign" \in mix
  /\ \E caller, target \in Users, job \in Jobs, pc \in {"works", "remove"} :
       /\ Allowed(caller, Managers)
       /\ pc = "works" => InScope(caller, teamOf[job])
       /\ Goto(i, [Idle EXCEPT !.pc = pc, !.target = target, !.job = job])
  /\ UNCHANGED <<users, store, requests, ids, mix, crossed, ghost>>

InsertWorks(i) ==
  LET f == frames[i]
  IN  /\ Is(i, "works")
      /\ IF There(f.target) /\ teamOf[f.job] # NULL
         THEN works' = works \cup {<<f.target, f.job>>} /\ To(i, "grant")
         ELSE Done(i) /\ UNCHANGED works
      /\ UNCHANGED <<users, heads, parent, teamOf, lists, profiles, members,
                     requests, ids, mix, crossed, ghost>>

\* INSERT INTO worker_teams SELECT the job's team, as it is now.
\* WorkersOnly is the mutated form that asks for the rank once more.
WorkersOnly(u, job) ==
  {<<x, teamOf[job]>> : x \in {y \in {u} : users[y].rank = "worker"}}
Granted(u, job) == {<<u, teamOf[job]>>}

Grant(i) ==
  LET f == frames[i]
  IN  /\ Is(i, "grant")
      /\ members' = IF There(f.target)
                    THEN members \cup Granted(f.target, f.job) ELSE members
      /\ Done(i)
      /\ UNCHANGED <<users, heads, parent, teamOf, lists, profiles, works,
                     requests, ids, mix, crossed, ghost>>

RemoveWorks(i) ==
  LET f == frames[i]
  IN  /\ Is(i, "remove")
      /\ works' = works \ {<<f.target, f.job>>}
      /\ Done(i)
      /\ UNCHANGED <<users, heads, parent, teamOf, lists, profiles, members,
                     requests, ids, mix, crossed, ghost>>

-----------------------------------------------------------------------------
\* The client goes away, a statement fails or the process is killed; an open
\* transaction is rolled back.
Abort(i) ==
  LET f == frames[i]
  IN  /\ f # Idle
      /\ ghost' = IF f.pc \in {"profile", "works", "grant"}
                  THEN [ghost EXCEPT !.cut = @ \cup {f.target}] ELSE ghost
      /\ Done(i)
      /\ UNCHANGED <<users, store, requests, ids, mix, crossed>>

Init ==
  /\ users = Seeded /\ heads = FirstHeads
  /\ parent = FirstTeams /\ teamOf = FirstJobs
  /\ lists = [list \in {"hours", "closures"} |-> [j \in Jobs |-> {}]]
  /\ profiles = {} /\ works = {} /\ members = {}
  /\ frames = [i \in Handlers |-> Idle] /\ requests = 0
  /\ ids = {u \in Users : Seeded[u].rank # "none"} /\ mix \in Mixes
  /\ crossed = FALSE
  /\ ghost = [cut |-> {}, moved |-> {}, overlapped |-> {},
              bare |-> {j \in Jobs : FirstJobs[j] # NULL}]

Handle(i) ==
  \/ EnterAccount(i) \/ AccountUpdate(i) \/ DeleteUser(i)
  \/ EnterAppoint(i) \/ Appoint(i) \/ EnterTeam(i) \/ WriteTeam(i)
  \/ EnterJob(i) \/ WriteJob(i) \/ DeleteRows(i) \/ CommitRows(i)
  \/ EnterWorker(i) \/ InsertWorker(i) \/ InsertProfile(i)
  \/ EnterAssign(i) \/ InsertWorks(i) \/ Grant(i) \/ RemoveWorks(i)
  \/ Abort(i)

Next == \/ \E i \in Handlers : Handle(i)
        \/ \E u \in Users, rank \in Held : SetRole(u, rank)

Spec == Init /\ [][Next]_vars

-----------------------------------------------------------------------------
\* Admins who demote, disable or delete accounts never leave the backend
\* without an admin who can log in, unless a request outlived its caller's own
\* rights or the operator's command demoted one.
AnAdminRemains == crossed \/ \E u \in Users : IsAdmin(u)

\* The hours and the closures of a job are always exactly those of one request,
\* with no moment in which they are gone, unless two replacements of the same
\* list overlapped or the job's first hours have not been stored.
Asked(job, list) == {x.what : x \in lists[list][job]}
JobHoursAreOneRequest ==
  \A job \in Jobs \ ghost.overlapped :
    /\ teamOf[job] # NULL /\ job \notin ghost.bare =>
         Asked(job, "hours") \in Schedules \cup {DefaultHours}
    /\ \A list \in DOMAIN lists : \A x, y \in lists[list][job] : x.by = y.by

\* Whoever has a job is a member of its team, and a created worker has a
\* profile: unless the handler was cut short, or the job moved to a team.
WorkersAreMembers ==
  LET pending(pc, u) == \E i \in Handlers : /\ frames[i].pc = pc
                                            /\ frames[i].target = u
  IN  /\ \A x \in works :
           \/ <<x[1], teamOf[x[2]]>> \in members
           \/ pending("grant", x[1]) \/ x[1] \in ghost.cut
           \/ x[2] \in ghost.moved
      /\ \A u \in ids :
           \/ Seeded[u].rank # "none" \/ ~There(u)
           \/ u \in profiles \cup ghost.cut \/ pending("profile", u)
=============================================================================
