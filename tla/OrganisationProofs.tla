------------------------- MODULE OrganisationProofs -------------------------
(***************************************************************************)
(* Theorems about Organisation for any number of requests at a time, of    *)
(* users, teams and jobs, and any inputs: the tables keep their types, an  *)
(* admin who can log in remains unless a request outlived its caller's     *)
(* rights, whoever has a job is a member of its team, and the hours of a   *)
(* job are those of one request.                                           *)
(***************************************************************************)
EXTENDS Organisation, TLAPS

-----------------------------------------------------------------------------
(***************************************************************************)
(* The inductive invariant: what a handler's local variables hold at each  *)
(* statement, whatever the other handlers did meanwhile.                   *)
(***************************************************************************)
OnAccounts == {"role", "disable", "enable", "delete"}
OnLists    == {"hours", "hours tx", "closures", "closures tx"}
OnWorkers  == {"profile", "works", "grant", "remove"}

\* The foreign key of student_jobs has seen the job of a handler that grants
\* the membership, and so has a handler that moves one; `teams` is the table of
\* the jobs' teams.
FrameOK(f, teams) ==
  /\ f.pc \in OnAccounts =>
       f.caller \in Users /\ f.target \in Users /\ f.caller # f.target
  /\ f.pc = "appoint" => f.target \in Users /\ f.unit \in Units
  /\ f.pc \in {"new team", "move team", "new job", "move job"} =>
       f.unit \in Teams
  /\ f.pc \in {"new job", "move job"} \cup OnLists =>
       f.job \in Jobs /\ f.request \in 1..MaxRequests
  /\ f.pc \in {"new worker"} \cup OnWorkers => f.job \in Jobs
  /\ f.pc \in OnWorkers => f.target \in Users
  /\ f.pc \in {"grant", "move job"} => teams[f.job] \in Teams

FramesOK == \A i \in Handlers : FrameOK(frames[i], teamOf)

\* An id is never used again.
IdsOK == \A u \in Users : There(u) => u \in ids

Inv == TypeOK /\ FramesOK /\ IdsOK /\ AnAdminRemains

\* Jobs keep a team once they have one.
TeamsKept == \A j \in Jobs : teamOf[j] \in Teams => teamOf'[j] \in Teams

-----------------------------------------------------------------------------
(***************************************************************************)
(* Lemmas about the frames.                                                *)
(***************************************************************************)
LEMMA MaxRequestsNat == MaxRequests \in Nat
BY OrganisationAssumption

LEMMA IdleIsFrame == Idle \in Frame /\ \A teams : FrameOK(Idle, teams)
BY OrganisationAssumption
   DEF Idle, Frame, Pcs, Held, FrameOK, OnAccounts, OnLists, OnWorkers

\* An assignment to one field keeps the type.
LEMMA FrameFields ==
  ASSUME NEW f \in Frame
  PROVE  /\ \A x \in Pcs : [f EXCEPT !.pc = x] \in Frame
         /\ \A x \in Users \cup {NULL} : [f EXCEPT !.caller = x] \in Frame
         /\ \A x \in Users \cup {NULL} : [f EXCEPT !.target = x] \in Frame
         /\ \A x \in Held : [f EXCEPT !.rank = x] \in Frame
         /\ \A x \in Units \cup {NULL} : [f EXCEPT !.unit = x] \in Frame
         /\ \A x \in Jobs \cup {NULL} : [f EXCEPT !.job = x] \in Frame
         /\ \A x \in 0..MaxRequests : [f EXCEPT !.request = x] \in Frame
         /\ \A x \in Schedules \cup {DefaultHours} :
              [f EXCEPT !.hours = x] \in Frame
         /\ \A x \in Closures : [f EXCEPT !.closed = x] \in Frame
         /\ \A x \in SUBSET Entry : [f EXCEPT !.seen = x] \in Frame
BY DEF Frame

LEMMA ChangeUser ==
  ASSUME NEW u \in User
  PROVE  /\ \A x \in Held : [u EXCEPT !.rank = x] \in User
         /\ \A x \in BOOLEAN : [u EXCEPT !.disabled = x] \in User
BY DEF User

Ghost == [cut : SUBSET Users, moved : SUBSET Jobs, bare : SUBSET Jobs,
          overlapped : SUBSET Jobs]

LEMMA GhostFields ==
  ASSUME NEW g \in Ghost
  PROVE  /\ \A x \in SUBSET Users : [g EXCEPT !.cut = x] \in Ghost
         /\ \A x \in SUBSET Jobs : /\ [g EXCEPT !.moved = x] \in Ghost
                                   /\ [g EXCEPT !.bare = x] \in Ghost
                                   /\ [g EXCEPT !.overlapped = x] \in Ghost
BY DEF Ghost

\* A handler moves on to a frame that is right for the tables as they are then.
LEMMA FrameStep ==
  ASSUME Inv, NEW i \in Handlers, NEW f \in Frame, Goto(i, f),
         TeamsKept, FrameOK(f, teamOf')
  PROVE  frames' \in [Handlers -> Frame] /\ FramesOK'
<1>1. frames \in [Handlers -> Frame]
  BY DEF Inv, TypeOK
<1>2. frames' = [frames EXCEPT ![i] = f]
  BY DEF Goto
<1>3. ASSUME NEW k \in Handlers, k # i
      PROVE  FrameOK(frames[k], teamOf')
  BY <1>3 DEF Inv, FramesOK, FrameOK, TeamsKept, OnWorkers
<1>4. ASSUME NEW k \in Handlers
      PROVE  FrameOK(frames'[k], teamOf')
  <2>1. CASE k = i
    BY <1>1, <1>2, <2>1
  <2>2. CASE k # i
    BY <1>1, <1>2, <1>3, <2>2
  <2> QED  BY <2>1, <2>2
<1> QED  BY <1>1, <1>2, <1>4 DEF FramesOK

\* A handler ends.
LEMMA DoneStep ==
  ASSUME Inv, NEW i \in Handlers, Done(i), TeamsKept
  PROVE  frames' \in [Handlers -> Frame] /\ FramesOK'
<1>1. FrameOK(Idle, teamOf')
  BY IdleIsFrame
<1> QED  BY <1>1, IdleIsFrame, FrameStep DEF Done

\* A step that leaves the accounts alone.
LEMMA AccountsKept ==
  ASSUME Inv, UNCHANGED <<users, ids, crossed>>
  PROVE  IdsOK' /\ AnAdminRemains'
BY DEF Inv, IdsOK, There, AnAdminRemains, IsAdmin

-----------------------------------------------------------------------------
(***************************************************************************)
(* The actions that change accounts.                                       *)
(***************************************************************************)
LEMMA EnterAccountStep ==
  ASSUME Inv, NEW i \in Handlers, EnterAccount(i)  PROVE  Inv'
<1>1. PICK caller \in Users, target \in Users, rank \in Held,
           pc \in OnAccounts :
        /\ caller # target
        /\ Goto(i, [Idle EXCEPT !.pc = pc, !.caller = caller,
                                !.target = target, !.rank = rank])
  BY DEF EnterAccount, NotSelf, ValidRole, OnAccounts
<1> DEFINE f == [Idle EXCEPT !.pc = pc, !.caller = caller,
                             !.target = target, !.rank = rank]
<1>2. f \in Frame /\ FrameOK(f, teamOf')
  BY <1>1, IdleIsFrame
     DEF Idle, Frame, Pcs, FrameOK, OnAccounts, OnLists, OnWorkers
<1>3. TeamsKept
  BY DEF EnterAccount, store, TeamsKept
<1>4. frames' \in [Handlers -> Frame] /\ FramesOK'
  BY <1>1, <1>2, <1>3, FrameStep
<1> QED  BY <1>4, AccountsKept DEF EnterAccount, store, Inv, TypeOK

LEMMA AccountUpdateStep ==
  ASSUME Inv, NEW i \in Handlers, AccountUpdate(i)  PROVE  Inv'
<1> DEFINE f == frames[i]
<1>1. /\ f \in Frame /\ f.pc \in {"role", "disable", "enable"}
      /\ f.caller \in Users /\ f.target \in Users /\ f.caller # f.target
  BY DEF AccountUpdate, Inv, TypeOK, FramesOK, FrameOK, OnAccounts
<1>2. frames' \in [Handlers -> Frame] /\ FramesOK'
  BY DoneStep DEF AccountUpdate, store, TeamsKept
<1>3. users[f.target] \in User /\ f.rank \in Held
  BY <1>1 DEF Inv, TypeOK, Frame
<1>4. Changed(f) \in User
  <2>1. CASE f.pc = "role"
    BY <1>3, <2>1, ChangeUser DEF Changed
  <2>2. CASE f.pc = "disable"
    BY <1>3, <2>2, ChangeUser DEF Changed
  <2>3. CASE f.pc = "enable"
    BY <1>3, <2>3, ChangeUser DEF Changed
  <2> QED  BY <1>1, <2>1, <2>2, <2>3
<1>5. /\ users' \in [Users -> User]
      /\ \A u \in Users \ {f.target} : users'[u] = users[u]
      /\ users'[f.target].rank # "none" => There(f.target)
  BY <1>1, <1>4 DEF AccountUpdate, Inv, TypeOK, There
<1>6. IdsOK'
  BY <1>5 DEF AccountUpdate, Inv, IdsOK, There
<1>7. AnAdminRemains'
  BY <1>1, <1>5 DEF AccountUpdate, AnAdminRemains, IsAdmin
<1> QED  BY <1>2, <1>5, <1>6, <1>7 DEF AccountUpdate, store, Inv, TypeOK

LEMMA DeleteUserStep ==
  ASSUME Inv, NEW i \in Handlers, DeleteUser(i)  PROVE  Inv'
<1> DEFINE f == frames[i]
<1>1. f.caller \in Users /\ f.target \in Users /\ f.caller # f.target
  BY DEF DeleteUser, Inv, FramesOK, FrameOK, OnAccounts
<1>2. frames' \in [Handlers -> Frame] /\ FramesOK'
  BY DoneStep DEF DeleteUser, TeamsKept
<1>3. /\ users' \in [Users -> User]
      /\ \A u \in Users \ {f.target} : users'[u] = users[u]
      /\ users'[f.target].rank = "none"
  BY <1>1 DEF DeleteUser, Inv, TypeOK, User, Gone, There
<1>4. IdsOK'
  BY <1>3 DEF DeleteUser, Inv, IdsOK, There
<1>5. AnAdminRemains'
  BY <1>1, <1>3 DEF DeleteUser, AnAdminRemains, IsAdmin
<1>6. heads' \in [Units -> Users \cup {NULL}]
  BY DEF DeleteUser, Inv, TypeOK
<1>7. /\ profiles' \subseteq Users
      /\ works' \subseteq Users \X Jobs /\ members' \subseteq Users \X Teams
  BY DEF DeleteUser, Inv, TypeOK
<1> QED  BY <1>2, <1>3, <1>4, <1>5, <1>6, <1>7 DEF DeleteUser, Inv, TypeOK

LEMMA SetRoleStep ==
  ASSUME Inv, NEW u \in Users, NEW rank \in Held, SetRole(u, rank)
  PROVE  Inv'
<1>1. /\ users' \in [Users -> User]
      /\ \A v \in Users \ {u} : users'[v] = users[v]
  BY DEF SetRole, Inv, TypeOK, User
<1>2. IdsOK'
  BY <1>1 DEF SetRole, Inv, IdsOK, There
<1>3. AnAdminRemains'
  BY <1>1 DEF SetRole, Inv, AnAdminRemains, IsAdmin
<1> QED  BY <1>1, <1>2, <1>3 DEF SetRole, store, Inv, TypeOK, FramesOK

LEMMA InsertWorkerStep ==
  ASSUME Inv, NEW i \in Handlers, InsertWorker(i)  PROVE  Inv'
<1>1. PICK u \in Users \ ids :
        /\ users' = [users EXCEPT ![u] = [rank |-> "worker",
                                          disabled |-> FALSE]]
        /\ ids' = ids \cup {u}
        /\ Goto(i, [frames[i] EXCEPT !.pc = "profile", !.target = u])
  BY DEF InsertWorker
<1> DEFINE f == [frames[i] EXCEPT !.pc = "profile", !.target = u]
<1>2. f \in Frame /\ FrameOK(f, teamOf')
  <2>1. frames[i] \in Frame /\ frames[i].job \in Jobs
    BY DEF InsertWorker, Is, Inv, TypeOK, FramesOK, FrameOK
  <2>2. [frames[i] EXCEPT !.pc = "profile"] \in Frame
    BY <2>1, FrameFields DEF Pcs
  <2>3. f \in Frame
    BY <2>2, FrameFields
  <2> QED  BY <2>1, <2>3 DEF Frame, FrameOK, OnAccounts, OnLists, OnWorkers
<1>3. frames' \in [Handlers -> Frame] /\ FramesOK'
  BY <1>1, <1>2, FrameStep DEF InsertWorker, store, TeamsKept
<1>4. /\ users' \in [Users -> User]
      /\ \A v \in Users \ {u} : users'[v] = users[v]
      /\ ~There(u)
  BY <1>1 DEF Inv, TypeOK, IdsOK, User, Held
<1>5. IdsOK'
  BY <1>1, <1>4 DEF Inv, IdsOK, There
<1>6. AnAdminRemains'
  BY <1>4 DEF InsertWorker, Inv, AnAdminRemains, IsAdmin, There
<1> QED  BY <1>1, <1>3, <1>4, <1>5, <1>6 DEF InsertWorker, store, Inv, TypeOK

-----------------------------------------------------------------------------
(***************************************************************************)
(* The actions that leave the accounts alone.                              *)
(***************************************************************************)
\* The checks of a request: nothing is written yet.
LEMMA EnterStep ==
  ASSUME Inv, NEW i \in Handlers, NEW f \in Frame, FrameOK(f, teamOf),
         Goto(i, f), requests' \in 0..MaxRequests,
         UNCHANGED <<users, store, ids, mix, crossed, ghost>>
  PROVE  Inv'
<1>1. frames' \in [Handlers -> Frame] /\ FramesOK'
  BY FrameStep DEF store, TeamsKept
<1> QED  BY <1>1, AccountsKept DEF store, Inv, TypeOK

LEMMA EnterAppointStep ==
  ASSUME Inv, NEW i \in Handlers, EnterAppoint(i)  PROVE  Inv'
<1>1. PICK target \in Users, unit \in Units :
        Goto(i, [Idle EXCEPT !.pc = "appoint", !.target = target,
                             !.unit = unit])
  BY DEF EnterAppoint
<1> DEFINE f == [Idle EXCEPT !.pc = "appoint", !.target = target,
                             !.unit = unit]
<1>2. f \in Frame /\ FrameOK(f, teamOf)
  BY IdleIsFrame
     DEF Idle, Frame, Pcs, FrameOK, OnAccounts, OnLists, OnWorkers
<1> QED  BY <1>1, <1>2, EnterStep DEF EnterAppoint, Inv, TypeOK

LEMMA AppointStep ==
  ASSUME Inv, NEW i \in Handlers, Appoint(i)  PROVE  Inv'
<1>1. frames[i].target \in Users
  BY DEF Appoint, Is, Inv, FramesOK, FrameOK
<1>2. heads' \in [Units -> Users \cup {NULL}]
  BY <1>1 DEF Appoint, Inv, TypeOK
<1>3. frames' \in [Handlers -> Frame] /\ FramesOK'
  BY DoneStep DEF Appoint, TeamsKept
<1> QED  BY <1>2, <1>3, AccountsKept DEF Appoint, Inv, TypeOK

LEMMA EnterTeamStep ==
  ASSUME Inv, NEW i \in Handlers, EnterTeam(i)  PROVE  Inv'
<1>1. PICK team \in Teams, pc \in {"new team", "move team"} :
        Goto(i, [Idle EXCEPT !.unit = team, !.pc = pc])
  BY DEF EnterTeam
<1> DEFINE f == [Idle EXCEPT !.unit = team, !.pc = pc]
<1>2. f \in Frame /\ FrameOK(f, teamOf)
  BY IdleIsFrame
     DEF Idle, Frame, Pcs, FrameOK, OnAccounts, OnLists, OnWorkers, Units
<1> QED  BY <1>1, <1>2, EnterStep DEF EnterTeam, Inv, TypeOK

LEMMA WriteTeamStep ==
  ASSUME Inv, NEW i \in Handlers, WriteTeam(i)  PROVE  Inv'
<1>1. parent' \in [Teams -> Departments \cup {NULL}]
  BY DEF WriteTeam, Inv, TypeOK
<1>2. frames' \in [Handlers -> Frame] /\ FramesOK'
  BY DoneStep DEF WriteTeam, TeamsKept
<1> QED  BY <1>1, <1>2, AccountsKept DEF WriteTeam, Inv, TypeOK

LEMMA EnterJobStep ==
  ASSUME Inv, NEW i \in Handlers, EnterJob(i)  PROVE  Inv'
<1>1. requests' \in 1..MaxRequests /\ requests' \in 0..MaxRequests
  BY MaxRequestsNat DEF EnterJob, Inv, TypeOK
<1>2. PICK n : n = requests'
  OBVIOUS
<1>3. PICK team \in Teams, job \in Jobs, closed \in Closures,
           hours \in Schedules \cup {DefaultHours},
           pc \in {"new job", "move job"} :
        /\ pc = "move job" => teamOf[job] # NULL
        /\ Goto(i, [Idle EXCEPT !.unit = team, !.job = job, !.request = n,
                                !.hours = hours, !.closed = closed, !.pc = pc])
  BY <1>2, ZenonT(60) DEF EnterJob
<1> DEFINE f == [Idle EXCEPT !.unit = team, !.job = job, !.request = n,
                             !.hours = hours, !.closed = closed, !.pc = pc]
<1>4. n \in 1..MaxRequests /\ n \in 0..MaxRequests
  BY <1>1, <1>2
<1>5. f \in Frame
  BY <1>4, IdleIsFrame DEF Idle, Frame, Pcs, Units
<1>6. FrameOK(f, teamOf)
  <2>1. pc = "move job" => teamOf[job] \in Teams
    BY <1>3 DEF Inv, TypeOK
  <2> QED  BY <1>4, <2>1 DEF Idle, FrameOK, OnAccounts, OnLists, OnWorkers
<1> QED  BY <1>1, <1>3, <1>5, <1>6, EnterStep DEF EnterJob

LEMMA WriteJobStep ==
  ASSUME Inv, NEW i \in Handlers, WriteJob(i)  PROVE  Inv'
<1> DEFINE f == frames[i]
<1>1. /\ f \in Frame /\ f.unit \in Teams /\ f.job \in Jobs
      /\ f.request \in 1..MaxRequests
  BY DEF WriteJob, Inv, TypeOK, FramesOK, FrameOK
<1>2. /\ teamOf' \in [Jobs -> Teams \cup {NULL}]
      /\ TeamsKept
  BY <1>1 DEF WriteJob, Inv, TypeOK, TeamsKept
<1>3. ghost' \in Ghost
  <2>1. /\ ghost \in Ghost
        /\ ghost.bare \cup {f.job} \in SUBSET Jobs
        /\ ghost.moved \cup {f.job} \in SUBSET Jobs
    BY <1>1 DEF Inv, TypeOK, Ghost
  <2> QED  BY <2>1, GhostFields DEF WriteJob
<1>4. frames' \in [Handlers -> Frame] /\ FramesOK'
  <2>1. CASE Done(i)
    BY <2>1, <1>2, DoneStep
  <2>2. CASE Goto(i, [f EXCEPT !.pc = "hours", !.unit = NULL])
    <3>1. [f EXCEPT !.pc = "hours"] \in Frame
      BY <1>1, FrameFields DEF Pcs
    <3>2. [f EXCEPT !.pc = "hours", !.unit = NULL] \in Frame
      BY <3>1, FrameFields
    <3>3. FrameOK([f EXCEPT !.pc = "hours", !.unit = NULL], teamOf')
      BY <1>1 DEF Frame, FrameOK, OnAccounts, OnLists, OnWorkers
    <3> QED  BY <2>2, <3>2, <3>3, <1>2, FrameStep
  <2> QED  BY <2>1, <2>2 DEF WriteJob
<1> QED  BY <1>2, <1>3, <1>4, AccountsKept DEF WriteJob, Inv, TypeOK, Ghost

LEMMA DeleteRowsStep ==
  ASSUME Inv, NEW i \in Handlers, DeleteRows(i)  PROVE  Inv'
<1> DEFINE f == frames[i]
           tx == IF f.pc = "hours" THEN "hours tx" ELSE "closures tx"
           seen == Visible(f.job, ListAt(f.pc))
<1>1. /\ f \in Frame /\ f.job \in Jobs /\ f.request \in 1..MaxRequests
      /\ seen \in SUBSET Entry
  BY DEF DeleteRows, Inv, TypeOK, FramesOK, FrameOK, OnLists, Visible, ListAt
<1>2. [f EXCEPT !.pc = tx] \in Frame
  BY <1>1, FrameFields DEF Pcs
<1>3. [f EXCEPT !.pc = tx, !.seen = seen] \in Frame
  BY <1>1, <1>2, FrameFields
<1>4. FrameOK([f EXCEPT !.pc = tx, !.seen = seen], teamOf')
  BY <1>1 DEF Frame, FrameOK, OnAccounts, OnLists, OnWorkers
<1>5. frames' \in [Handlers -> Frame] /\ FramesOK'
  BY <1>3, <1>4, FrameStep DEF DeleteRows, store, TeamsKept
<1>6. ghost' \in Ghost
  <2>1. ghost \in Ghost /\ ghost.overlapped \cup {f.job} \in SUBSET Jobs
    BY <1>1 DEF Inv, TypeOK, Ghost
  <2> QED  BY <2>1, GhostFields DEF DeleteRows
<1> QED  BY <1>5, <1>6, AccountsKept DEF DeleteRows, store, Inv, TypeOK, Ghost

LEMMA CommitRowsStep ==
  ASSUME Inv, NEW i \in Handlers, CommitRows(i)  PROVE  Inv'
<1> DEFINE f == frames[i]
           list == ListAt(f.pc)
           kept == lists[list][f.job] \ f.seen
           new == [what : Body(f), by : {f.request}]
<1>1. /\ f \in Frame /\ f.job \in Jobs /\ f.request \in 1..MaxRequests
      /\ f.pc \in {"hours tx", "closures tx"}
      /\ list \in {"hours", "closures"}
  BY DEF CommitRows, Inv, TypeOK, FramesOK, FrameOK, OnLists, ListAt
<1>2. kept \cup new \in SUBSET Entry
  <2>1. kept \in SUBSET Entry
    BY <1>1 DEF Inv, TypeOK
  <2>2. Body(f) \in Schedules \cup {DefaultHours} \cup Closures
    BY <1>1 DEF Frame, Body
  <2>3. new \in SUBSET Entry
    <3>1. Body(f) \subseteq UNION (Schedules \cup Closures \cup {DefaultHours})
      <4>1. ASSUME NEW x \in Body(f)
            PROVE  x \in UNION (Schedules \cup Closures \cup {DefaultHours})
        BY <2>2
      <4> QED  BY <4>1
    <3>2. ASSUME NEW x \in Body(f)
          PROVE  [what |-> x, by |-> f.request] \in Entry
      BY <1>1, <3>1, <3>2 DEF Entry
    <3> QED  BY <3>2
  <2> QED  BY <2>1, <2>3
<1>3. lists' \in [{"hours", "closures"} -> [Jobs -> SUBSET Entry]]
  <2>1. lists[list] \in [Jobs -> SUBSET Entry]
    BY <1>1 DEF Inv, TypeOK
  <2>2. [lists[list] EXCEPT ![f.job] = kept \cup new] \in [Jobs -> SUBSET Entry]
    BY <1>2, <2>1
  <2> QED  BY <1>1, <2>2, ZenonT(60) DEF CommitRows, Inv, TypeOK
<1>4. ghost' \in Ghost
  <2>1. ghost \in Ghost /\ ghost.bare \ {f.job} \in SUBSET Jobs
    BY <1>1 DEF Inv, TypeOK, Ghost
  <2> QED  BY <2>1, GhostFields DEF CommitRows
<1>5. frames' \in [Handlers -> Frame] /\ FramesOK'
  <2> DEFINE g == [f EXCEPT !.pc = "closures", !.seen = {},
                             !.hours = DefaultHours]
  <2>1. CASE Done(i)
    BY <2>1, DoneStep DEF CommitRows, TeamsKept
  <2>2. CASE Goto(i, g)
    <3>1. [f EXCEPT !.pc = "closures"] \in Frame
      BY <1>1, FrameFields DEF Pcs
    <3>2. [f EXCEPT !.pc = "closures", !.seen = {}] \in Frame
      BY <3>1, FrameFields
    <3>3. g \in Frame
      BY <3>2, FrameFields
    <3>4. FrameOK(g, teamOf')
      BY <1>1 DEF Frame, FrameOK, OnAccounts, OnLists, OnWorkers
    <3> QED  BY <2>2, <3>3, <3>4, FrameStep DEF CommitRows, TeamsKept
  <2> QED  BY <2>1, <2>2 DEF CommitRows
<1> QED  BY <1>3, <1>4, <1>5, AccountsKept DEF CommitRows, Inv, TypeOK, Ghost

LEMMA EnterWorkerStep ==
  ASSUME Inv, NEW i \in Handlers, EnterWorker(i)  PROVE  Inv'
<1>1. PICK job \in Jobs :
        Goto(i, [Idle EXCEPT !.pc = "new worker", !.job = job])
  BY DEF EnterWorker
<1>2. /\ [Idle EXCEPT !.pc = "new worker", !.job = job] \in Frame
      /\ FrameOK([Idle EXCEPT !.pc = "new worker", !.job = job], teamOf)
  BY IdleIsFrame
     DEF Idle, Frame, Pcs, FrameOK, OnAccounts, OnLists, OnWorkers
<1> QED  BY <1>1, <1>2, EnterStep DEF EnterWorker, Inv, TypeOK

LEMMA InsertProfileStep ==
  ASSUME Inv, NEW i \in Handlers, InsertProfile(i)  PROVE  Inv'
<1>1. /\ frames[i] \in Frame /\ frames[i].target \in Users
      /\ frames[i].job \in Jobs
  BY DEF InsertProfile, Is, Inv, TypeOK, FramesOK, FrameOK, OnWorkers
<1>2. profiles' \subseteq Users
  BY <1>1 DEF InsertProfile, Inv, TypeOK
<1>3. frames' \in [Handlers -> Frame] /\ FramesOK'
  <2>1. CASE Done(i)
    BY <2>1, DoneStep DEF InsertProfile, TeamsKept
  <2>2. CASE To(i, "works")
    <3>1. Goto(i, [frames[i] EXCEPT !.pc = "works"])
      BY <2>2 DEF To, Goto
    <3>2. [frames[i] EXCEPT !.pc = "works"] \in Frame
      BY <1>1, FrameFields DEF Pcs
    <3>3. FrameOK([frames[i] EXCEPT !.pc = "works"], teamOf')
      BY <1>1 DEF Frame, FrameOK, OnAccounts, OnLists, OnWorkers
    <3> QED  BY <3>1, <3>2, <3>3, FrameStep DEF InsertProfile, TeamsKept
  <2> QED  BY <2>1, <2>2 DEF InsertProfile
<1> QED  BY <1>2, <1>3, AccountsKept DEF InsertProfile, Inv, TypeOK

LEMMA EnterAssignStep ==
  ASSUME Inv, NEW i \in Handlers, EnterAssign(i)  PROVE  Inv'
<1>1. PICK target \in Users, job \in Jobs, pc \in {"works", "remove"} :
        Goto(i, [Idle EXCEPT !.pc = pc, !.target = target, !.job = job])
  BY DEF EnterAssign
<1> DEFINE f == [Idle EXCEPT !.pc = pc, !.target = target, !.job = job]
<1>2. f \in Frame /\ FrameOK(f, teamOf)
  BY IdleIsFrame
     DEF Idle, Frame, Pcs, FrameOK, OnAccounts, OnLists, OnWorkers
<1> QED  BY <1>1, <1>2, EnterStep DEF EnterAssign, Inv, TypeOK

LEMMA InsertWorksStep ==
  ASSUME Inv, NEW i \in Handlers, InsertWorks(i)  PROVE  Inv'
<1> DEFINE f == frames[i]
<1>1. f \in Frame /\ f.target \in Users /\ f.job \in Jobs
  BY DEF InsertWorks, Is, Inv, TypeOK, FramesOK, FrameOK, OnWorkers
<1>2. works' \subseteq Users \X Jobs
  BY <1>1 DEF InsertWorks, Inv, TypeOK
<1>3. frames' \in [Handlers -> Frame] /\ FramesOK'
  <2>1. CASE Done(i)
    BY <2>1, DoneStep DEF InsertWorks, TeamsKept
  <2>2. CASE To(i, "grant") /\ teamOf[f.job] # NULL
    <3>1. Goto(i, [f EXCEPT !.pc = "grant"])
      BY <2>2 DEF To, Goto
    <3>2. [f EXCEPT !.pc = "grant"] \in Frame
      BY <1>1, FrameFields DEF Pcs
    <3>3. teamOf'[f.job] \in Teams
      BY <1>1, <2>2 DEF InsertWorks, Inv, TypeOK
    <3>4. FrameOK([f EXCEPT !.pc = "grant"], teamOf')
      BY <1>1, <3>3 DEF Frame, FrameOK, OnAccounts, OnLists, OnWorkers
    <3> QED  BY <3>1, <3>2, <3>4, FrameStep DEF InsertWorks, TeamsKept
  <2> QED  BY <2>1, <2>2 DEF InsertWorks
<1> QED  BY <1>2, <1>3, AccountsKept DEF InsertWorks, Inv, TypeOK

LEMMA GrantStep ==
  ASSUME Inv, NEW i \in Handlers, Grant(i)  PROVE  Inv'
<1>1. /\ frames[i].target \in Users
      /\ teamOf[frames[i].job] \in Teams
  BY DEF Grant, Is, Inv, FramesOK, FrameOK, OnWorkers
<1>2. members' \subseteq Users \X Teams
  BY <1>1 DEF Grant, Granted, Inv, TypeOK
<1>3. frames' \in [Handlers -> Frame] /\ FramesOK'
  BY DoneStep DEF Grant, TeamsKept
<1> QED  BY <1>2, <1>3, AccountsKept DEF Grant, Inv, TypeOK

LEMMA RemoveWorksStep ==
  ASSUME Inv, NEW i \in Handlers, RemoveWorks(i)  PROVE  Inv'
<1>1. works' \subseteq Users \X Jobs
  BY DEF RemoveWorks, Inv, TypeOK
<1>2. frames' \in [Handlers -> Frame] /\ FramesOK'
  BY DoneStep DEF RemoveWorks, TeamsKept
<1> QED  BY <1>1, <1>2, AccountsKept DEF RemoveWorks, Inv, TypeOK

LEMMA AbortStep ==
  ASSUME Inv, NEW i \in Handlers, Abort(i)  PROVE  Inv'
<1>1. frames[i].pc \in {"profile", "works", "grant"} =>
        frames[i].target \in Users
  BY DEF Inv, FramesOK, FrameOK, OnWorkers
<1>2. ghost' \in Ghost
  <2>1. /\ ghost \in Ghost
        /\ frames[i].pc \in {"profile", "works", "grant"} =>
             ghost.cut \cup {frames[i].target} \in SUBSET Users
    BY <1>1 DEF Inv, TypeOK, Ghost
  <2> QED  BY <2>1, GhostFields DEF Abort
<1>3. frames' \in [Handlers -> Frame] /\ FramesOK'
  BY DoneStep DEF Abort, store, TeamsKept
<1> QED  BY <1>2, <1>3, AccountsKept DEF Abort, store, Inv, TypeOK, Ghost

-----------------------------------------------------------------------------
LEMMA InitIsInv == Init => Inv
<1> SUFFICES ASSUME Init PROVE Inv
  OBVIOUS
<1>1. TypeOK
  <2>1. /\ users \in [Users -> User]
        /\ heads \in [Units -> Users \cup {NULL}]
        /\ parent \in [Teams -> Departments \cup {NULL}]
        /\ teamOf \in [Jobs -> Teams \cup {NULL}]
    BY OrganisationAssumption DEF Init
  <2>2. lists \in [{"hours", "closures"} -> [Jobs -> SUBSET Entry]]
    BY DEF Init
  <2>3. frames \in [Handlers -> Frame]
    BY IdleIsFrame DEF Init
  <2>4. ghost \in Ghost
    BY DEF Init, Ghost
  <2>5. requests \in 0..MaxRequests
    BY MaxRequestsNat DEF Init
  <2> QED  BY <2>1, <2>2, <2>3, <2>4, <2>5
           DEF Init, TypeOK, Ghost
<1>2. FramesOK
  BY IdleIsFrame DEF Init, FramesOK
<1>3. IdsOK
  BY DEF Init, IdsOK, There
<1>4. AnAdminRemains
  BY OrganisationAssumption DEF Init, AnAdminRemains, IsAdmin
<1> QED  BY <1>1, <1>2, <1>3, <1>4 DEF Inv

LEMMA HandleStep ==
  ASSUME Inv, NEW i \in Handlers, Handle(i)  PROVE  Inv'
BY EnterAccountStep, AccountUpdateStep, DeleteUserStep, EnterAppointStep,
   AppointStep, EnterTeamStep, WriteTeamStep, EnterJobStep, WriteJobStep,
   DeleteRowsStep, CommitRowsStep, EnterWorkerStep, InsertWorkerStep,
   InsertProfileStep, EnterAssignStep, InsertWorksStep, GrantStep,
   RemoveWorksStep, AbortStep
   DEF Handle

LEMMA StepKeepsInv == Inv /\ [Next]_vars => Inv'
<1> SUFFICES ASSUME Inv, [Next]_vars PROVE Inv'
  OBVIOUS
<1>1. ASSUME NEW i \in Handlers, Handle(i) PROVE Inv'
  BY <1>1, HandleStep
<1>2. ASSUME NEW u \in Users, NEW rank \in Held, SetRole(u, rank) PROVE Inv'
  BY <1>2, SetRoleStep
<1>3. CASE UNCHANGED vars
  <2>1. TypeOK'
    BY <1>3 DEF vars, store, Inv, TypeOK
  <2>2. FramesOK'
    BY <1>3 DEF vars, store, Inv, FramesOK
  <2> QED  BY <1>3, <2>1, <2>2, AccountsKept DEF vars, Inv
<1> QED  BY <1>1, <1>2, <1>3 DEF Next

LEMMA InvHolds == Spec => []Inv
BY InitIsInv, StepKeepsInv, PTL DEF Spec

\* Every statement of every handler keeps the types of the tables, whatever
\* the other handlers did between the checks of a request and its writes.
THEOREM OrganisationTypeCorrect == Spec => []TypeOK
<1>1. Inv => TypeOK
  BY DEF Inv
<1> QED  BY <1>1, InvHolds, PTL

\* NotSelf alone keeps an admin: patchRole, setDisabled and deleteUser cannot
\* remove the last one, unless the caller has lost the rights it was let in
\* with, or set-role demoted an admin.
THEOREM AdminKept == Spec => []AnAdminRemains
<1>1. Inv => AnAdminRemains
  BY DEF Inv
<1> QED  BY <1>1, InvHolds, PTL

-----------------------------------------------------------------------------
(***************************************************************************)
(* The workers of a job and the lists of a job: what the statements still  *)
(* to come will make of the rows there are.                                *)
(***************************************************************************)
\* student_jobs refers to users and jobs that are there, and the membership
\* has been granted or the handler that inserted the row will grant it.
Joined(x) ==
  \/ <<x[1], teamOf[x[2]]>> \in members
  \/ \E i \in Handlers : /\ Is(i, "grant")
                         /\ frames[i].target = x[1] /\ frames[i].job = x[2]
  \/ x[1] \in ghost.cut \/ x[2] \in ghost.moved

WorksOK == \A x \in works :
             There(x[1]) /\ teamOf[x[2]] \in Teams /\ Joined(x)

ProfilesOK ==
  \A u \in ids :
    \/ Seeded[u].rank # "none" \/ ~There(u)
    \/ u \in profiles \cup ghost.cut
    \/ \E i \in Handlers : Is(i, "profile") /\ frames[i].target = u

Replacing == {"hours tx", "closures tx"}

\* Two transactions that replace the same list are on record, and a
\* transaction alone has deleted the rows that are there.
Alone ==
  \A i, k \in Handlers :
    /\ i # k /\ frames[i].pc \in Replacing
    /\ frames[k].pc = frames[i].pc /\ frames[k].job = frames[i].job
    => frames[i].job \in ghost.overlapped

SeenAll ==
  \A i \in Handlers :
    frames[i].pc \in Replacing /\ frames[i].job \notin ghost.overlapped =>
      frames[i].seen = lists[ListAt(frames[i].pc)][frames[i].job]

PeopleInv == WorksOK /\ ProfilesOK
ListsInv == Alone /\ SeenAll /\ JobHoursAreOneRequest

LEMMA Typed ==
  ASSUME Inv
  PROVE  /\ users \in [Users -> User] /\ teamOf \in [Jobs -> Teams \cup {NULL}]
         /\ lists \in [{"hours", "closures"} -> [Jobs -> SUBSET Entry]]
         /\ works \subseteq Users \X Jobs /\ ids \subseteq Users
         /\ profiles \subseteq Users
         /\ frames \in [Handlers -> Frame] /\ ghost \in Ghost
         /\ \A i \in Handlers : FrameOK(frames[i], teamOf)
         /\ \A u \in Users : There(u) => u \in ids
BY DEF Inv, TypeOK, FramesOK, IdsOK, Ghost

LEMMA Moved ==
  ASSUME Inv, NEW i \in Handlers, NEW f, Goto(i, f)
  PROVE  frames'[i] = f /\ \A k \in Handlers \ {i} : frames'[k] = frames[k]
BY Typed DEF Goto

LEMMA IdlePc == Idle.pc = "idle"
BY DEF Idle

LEMMA NullIsNoTeam == NULL \notin Teams
BY OrganisationAssumption DEF Units

LEMMA GhostParts ==
  ASSUME Inv
  PROVE  /\ \A s : /\ [ghost EXCEPT !.cut = s].cut = s
                   /\ [ghost EXCEPT !.cut = s].moved = ghost.moved
                   /\ [ghost EXCEPT !.cut = s].bare = ghost.bare
                   /\ [ghost EXCEPT !.cut = s].overlapped = ghost.overlapped
         /\ \A s : /\ [ghost EXCEPT !.moved = s].cut = ghost.cut
                   /\ [ghost EXCEPT !.moved = s].moved = s
                   /\ [ghost EXCEPT !.moved = s].bare = ghost.bare
                   /\ [ghost EXCEPT !.moved = s].overlapped = ghost.overlapped
         /\ \A s : /\ [ghost EXCEPT !.bare = s].cut = ghost.cut
                   /\ [ghost EXCEPT !.bare = s].moved = ghost.moved
                   /\ [ghost EXCEPT !.bare = s].bare = s
                   /\ [ghost EXCEPT !.bare = s].overlapped = ghost.overlapped
         /\ \A s : /\ [ghost EXCEPT !.overlapped = s].cut = ghost.cut
                   /\ [ghost EXCEPT !.overlapped = s].moved = ghost.moved
                   /\ [ghost EXCEPT !.overlapped = s].bare = ghost.bare
                   /\ [ghost EXCEPT !.overlapped = s].overlapped = s
BY Typed DEF Ghost

-----------------------------------------------------------------------------
\* A handler that owes nothing, or has said that it was cut short, moves on.
LEMMA PeopleKept ==
  ASSUME Inv, PeopleInv, NEW i \in Handlers, NEW f, Goto(i, f),
         \A u \in Users : There(u)' <=> There(u), UNCHANGED ids,
         works' \subseteq works, members \subseteq members',
         profiles \subseteq profiles',
         \A j \in Jobs : \/ teamOf'[j] = teamOf[j]
                         \/ teamOf'[j] \in Teams /\ teamOf[j] \notin Teams
                         \/ teamOf'[j] \in Teams /\ j \in ghost'.moved,
         ghost.cut \subseteq ghost'.cut, ghost.moved \subseteq ghost'.moved,
         frames[i].pc \in {"grant", "profile"} =>
           frames[i].target \in ghost'.cut
  PROVE  PeopleInv'
<1>1. /\ frames'[i] = f
      /\ \A k \in Handlers \ {i} : frames'[k] = frames[k]
  BY Moved
<1>2. WorksOK'
  <2> SUFFICES ASSUME NEW x \in works'
               PROVE  There(x[1])' /\ teamOf'[x[2]] \in Teams /\ Joined(x)'
    BY DEF WorksOK
  <2>1. x \in works /\ x[1] \in Users /\ x[2] \in Jobs
    BY Typed
  <2>2. There(x[1]) /\ teamOf[x[2]] \in Teams /\ Joined(x)
    BY <2>1 DEF PeopleInv, WorksOK
  <2>3. There(x[1])' /\ teamOf'[x[2]] \in Teams
    BY <2>1, <2>2
  <2>4. x[2] \in ghost'.moved => Joined(x)'
    BY DEF Joined
  <2>5. ASSUME teamOf'[x[2]] = teamOf[x[2]]  PROVE  Joined(x)'
    <3>1. CASE <<x[1], teamOf[x[2]]>> \in members
      BY <2>5, <3>1 DEF Joined
    <3>2. ASSUME NEW k \in Handlers, Is(k, "grant"),
                 frames[k].target = x[1], frames[k].job = x[2]
          PROVE  Joined(x)'
      <4>1. CASE k = i
        BY <3>2, <4>1 DEF Is, Joined
      <4>2. CASE k # i
        BY <1>1, <3>2, <4>2 DEF Is, Joined
      <4> QED  BY <4>1, <4>2
    <3>3. CASE x[1] \in ghost.cut \/ x[2] \in ghost.moved
      BY <3>3 DEF Joined
    <3> QED  BY <2>2, <3>1, <3>2, <3>3 DEF Joined
  <2> QED  BY <2>1, <2>2, <2>3, <2>4, <2>5
<1>3. ProfilesOK'
  <2> SUFFICES ASSUME NEW u \in ids, Seeded[u].rank = "none", There(u)'
               PROVE  \/ u \in profiles' \cup ghost'.cut
                      \/ \E k \in Handlers : Is(k, "profile")' /\ frames'[k].target = u
    BY DEF ProfilesOK
  <2>1. There(u)
    BY Typed
  <2>2. \/ u \in profiles \cup ghost.cut
        \/ \E k \in Handlers : Is(k, "profile") /\ frames[k].target = u
    BY <2>1 DEF PeopleInv, ProfilesOK
  <2>3. ASSUME NEW k \in Handlers, Is(k, "profile"), frames[k].target = u
        PROVE  \/ u \in ghost'.cut
               \/ Is(k, "profile")' /\ frames'[k].target = u
    <3>1. CASE k = i
      BY <2>3, <3>1 DEF Is
    <3>2. CASE k # i
      BY <1>1, <2>3, <3>2 DEF Is
    <3> QED  BY <3>1, <3>2
  <2> QED  BY <2>2, <2>3
<1> QED  BY <1>2, <1>3 DEF PeopleInv

\* The lists stay, and no transaction begins.
LEMMA ListsKept ==
  ASSUME Inv, ListsInv, NEW i \in Handlers, NEW f, Goto(i, f),
         f.pc \notin Replacing, UNCHANGED lists,
         ghost'.overlapped = ghost.overlapped,
         ghost.bare \subseteq ghost'.bare,
         \A j \in Jobs : \/ teamOf'[j] = NULL \/ teamOf[j] # NULL
                         \/ j \in ghost'.bare
  PROVE  ListsInv'
<1>1. /\ frames'[i] = f
      /\ \A k \in Handlers \ {i} : frames'[k] = frames[k]
  BY Moved
<1>2. \A k \in Handlers : frames'[k].pc \in Replacing =>
                            frames'[k] = frames[k] /\ k # i
  BY <1>1
<1>3. Alone'
  BY <1>2 DEF ListsInv, Alone
<1>4. SeenAll'
  BY <1>2 DEF ListsInv, SeenAll
<1>5. JobHoursAreOneRequest'
  <2> SUFFICES ASSUME NEW j \in Jobs \ ghost'.overlapped
               PROVE  /\ teamOf'[j] # NULL /\ j \notin ghost'.bare =>
                           Asked(j, "hours")' \in Schedules \cup {DefaultHours}
                      /\ \A list \in DOMAIN lists' :
                           \A x, y \in lists'[list][j] : x.by = y.by
    BY DEF JobHoursAreOneRequest
  <2>1. /\ teamOf[j] # NULL /\ j \notin ghost.bare =>
             Asked(j, "hours") \in Schedules \cup {DefaultHours}
        /\ \A list \in DOMAIN lists : \A x, y \in lists[list][j] : x.by = y.by
    BY DEF ListsInv, JobHoursAreOneRequest
  <2>2. Asked(j, "hours")' = Asked(j, "hours")
    BY DEF Asked
  <2> QED  BY <2>1, <2>2
<1> QED  BY <1>3, <1>4, <1>5 DEF ListsInv

LEMMA ListsSame ==
  ASSUME ListsInv, UNCHANGED <<frames, lists, teamOf, ghost>>
  PROVE  ListsInv'
<1>1. Alone'
  BY DEF ListsInv, Alone
<1>2. SeenAll'
  BY DEF ListsInv, SeenAll, ListAt
<1>3. JobHoursAreOneRequest'
  BY DEF ListsInv, JobHoursAreOneRequest, Asked
<1> QED  BY <1>1, <1>2, <1>3 DEF ListsInv

-----------------------------------------------------------------------------
(***************************************************************************)
(* The actions, on the rows of the workers.                                *)
(***************************************************************************)
LEMMA EnterRows ==
  ASSUME Inv, PeopleInv, ListsInv, NEW i \in Handlers,
         \/ EnterAccount(i) \/ EnterAppoint(i) \/ EnterTeam(i) \/ EnterJob(i)
         \/ EnterWorker(i) \/ EnterAssign(i)
  PROVE  PeopleInv' /\ ListsInv'
<1>1. /\ UNCHANGED <<users, teamOf, lists, works, members, profiles, ids, ghost>>
      /\ frames[i] = Idle
  BY DEF EnterAccount, EnterAppoint, EnterTeam, EnterJob, EnterWorker,
         EnterAssign, store
<1>2. \E f : Goto(i, f) /\ f.pc \notin Replacing
  <2>1. CASE EnterAccount(i)
    <3>1. PICK caller, target, rank, pc :
            /\ pc \in {"role", "disable", "enable", "delete"}
            /\ Goto(i, [Idle EXCEPT !.pc = pc, !.caller = caller,
                                    !.target = target, !.rank = rank])
      BY <2>1 DEF EnterAccount
    <3>2. [Idle EXCEPT !.pc = pc, !.caller = caller, !.target = target,
                       !.rank = rank].pc = pc
      BY DEF Idle
    <3> QED  BY <3>1, <3>2 DEF Replacing
  <2>2. CASE EnterAppoint(i)
    <3>1. PICK target, unit :
            Goto(i, [Idle EXCEPT !.pc = "appoint", !.target = target,
                                 !.unit = unit])
      BY <2>2 DEF EnterAppoint
    <3>2. [Idle EXCEPT !.pc = "appoint", !.target = target,
                       !.unit = unit].pc = "appoint"
      BY DEF Idle
    <3> QED  BY <3>1, <3>2 DEF Replacing
  <2>3. CASE EnterTeam(i)
    <3>1. PICK team, pc : /\ pc \in {"new team", "move team"}
                          /\ Goto(i, [Idle EXCEPT !.unit = team, !.pc = pc])
      BY <2>3 DEF EnterTeam
    <3>2. [Idle EXCEPT !.unit = team, !.pc = pc].pc = pc
      BY DEF Idle
    <3> QED  BY <3>1, <3>2 DEF Replacing
  <2>4. CASE EnterJob(i)
    <3>1. PICK n : n = requests'
      OBVIOUS
    <3>2. PICK team, job, closed, hours, pc :
            /\ pc \in {"new job", "move job"}
            /\ Goto(i, [Idle EXCEPT !.unit = team, !.job = job, !.request = n,
                                    !.hours = hours, !.closed = closed, !.pc = pc])
      BY <2>4, <3>1, ZenonT(60) DEF EnterJob
    <3>3. [Idle EXCEPT !.unit = team, !.job = job, !.request = n,
                       !.hours = hours, !.closed = closed, !.pc = pc].pc = pc
      BY DEF Idle
    <3> QED  BY <3>2, <3>3 DEF Replacing
  <2>5. CASE EnterWorker(i)
    <3>1. PICK job : Goto(i, [Idle EXCEPT !.pc = "new worker", !.job = job])
      BY <2>5 DEF EnterWorker
    <3>2. [Idle EXCEPT !.pc = "new worker", !.job = job].pc = "new worker"
      BY DEF Idle
    <3> QED  BY <3>1, <3>2 DEF Replacing
  <2>6. CASE EnterAssign(i)
    <3>1. PICK target, job, pc :
            /\ pc \in {"works", "remove"}
            /\ Goto(i, [Idle EXCEPT !.pc = pc, !.target = target, !.job = job])
      BY <2>6 DEF EnterAssign
    <3>2. [Idle EXCEPT !.pc = pc, !.target = target, !.job = job].pc = pc
      BY DEF Idle
    <3> QED  BY <3>1, <3>2 DEF Replacing
  <2> QED  BY <2>1, <2>2, <2>3, <2>4, <2>5, <2>6
<1>3. PICK f : Goto(i, f) /\ f.pc \notin Replacing
  BY <1>2
<1>4. frames[i].pc = "idle"
  BY <1>1, IdlePc
<1>5. PeopleInv'
  <2>1. \A u \in Users : There(u)' <=> There(u)
    BY <1>1 DEF There
  <2> QED  BY <1>1, <1>3, <1>4, <2>1, PeopleKept
<1>6. ListsInv'
  BY <1>1, <1>3, ListsKept
<1> QED  BY <1>5, <1>6

\* The statements that touch neither the workers nor the lists of a job.
LEMMA OtherRows ==
  ASSUME Inv, PeopleInv, ListsInv, NEW i \in Handlers,
         \/ AccountUpdate(i) \/ Appoint(i) \/ WriteTeam(i) \/ RemoveWorks(i)
  PROVE  PeopleInv' /\ ListsInv'
<1>1. /\ UNCHANGED <<teamOf, lists, members, profiles, ids, ghost>>
      /\ works' \subseteq works /\ Goto(i, Idle)
      /\ frames[i].pc \notin {"grant", "profile"}
  BY DEF AccountUpdate, Appoint, WriteTeam, RemoveWorks, store, Done, Is
<1>2. \A u \in Users : There(u)' <=> There(u)
  <2>1. CASE AccountUpdate(i)
    <3>1. /\ frames[i] \in Frame /\ users[frames[i].target] \in User
          /\ frames[i].target \in Users
      BY <2>1, Typed DEF AccountUpdate, FrameOK, OnAccounts
    <3>2. Changed(frames[i]).rank # "none" <=>
            There(frames[i].target) \/ frames[i].pc = "role"
      BY <2>1, <3>1 DEF AccountUpdate, Changed, There, Frame, User, Held
    <3> QED  BY <2>1, <3>1, <3>2, Typed DEF AccountUpdate, There
  <2>2. CASE ~AccountUpdate(i)
    BY <2>2 DEF Appoint, WriteTeam, RemoveWorks, There
  <2> QED  BY <2>1, <2>2
<1>3. PeopleInv'
  BY <1>1, <1>2, PeopleKept
<1>4. ListsInv'
  <2>1. Idle.pc \notin Replacing
    BY IdlePc DEF Replacing
  <2> QED  BY <1>1, <2>1, ListsKept
<1> QED  BY <1>3, <1>4

LEMMA AbortRows ==
  ASSUME Inv, PeopleInv, ListsInv, NEW i \in Handlers, Abort(i)
  PROVE  PeopleInv' /\ ListsInv'
<1>1. /\ UNCHANGED <<users, teamOf, lists, works, members, profiles, ids>>
      /\ Goto(i, Idle) /\ Idle.pc \notin Replacing
  BY IdlePc DEF Abort, store, Done, Replacing
<1>2. /\ ghost.cut \subseteq ghost'.cut /\ ghost'.moved = ghost.moved
      /\ ghost'.bare = ghost.bare /\ ghost'.overlapped = ghost.overlapped
      /\ frames[i].pc \in {"grant", "profile"} =>
           frames[i].target \in ghost'.cut
  <2>1. CASE frames[i].pc \in {"profile", "works", "grant"}
    BY <2>1, GhostParts DEF Abort
  <2>2. CASE frames[i].pc \notin {"profile", "works", "grant"}
    BY <2>2 DEF Abort
  <2> QED  BY <2>1, <2>2
<1>3. PeopleInv'
  <2>1. \A u \in Users : There(u)' <=> There(u)
    BY <1>1 DEF There
  <2> QED  BY <1>1, <1>2, <2>1, PeopleKept
<1>4. ListsInv'
  BY <1>1, <1>2, ListsKept
<1> QED  BY <1>3, <1>4

LEMMA WriteJobRows ==
  ASSUME Inv, PeopleInv, ListsInv, NEW i \in Handlers, WriteJob(i)
  PROVE  PeopleInv' /\ ListsInv'
<1> DEFINE f == frames[i]
           g == [f EXCEPT !.pc = "hours", !.unit = NULL]
<1>1. /\ UNCHANGED <<users, lists, works, members, profiles, ids>>
      /\ f.pc \in {"new job", "move job"} /\ f.job \in Jobs /\ f.unit \in Teams
      /\ f \in Frame
      /\ f.pc = "move job" => teamOf[f.job] \in Teams
  BY Typed DEF WriteJob, FrameOK
<1>2. g.pc = "hours" /\ Idle.pc = "idle"
  BY <1>1, IdlePc DEF Frame
<1>3. \E h : Goto(i, h) /\ h.pc \notin Replacing
  <2>1. Goto(i, Idle) \/ Goto(i, g)
    BY DEF WriteJob, Done
  <2> QED  BY <1>2, <2>1 DEF Replacing
<1>4. PICK h : Goto(i, h) /\ h.pc \notin Replacing
  BY <1>3
<1>5. /\ ghost'.cut = ghost.cut /\ ghost'.overlapped = ghost.overlapped
      /\ ghost.moved \subseteq ghost'.moved /\ ghost.bare \subseteq ghost'.bare
      /\ \A j \in Jobs \ {f.job} : teamOf'[j] = teamOf[j]
      /\ \/ teamOf'[f.job] = teamOf[f.job]
         \/ /\ teamOf'[f.job] \in Teams /\ teamOf[f.job] = NULL
            /\ f.job \in ghost'.bare
         \/ /\ teamOf'[f.job] \in Teams /\ teamOf[f.job] \in Teams
            /\ f.job \in ghost'.moved
  <2>1. CASE f.pc = "new job" /\ teamOf[f.job] # NULL
    BY <2>1 DEF WriteJob
  <2>2. CASE f.pc = "new job" /\ teamOf[f.job] = NULL
    <3>1. /\ teamOf' = [teamOf EXCEPT ![f.job] = f.unit]
          /\ ghost' = [ghost EXCEPT !.bare = ghost.bare \cup {f.job}]
      BY <2>2 DEF WriteJob
    <3>2. /\ ghost'.cut = ghost.cut /\ ghost'.overlapped = ghost.overlapped
          /\ ghost'.moved = ghost.moved
          /\ ghost'.bare = ghost.bare \cup {f.job}
      BY <3>1, GhostParts
    <3> QED  BY <1>1, <2>2, <3>1, <3>2, Typed
  <2>3. CASE f.pc = "move job" /\ teamOf[f.job] = f.unit
    <3>1. teamOf' = [teamOf EXCEPT ![f.job] = f.unit] /\ ghost' = ghost
      BY <2>3 DEF WriteJob
    <3> QED  BY <1>1, <2>3, <3>1, Typed
  <2>4. CASE f.pc = "move job" /\ teamOf[f.job] # f.unit
    <3>1. /\ teamOf' = [teamOf EXCEPT ![f.job] = f.unit]
          /\ ghost' = [ghost EXCEPT !.moved = ghost.moved \cup {f.job}]
      BY <2>4 DEF WriteJob
    <3>2. /\ ghost'.cut = ghost.cut /\ ghost'.overlapped = ghost.overlapped
          /\ ghost'.bare = ghost.bare
          /\ ghost'.moved = ghost.moved \cup {f.job}
      BY <3>1, GhostParts
    <3> QED  BY <1>1, <2>4, <3>1, <3>2, Typed
  <2> QED  BY <1>1, <2>1, <2>2, <2>3, <2>4
<1> HIDE DEF f, g
<1>6. /\ frames[i].pc \notin {"grant", "profile"}
      /\ \A u \in Users : There(u)' <=> There(u)
  BY <1>1 DEF There, f
<1>7. PeopleInv'
  <2>1. \A j \in Jobs : \/ teamOf'[j] = teamOf[j]
                        \/ teamOf'[j] \in Teams /\ teamOf[j] \notin Teams
                        \/ teamOf'[j] \in Teams /\ j \in ghost'.moved
    BY <1>5, NullIsNoTeam
  <2> QED  BY <1>1, <1>4, <1>5, <1>6, <2>1, PeopleKept
<1>8. ListsInv'
  <2>1. \A j \in Jobs : \/ teamOf'[j] = NULL \/ teamOf[j] # NULL
                        \/ j \in ghost'.bare
    BY <1>1, <1>5, NullIsNoTeam
  <2> QED  BY <1>1, <1>4, <1>5, <2>1, ListsKept
<1> QED  BY <1>7, <1>8

\* The row, the membership and the profile are inserted one after another.
LEMMA InsertWorksRows ==
  ASSUME Inv, PeopleInv, ListsInv, NEW i \in Handlers, InsertWorks(i)
  PROVE  PeopleInv' /\ ListsInv'
<1>1. PICK f : f = frames[i]
  OBVIOUS
<1>2. /\ f.pc = "works" /\ f \in Frame /\ f.target \in Users /\ f.job \in Jobs
      /\ UNCHANGED <<users, teamOf, lists, members, profiles, ids, ghost>>
  BY <1>1, Typed DEF InsertWorks, Is, FrameOK, OnWorkers
<1>3. \A u \in Users : There(u)' <=> There(u)
  BY <1>2 DEF There
<1>4. CASE ~(There(f.target) /\ teamOf[f.job] # NULL)
  <2>1. Goto(i, Idle) /\ UNCHANGED works /\ Idle.pc \notin Replacing
    BY <1>1, <1>4, IdlePc DEF InsertWorks, Done, Replacing
  <2>2. PeopleInv'
    BY <1>1, <1>2, <1>3, <2>1, PeopleKept
  <2> QED  BY <1>2, <2>1, <2>2, ListsKept
<1>5. CASE There(f.target) /\ teamOf[f.job] # NULL
  <2> DEFINE g == [f EXCEPT !.pc = "grant"]
  <2>1. /\ works' = works \cup {<<f.target, f.job>>} /\ Goto(i, g)
    BY <1>1, <1>5 DEF InsertWorks, To, Goto
  <2>2. g.pc = "grant" /\ g.target = f.target /\ g.job = f.job
    BY <1>2 DEF Frame
  <2> HIDE DEF g
  <2>3. frames'[i] = g /\ \A k \in Handlers \ {i} : frames'[k] = frames[k]
    BY <2>1, Moved
  <2>4. WorksOK'
    <3> SUFFICES ASSUME NEW x \in works'
                 PROVE  There(x[1])' /\ teamOf'[x[2]] \in Teams /\ Joined(x)'
      BY DEF WorksOK
    <3>1. CASE x \in works
      <4>1. x[1] \in Users /\ There(x[1]) /\ teamOf[x[2]] \in Teams /\ Joined(x)
        BY <3>1, Typed DEF PeopleInv, WorksOK
      <4>2. ASSUME NEW k \in Handlers, Is(k, "grant"),
                   frames[k].target = x[1], frames[k].job = x[2]
            PROVE  Joined(x)'
        <5>1. k # i
          BY <1>1, <1>2, <4>2 DEF Is
        <5> QED  BY <2>3, <4>2, <5>1 DEF Is, Joined
      <4>3. Joined(x)'
        BY <1>2, <4>1, <4>2 DEF Joined
      <4> QED  BY <1>2, <1>3, <4>1, <4>3
    <3>2. CASE x = <<f.target, f.job>>
      <4>1. x[1] = f.target /\ x[2] = f.job
        BY <3>2
      <4>2. teamOf[f.job] \in Teams
        BY <1>2, <1>5, Typed
      <4>3. Joined(x)'
        BY <2>2, <2>3, <4>1 DEF Joined, Is
      <4> QED  BY <1>2, <1>3, <1>5, <4>1, <4>2, <4>3
    <3> QED  BY <2>1, <3>1, <3>2
  <2>5. ProfilesOK'
    <3> SUFFICES ASSUME NEW u \in ids, Seeded[u].rank = "none", There(u)
                 PROVE  \/ u \in profiles \cup ghost.cut
                        \/ \E k \in Handlers : Is(k, "profile")' /\ frames'[k].target = u
      BY <1>2, <1>3, Typed DEF ProfilesOK
    <3>1. \/ u \in profiles \cup ghost.cut
          \/ \E k \in Handlers : Is(k, "profile") /\ frames[k].target = u
      BY DEF PeopleInv, ProfilesOK
    <3>2. ASSUME NEW k \in Handlers, Is(k, "profile"), frames[k].target = u
          PROVE  Is(k, "profile")' /\ frames'[k].target = u
      BY <1>1, <1>2, <2>3, <3>2 DEF Is
    <3> QED  BY <3>1, <3>2
  <2>6. ListsInv'
    BY <1>2, <2>1, <2>2, ListsKept DEF Replacing
  <2> QED  BY <2>4, <2>5, <2>6 DEF PeopleInv
<1> QED  BY <1>4, <1>5

LEMMA GrantRows ==
  ASSUME Inv, PeopleInv, ListsInv, NEW i \in Handlers, Grant(i)
  PROVE  PeopleInv' /\ ListsInv'
<1>1. PICK f : f = frames[i]
  OBVIOUS
<1>2. /\ f.pc = "grant" /\ f.target \in Users /\ Goto(i, Idle)
      /\ UNCHANGED <<users, teamOf, lists, works, profiles, ids, ghost>>
      /\ members' = IF There(f.target)
                    THEN members \cup {<<f.target, teamOf[f.job]>>} ELSE members
  BY <1>1, Typed DEF Grant, Granted, Is, Done, FrameOK, OnWorkers
<1>3. \A u \in Users : There(u)' <=> There(u)
  BY <1>2 DEF There
<1>4. /\ frames'[i] = Idle /\ Idle.pc = "idle"
      /\ \A k \in Handlers \ {i} : frames'[k] = frames[k]
  BY <1>2, IdlePc, Moved
<1>5. WorksOK'
  <2> SUFFICES ASSUME NEW x \in works
               PROVE  There(x[1])' /\ teamOf[x[2]] \in Teams /\ Joined(x)'
    BY <1>2 DEF WorksOK
  <2>1. x[1] \in Users /\ There(x[1]) /\ teamOf[x[2]] \in Teams /\ Joined(x)
    BY Typed DEF PeopleInv, WorksOK
  <2>2. ASSUME NEW k \in Handlers, Is(k, "grant"),
               frames[k].target = x[1], frames[k].job = x[2]
        PROVE  Joined(x)'
    <3>1. CASE k = i
      <4>1. <<x[1], teamOf[x[2]]>> \in members'
        BY <1>1, <1>2, <2>1, <2>2, <3>1
      <4> QED  BY <1>2, <4>1 DEF Joined
    <3>2. CASE k # i
      BY <1>4, <2>2, <3>2 DEF Is, Joined
    <3> QED  BY <3>1, <3>2
  <2>3. Joined(x)'
    BY <1>2, <2>1, <2>2 DEF Joined
  <2> QED  BY <1>3, <2>1, <2>3
<1>6. ProfilesOK'
  <2> SUFFICES ASSUME NEW u \in ids, Seeded[u].rank = "none", There(u)
               PROVE  \/ u \in profiles \cup ghost.cut
                      \/ \E k \in Handlers : Is(k, "profile")' /\ frames'[k].target = u
    BY <1>2, <1>3, Typed DEF ProfilesOK
  <2>1. \/ u \in profiles \cup ghost.cut
        \/ \E k \in Handlers : Is(k, "profile") /\ frames[k].target = u
    BY DEF PeopleInv, ProfilesOK
  <2>2. ASSUME NEW k \in Handlers, Is(k, "profile"), frames[k].target = u
        PROVE  Is(k, "profile")' /\ frames'[k].target = u
    BY <1>1, <1>2, <1>4, <2>2 DEF Is
  <2> QED  BY <2>1, <2>2
<1>7. ListsInv'
  BY <1>2, <1>4, ListsKept DEF Replacing
<1> QED  BY <1>5, <1>6, <1>7 DEF PeopleInv

\* The user is new: nothing refers to it yet.
LEMMA InsertWorkerRows ==
  ASSUME Inv, PeopleInv, ListsInv, NEW i \in Handlers, InsertWorker(i)
  PROVE  PeopleInv' /\ ListsInv'
<1>1. PICK u \in Users \ ids :
        /\ users' = [users EXCEPT ![u] = [rank |-> "worker",
                                          disabled |-> FALSE]]
        /\ ids' = ids \cup {u}
        /\ Goto(i, [frames[i] EXCEPT !.pc = "profile", !.target = u])
  BY DEF InsertWorker
<1> DEFINE g == [frames[i] EXCEPT !.pc = "profile", !.target = u]
<1>2. /\ frames[i].pc = "new worker" /\ g.pc = "profile" /\ g.target = u
      /\ UNCHANGED <<teamOf, lists, works, members, profiles, ghost>>
  <2>1. frames[i].pc = "new worker" /\ frames[i] \in Frame
    BY Typed DEF InsertWorker, Is
  <2>2. g.pc = "profile" /\ g.target = u
    BY <2>1 DEF Frame
  <2>3. UNCHANGED <<teamOf, lists, works, members, profiles, ghost>>
    BY DEF InsertWorker, store
  <2> QED  BY <2>1, <2>2, <2>3
<1> HIDE DEF g
<1>3. Goto(i, g)
  BY <1>1 DEF g
<1>4. frames'[i] = g /\ \A k \in Handlers \ {i} : frames'[k] = frames[k]
  BY <1>3, Moved
<1>5. \A v \in Users : There(v)' <=> There(v) \/ v = u
  BY <1>1, Typed DEF There
<1>6. WorksOK'
  <2> SUFFICES ASSUME NEW x \in works
               PROVE  There(x[1])' /\ teamOf[x[2]] \in Teams /\ Joined(x)'
    BY <1>2 DEF WorksOK
  <2>1. x[1] \in Users /\ There(x[1]) /\ teamOf[x[2]] \in Teams /\ Joined(x)
    BY Typed DEF PeopleInv, WorksOK
  <2>2. ASSUME NEW k \in Handlers, Is(k, "grant"),
               frames[k].target = x[1], frames[k].job = x[2]
        PROVE  Joined(x)'
    BY <1>2, <1>4, <2>2 DEF Is, Joined
  <2>3. Joined(x)'
    BY <1>2, <2>1, <2>2 DEF Joined
  <2> QED  BY <1>5, <2>1, <2>3
<1>7. ProfilesOK'
  <2> SUFFICES ASSUME NEW v \in ids', Seeded[v].rank = "none", There(v)'
               PROVE  \/ v \in profiles \cup ghost.cut
                      \/ \E k \in Handlers : Is(k, "profile")' /\ frames'[k].target = v
    BY <1>2 DEF ProfilesOK
  <2>1. CASE v = u
    BY <1>2, <1>4, <2>1 DEF Is
  <2>2. CASE v # u
    <3>1. v \in ids /\ There(v)
      BY <1>1, <1>5, <2>2, Typed
    <3>2. \/ v \in profiles \cup ghost.cut
          \/ \E k \in Handlers : Is(k, "profile") /\ frames[k].target = v
      BY <3>1 DEF PeopleInv, ProfilesOK
    <3>3. ASSUME NEW k \in Handlers, Is(k, "profile"), frames[k].target = v
          PROVE  Is(k, "profile")' /\ frames'[k].target = v
      BY <1>2, <1>4, <3>3 DEF Is
    <3> QED  BY <3>2, <3>3
  <2> QED  BY <2>1, <2>2
<1>8. ListsInv'
  BY <1>2, <1>3, ListsKept DEF Replacing
<1> QED  BY <1>6, <1>7, <1>8 DEF PeopleInv

LEMMA InsertProfileRows ==
  ASSUME Inv, PeopleInv, ListsInv, NEW i \in Handlers, InsertProfile(i)
  PROVE  PeopleInv' /\ ListsInv'
<1>1. PICK u : u = frames[i].target
  OBVIOUS
<1>2. /\ frames[i].pc = "profile" /\ u \in Users
      /\ UNCHANGED <<users, teamOf, lists, works, members, ids, ghost>>
  BY <1>1, Typed DEF InsertProfile, Is, FrameOK, OnWorkers
<1>3. PICK f : Goto(i, f) /\ f.pc \in {"idle", "works"}
  <2>1. Goto(i, Idle) \/ Goto(i, [frames[i] EXCEPT !.pc = "works"])
    BY DEF InsertProfile, Done, To, Goto
  <2>2. [frames[i] EXCEPT !.pc = "works"].pc = "works"
    BY Typed DEF Frame
  <2> QED  BY <2>1, <2>2, IdlePc
<1>4. There(u) => u \in profiles'
  BY <1>1 DEF InsertProfile
<1>5. profiles \subseteq profiles'
  BY DEF InsertProfile
<1>6. frames'[i] = f /\ \A k \in Handlers \ {i} : frames'[k] = frames[k]
  BY <1>3, Moved
<1>7. \A v \in Users : There(v)' <=> There(v)
  BY <1>2 DEF There
<1>8. WorksOK'
  <2> SUFFICES ASSUME NEW x \in works
               PROVE  There(x[1])' /\ teamOf[x[2]] \in Teams /\ Joined(x)'
    BY <1>2 DEF WorksOK
  <2>1. x[1] \in Users /\ There(x[1]) /\ teamOf[x[2]] \in Teams /\ Joined(x)
    BY Typed DEF PeopleInv, WorksOK
  <2>2. ASSUME NEW k \in Handlers, Is(k, "grant"),
               frames[k].target = x[1], frames[k].job = x[2]
        PROVE  Joined(x)'
    BY <1>2, <1>6, <2>2 DEF Is, Joined
  <2>3. Joined(x)'
    BY <1>2, <2>1, <2>2 DEF Joined
  <2> QED  BY <1>7, <2>1, <2>3
<1>9. ProfilesOK'
  <2> SUFFICES ASSUME NEW v \in ids, Seeded[v].rank = "none", There(v)
               PROVE  \/ v \in profiles' \cup ghost.cut
                      \/ \E k \in Handlers : Is(k, "profile")' /\ frames'[k].target = v
    BY <1>2, <1>7, Typed DEF ProfilesOK
  <2>1. \/ v \in profiles \cup ghost.cut
        \/ \E k \in Handlers : Is(k, "profile") /\ frames[k].target = v
    BY DEF PeopleInv, ProfilesOK
  <2>2. ASSUME NEW k \in Handlers, Is(k, "profile"), frames[k].target = v
        PROVE  v \in profiles' \/ (Is(k, "profile")' /\ frames'[k].target = v)
    <3>1. CASE k = i
      BY <1>1, <1>4, <2>2, <3>1
    <3>2. CASE k # i
      BY <1>6, <2>2, <3>2 DEF Is
    <3> QED  BY <3>1, <3>2
  <2> QED  BY <1>5, <2>1, <2>2
<1>10. ListsInv'
  BY <1>2, <1>3, ListsKept DEF Replacing
<1> QED  BY <1>8, <1>9, <1>10 DEF PeopleInv

\* The rows of a deleted user go with it.
LEMMA DeleteUserRows ==
  ASSUME Inv, PeopleInv, ListsInv, NEW i \in Handlers, DeleteUser(i)
  PROVE  PeopleInv' /\ ListsInv'
<1>1. PICK u : u = frames[i].target
  OBVIOUS
<1>2. /\ frames[i].pc = "delete" /\ u \in Users /\ Goto(i, Idle)
      /\ UNCHANGED <<teamOf, lists, ids, ghost>>
      /\ users' = [users EXCEPT ![u] = Gone]
      /\ profiles' = profiles \ {u}
      /\ works' = {x \in works : x[1] # u}
      /\ members' = {x \in members : x[1] # u}
  BY <1>1, Typed DEF DeleteUser, Done, FrameOK, OnAccounts
<1>3. \A v \in Users : There(v)' <=> There(v) /\ v # u
  BY <1>2, Typed DEF There, Gone
<1>4. /\ frames'[i] = Idle /\ Idle.pc = "idle"
      /\ \A k \in Handlers \ {i} : frames'[k] = frames[k]
  BY <1>2, IdlePc, Moved
<1>5. WorksOK'
  <2> SUFFICES ASSUME NEW x \in works, x[1] # u
               PROVE  There(x[1])' /\ teamOf[x[2]] \in Teams /\ Joined(x)'
    BY <1>2 DEF WorksOK
  <2>1. x[1] \in Users /\ There(x[1]) /\ teamOf[x[2]] \in Teams /\ Joined(x)
    BY Typed DEF PeopleInv, WorksOK
  <2>2. ASSUME NEW k \in Handlers, Is(k, "grant"),
               frames[k].target = x[1], frames[k].job = x[2]
        PROVE  Joined(x)'
    BY <1>2, <1>4, <2>2 DEF Is, Joined
  <2>3. <<x[1], teamOf[x[2]]>> \in members =>
          <<x[1], teamOf[x[2]]>> \in members'
    BY <1>2
  <2>4. Joined(x)'
    BY <1>2, <2>1, <2>2, <2>3 DEF Joined
  <2> QED  BY <1>3, <2>1, <2>4
<1>6. ProfilesOK'
  <2> SUFFICES ASSUME NEW v \in ids, Seeded[v].rank = "none", There(v), v # u
               PROVE  \/ v \in profiles' \cup ghost.cut
                      \/ \E k \in Handlers : Is(k, "profile")' /\ frames'[k].target = v
    BY <1>2, <1>3, Typed DEF ProfilesOK
  <2>1. \/ v \in profiles \cup ghost.cut
        \/ \E k \in Handlers : Is(k, "profile") /\ frames[k].target = v
    BY DEF PeopleInv, ProfilesOK
  <2>2. ASSUME NEW k \in Handlers, Is(k, "profile"), frames[k].target = v
        PROVE  Is(k, "profile")' /\ frames'[k].target = v
    BY <1>2, <1>4, <2>2 DEF Is
  <2> QED  BY <1>2, <2>1, <2>2
<1>7. ListsInv'
  BY <1>2, <1>4, ListsKept DEF Replacing
<1> QED  BY <1>5, <1>6, <1>7 DEF PeopleInv

LEMMA SetRoleRows ==
  ASSUME Inv, PeopleInv, ListsInv, NEW u \in Users, NEW rank \in Held,
         SetRole(u, rank)
  PROVE  PeopleInv' /\ ListsInv'
<1>1. /\ UNCHANGED <<teamOf, lists, works, members, profiles, ids, frames, ghost>>
      /\ \A v \in Users : There(v)' <=> There(v)
  BY Typed DEF SetRole, store, There, User, Held
<1>2. WorksOK'
  <2> SUFFICES ASSUME NEW x \in works
               PROVE  There(x[1])' /\ teamOf[x[2]] \in Teams /\ Joined(x)'
    BY <1>1 DEF WorksOK
  <2>1. x[1] \in Users /\ There(x[1]) /\ teamOf[x[2]] \in Teams /\ Joined(x)
    BY Typed DEF PeopleInv, WorksOK
  <2> QED  BY <1>1, <2>1 DEF Joined, Is
<1>3. ProfilesOK'
  BY <1>1, Typed DEF PeopleInv, ProfilesOK, Is
<1>4. ListsInv'
  BY <1>1, ListsSame
<1> QED  BY <1>2, <1>3, <1>4 DEF PeopleInv

-----------------------------------------------------------------------------
(***************************************************************************)
(* The transactions that replace a list.                                   *)
(***************************************************************************)
LEMMA DeleteRowsRows ==
  ASSUME Inv, PeopleInv, ListsInv, NEW i \in Handlers, DeleteRows(i)
  PROVE  PeopleInv' /\ ListsInv'
<1>1. PICK f, tx, seen :
        /\ f = frames[i] /\ seen = lists[ListAt(f.pc)][f.job]
        /\ tx = IF f.pc = "hours" THEN "hours tx" ELSE "closures tx"
  OBVIOUS
<1> DEFINE g == [f EXCEPT !.pc = tx, !.seen = seen]
<1>2. /\ f.pc \in {"hours", "closures"} /\ f \in Frame /\ f.job \in Jobs
      /\ Goto(i, g)
      /\ ghost' = IF Others(i, tx) = {} THEN ghost
                  ELSE [ghost EXCEPT !.overlapped = @ \cup {f.job}]
      /\ UNCHANGED <<users, teamOf, lists, works, members, profiles, ids>>
  BY <1>1, Typed DEF DeleteRows, Visible, store, FrameOK, OnLists
<1>3. /\ g.pc = tx /\ g.job = f.job /\ g.seen = seen
      /\ tx \in Replacing /\ ListAt(tx) = ListAt(f.pc)
  BY <1>1, <1>2 DEF Frame, Replacing, ListAt
<1> HIDE DEF g
<1>4. frames'[i] = g /\ \A k \in Handlers \ {i} : frames'[k] = frames[k]
  BY <1>2, Moved
<1>5. /\ ghost'.cut = ghost.cut /\ ghost'.moved = ghost.moved
      /\ ghost'.bare = ghost.bare
      /\ ghost.overlapped \subseteq ghost'.overlapped
      /\ Others(i, tx) # {} => f.job \in ghost'.overlapped
  BY <1>2, GhostParts
<1>6. PeopleInv'
  <2>1. \A u \in Users : There(u)' <=> There(u)
    BY <1>2 DEF There
  <2> QED  BY <1>1, <1>2, <1>5, <2>1, PeopleKept
<1>7. Alone'
  <2> SUFFICES ASSUME NEW h \in Handlers, NEW k \in Handlers, h # k,
                      frames'[h].pc \in Replacing,
                      frames'[k].pc = frames'[h].pc,
                      frames'[k].job = frames'[h].job
               PROVE  frames'[h].job \in ghost'.overlapped
    BY DEF Alone
  <2>1. CASE h = i
    <3>1. k \in Others(i, tx)
      BY <1>1, <1>3, <1>4, <2>1 DEF Others
    <3> QED  BY <1>3, <1>4, <1>5, <2>1, <3>1
  <2>2. CASE k = i
    <3>1. h \in Others(i, tx)
      BY <1>1, <1>3, <1>4, <2>2 DEF Others
    <3> QED  BY <1>3, <1>4, <1>5, <2>2, <3>1
  <2>3. CASE h # i /\ k # i
    BY <1>4, <1>5, <2>3 DEF ListsInv, Alone
  <2> QED  BY <2>1, <2>2, <2>3
<1>8. SeenAll'
  <2> SUFFICES ASSUME NEW k \in Handlers, frames'[k].pc \in Replacing,
                      frames'[k].job \notin ghost'.overlapped
               PROVE  frames'[k].seen =
                        lists[ListAt(frames'[k].pc)][frames'[k].job]
    BY <1>2 DEF SeenAll, ListAt
  <2>1. CASE k = i
    BY <1>1, <1>3, <1>4, <2>1
  <2>2. CASE k # i
    BY <1>4, <1>5, <2>2 DEF ListsInv, SeenAll
  <2> QED  BY <2>1, <2>2
<1>9. JobHoursAreOneRequest'
  BY <1>2, <1>5 DEF ListsInv, JobHoursAreOneRequest, Asked
<1> QED  BY <1>6, <1>7, <1>8, <1>9 DEF ListsInv

LEMMA CommitRowsRows ==
  ASSUME Inv, PeopleInv, ListsInv, NEW i \in Handlers, CommitRows(i)
  PROVE  PeopleInv' /\ ListsInv'
<1>1. PICK f, list, kept, new :
        /\ f = frames[i] /\ list = ListAt(f.pc)
        /\ kept = lists[list][f.job] \ f.seen
        /\ new = [what : Body(f), by : {f.request}]
  OBVIOUS
<1>2. /\ f.pc \in Replacing /\ f \in Frame /\ f.job \in Jobs
      /\ list = IF f.pc = "hours tx" THEN "hours" ELSE "closures"
      /\ UNCHANGED <<users, teamOf, works, members, profiles, ids>>
  BY <1>1, Typed DEF CommitRows, FrameOK, OnLists, Replacing, ListAt
<1>3. \A u \in Users : There(u)' <=> There(u)
  BY <1>2 DEF There
<1>4. CASE \E x \in kept : x.what \in Body(f)
  <2>1. Goto(i, Idle) /\ UNCHANGED <<lists, ghost>> /\ Idle.pc \notin Replacing
    BY <1>1, <1>4, IdlePc DEF CommitRows, Done, Replacing
  <2>2. PeopleInv'
    BY <1>1, <1>2, <1>3, <2>1, PeopleKept DEF Replacing
  <2> QED  BY <1>2, <2>1, <2>2, ListsKept
<1>5. CASE ~\E x \in kept : x.what \in Body(f)
  <2>1. /\ lists' = [lists EXCEPT ![list][f.job] = kept \cup new]
        /\ \/ /\ list = "hours"
              /\ ghost' = [ghost EXCEPT !.bare = @ \ {f.job}]
           \/ list # "hours" /\ ghost' = ghost
    BY <1>1, <1>5 DEF CommitRows
  <2>a. \/ list = "hours" /\ ghost' = [ghost EXCEPT !.bare = ghost.bare \ {f.job}]
        \/ list # "hours" /\ ghost' = ghost
    BY <2>1
  <2>2. PICK g : Goto(i, g) /\ g.pc \in {"idle", "closures"}
    <3>1. \/ Goto(i, Idle)
          \/ Goto(i, [f EXCEPT !.pc = "closures", !.seen = {},
                               !.hours = DefaultHours])
      BY <1>1, <1>5 DEF CommitRows, Done
    <3>2. [f EXCEPT !.pc = "closures", !.seen = {},
                    !.hours = DefaultHours].pc = "closures"
      BY <1>2 DEF Frame
    <3> QED  BY <3>1, <3>2, IdlePc
  <2>3. frames'[i] = g /\ \A k \in Handlers \ {i} : frames'[k] = frames[k]
    BY <2>2, Moved
  <2>4. /\ ghost'.cut = ghost.cut /\ ghost'.moved = ghost.moved
        /\ ghost'.overlapped = ghost.overlapped
        /\ ghost'.bare = IF list = "hours" THEN ghost.bare \ {f.job}
                         ELSE ghost.bare
    <3>1. CASE list = "hours"
      <4>1. PICK s : s = ghost.bare \ {f.job}
        OBVIOUS
      <4>2. ghost' = [ghost EXCEPT !.bare = s]
        BY <2>a, <3>1, <4>1
      <4> QED  BY <3>1, <4>1, <4>2, GhostParts
    <3>2. CASE list # "hours"
      BY <2>a, <3>2
    <3> QED  BY <3>1, <3>2
  <2>5. /\ DOMAIN lists' = DOMAIN lists
        /\ lists'[list][f.job] = kept \cup new
        /\ \A l \in {"hours", "closures"} : \A j \in Jobs :
             l # list \/ j # f.job => lists'[l][j] = lists[l][j]
    BY <1>2, <2>1, Typed
  <2>6. PeopleInv'
    BY <1>1, <1>2, <1>3, <2>2, <2>4, PeopleKept DEF Replacing
  <2>7. \A k \in Handlers : frames'[k].pc \in Replacing =>
                              frames'[k] = frames[k] /\ k # i
    BY <2>2, <2>3 DEF Replacing
  <2>8. Alone'
    BY <2>4, <2>7 DEF ListsInv, Alone
  <2>9. SeenAll'
    <3> SUFFICES ASSUME NEW k \in Handlers, frames'[k].pc \in Replacing,
                        frames'[k].job \notin ghost'.overlapped
                 PROVE  frames'[k].seen =
                          lists'[ListAt(frames'[k].pc)][frames'[k].job]
      BY DEF SeenAll, ListAt
    <3>1. /\ k # i /\ frames'[k] = frames[k] /\ frames[k].pc \in Replacing
          /\ frames[k].job \notin ghost.overlapped
      BY <2>4, <2>7
    <3>2. frames[k].job \in Jobs /\ ListAt(frames[k].pc) \in {"hours", "closures"}
      BY <3>1, Typed DEF Replacing, FrameOK, OnLists, ListAt
    <3>3. ~(frames[k].pc = f.pc /\ frames[k].job = f.job)
      BY <1>1, <1>2, <3>1 DEF ListsInv, Alone
    <3>4. ListAt(frames[k].pc) # list \/ frames[k].job # f.job
      BY <1>2, <3>1, <3>3 DEF ListAt, Replacing
    <3>5. lists'[ListAt(frames[k].pc)][frames[k].job] =
            lists[ListAt(frames[k].pc)][frames[k].job]
      BY <2>5, <3>2, <3>4
    <3>6. frames[k].seen = lists[ListAt(frames[k].pc)][frames[k].job]
      BY <3>1 DEF ListsInv, SeenAll
    <3> QED  BY <3>1, <3>5, <3>6
  <2>10. JobHoursAreOneRequest'
    <3> SUFFICES ASSUME NEW j \in Jobs \ ghost'.overlapped
                 PROVE  /\ teamOf'[j] # NULL /\ j \notin ghost'.bare =>
                             Asked(j, "hours")' \in Schedules \cup {DefaultHours}
                        /\ \A l \in DOMAIN lists' :
                             \A x, y \in lists'[l][j] : x.by = y.by
      BY DEF JobHoursAreOneRequest
    <3>a. /\ teamOf' = teamOf /\ DOMAIN lists' = DOMAIN lists
          /\ j \in Jobs /\ j \notin ghost.overlapped
      BY <1>2, <2>4, <2>5
    <3>1. /\ teamOf[j] # NULL /\ j \notin ghost.bare =>
               Asked(j, "hours") \in Schedules \cup {DefaultHours}
          /\ \A l \in DOMAIN lists : \A x, y \in lists[l][j] : x.by = y.by
      BY <3>a DEF ListsInv, JobHoursAreOneRequest
    <3>2. DOMAIN lists = {"hours", "closures"}
      BY Typed
    <3>3. CASE j # f.job
      <4>1. Asked(j, "hours")' = Asked(j, "hours")
        BY <2>5, <3>3 DEF Asked
      <4>2. j \notin ghost'.bare => j \notin ghost.bare
        BY <2>4, <3>3
      <4> QED  BY <2>5, <3>a, <3>1, <3>2, <3>3, <4>1, <4>2
    <3>4. CASE j = f.job
      <4>1. f.seen = lists[list][f.job]
        BY <1>1, <1>2, <3>a, <3>4 DEF ListsInv, SeenAll
      <4>2. lists'[list][j] = new
        BY <1>1, <2>5, <3>4, <4>1
      <4>3. \A x, y \in new : x.by = y.by
        BY <1>1
      <4>4. \A l \in DOMAIN lists' : \A x, y \in lists'[l][j] : x.by = y.by
        BY <2>5, <3>a, <3>1, <3>2, <4>2, <4>3
      <4>5. CASE list = "hours"
        <5>1. Body(f) \in Schedules \cup {DefaultHours}
          BY <1>1, <1>2, <4>5 DEF Body, Frame
        <5>2. {x.what : x \in new} = Body(f)
          <6>1. \A x \in Body(f) : /\ [what |-> x, by |-> f.request] \in new
                                   /\ [what |-> x, by |-> f.request].what = x
            BY <1>1
          <6>2. \A x \in new : x.what \in Body(f)
            BY <1>1
          <6> QED  BY <6>1, <6>2
        <5>3. Asked(j, "hours")' = {x.what : x \in new}
          BY <4>2, <4>5 DEF Asked
        <5> QED  BY <4>4, <5>1, <5>2, <5>3
      <4>6. CASE list = "closures"
        <5>1. Asked(j, "hours")' = Asked(j, "hours")
          BY <1>2, <2>5, <4>6 DEF Asked
        <5>2. ghost'.bare = ghost.bare
          BY <2>4, <4>6
        <5> QED  BY <3>a, <3>1, <4>4, <5>1, <5>2
      <4> QED  BY <1>2, <4>5, <4>6
    <3> QED  BY <3>3, <3>4
  <2> QED  BY <2>6, <2>8, <2>9, <2>10 DEF ListsInv
<1> QED  BY <1>4, <1>5

-----------------------------------------------------------------------------
LEMMA InitRows == Init => PeopleInv /\ ListsInv
<1> SUFFICES ASSUME Init  PROVE  PeopleInv /\ ListsInv
  OBVIOUS
<1>1. WorksOK /\ ProfilesOK
  BY DEF Init, WorksOK, ProfilesOK
<1>2. Alone /\ SeenAll
  BY IdlePc DEF Init, Alone, SeenAll, Replacing
<1>3. JobHoursAreOneRequest
  BY DEF Init, JobHoursAreOneRequest
<1> QED  BY <1>1, <1>2, <1>3 DEF PeopleInv, ListsInv

LEMMA StepKeepsRows ==
  Inv /\ PeopleInv /\ ListsInv /\ [Next]_vars => PeopleInv' /\ ListsInv'
<1> SUFFICES ASSUME Inv, PeopleInv, ListsInv, [Next]_vars
             PROVE  PeopleInv' /\ ListsInv'
  OBVIOUS
<1>1. ASSUME NEW i \in Handlers, Handle(i)  PROVE  PeopleInv' /\ ListsInv'
  BY <1>1, EnterRows, OtherRows, AbortRows, WriteJobRows, InsertWorksRows,
     GrantRows, InsertWorkerRows, InsertProfileRows, DeleteUserRows,
     DeleteRowsRows, CommitRowsRows DEF Handle
<1>2. ASSUME NEW u \in Users, NEW rank \in Held, SetRole(u, rank)
      PROVE  PeopleInv' /\ ListsInv'
  BY <1>2, SetRoleRows
<1>3. CASE UNCHANGED vars
  <2>1. UNCHANGED <<users, teamOf, lists, works, members, profiles, ids,
                    frames, ghost>>
    BY <1>3 DEF vars, store
  <2>2. PeopleInv'
    BY <2>1 DEF PeopleInv, WorksOK, ProfilesOK, Joined, There, Is
  <2>3. ListsInv'
    BY <2>1, ListsSame
  <2> QED  BY <2>2, <2>3
<1> QED  BY <1>1, <1>2, <1>3 DEF Next

LEMMA RowsHold == Spec => [](Inv /\ PeopleInv /\ ListsInv)
<1>1. Init => Inv /\ PeopleInv /\ ListsInv
  BY InitIsInv, InitRows
<1>2. Inv /\ PeopleInv /\ ListsInv /\ [Next]_vars =>
        (Inv /\ PeopleInv /\ ListsInv)'
  BY StepKeepsInv, StepKeepsRows
<1> QED  BY <1>1, <1>2, PTL DEF Spec

\* createWorker and assignWorkerJob are several statements: whoever has a job is
\* a member of its team, and a created worker has a profile, unless the handler
\* was cut short or the job has been moved to another team since.
THEOREM WorkersStayMembers == Spec => []WorkersAreMembers
<1>1. Inv /\ PeopleInv => WorkersAreMembers
  BY DEF PeopleInv, WorksOK, ProfilesOK, Joined, Is, WorkersAreMembers
<1> QED  BY <1>1, RowsHold, PTL

\* replaceJobSchedules and replaceJobHolidays delete and insert in one
\* transaction: what others see of a job's hours and closures is always what one
\* request asked for, unless two replacements of the same list overlapped.
THEOREM JobHoursStayOneRequest == Spec => []JobHoursAreOneRequest
<1>1. ListsInv => JobHoursAreOneRequest
  BY DEF ListsInv
<1> QED  BY <1>1, RowsHold, PTL
=============================================================================
