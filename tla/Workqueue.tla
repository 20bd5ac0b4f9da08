----------------------------- MODULE Workqueue ------------------------------
(***************************************************************************)
(* The work queue of the scheduling backend: the shifts of the tables      *)
(* `workqueue` and `schedule_requests`, and the HTTP handlers that pick,   *)
(* assign, split, request, approve, deny, cancel and release them          *)
(* (backend/schedule_workqueue.go, schedule_requests.go, worker.go).       *)
(*                                                                         *)
(* None of these handlers opens a transaction: each SQL statement commits  *)
(* on its own, and the statements of handlers that serve different         *)
(* requests interleave.  `frames` therefore holds, for each slot, the      *)
(* local variables of the handler running in it and, in pc, the statement  *)
(* it will execute next; each action below is one statement with the Go    *)
(* code up to the next one.  With a single slot the handlers are serial.   *)
(***************************************************************************)
EXTENDS Integers, Sequences, FiniteSetsExt, WorkerPolicy

CONSTANTS
  NULL,            \* SQL's NULL
  Slots,           \* handlers that can be in flight at the same time
  Workers,         \* rows of users that hold shifts
  Managers,        \* callers of the manager endpoints
  Admins,          \* those of them who are admins and exempt from scope
  Scope,           \* Scope[m]: teams manager m manages (callerScopeTeamIDs)
  Teams,
  Member,          \* active rows of worker_teams: <<worker, team>>
  Days,            \* dates, as day numbers; day 0 is a Monday
  ShiftIds,        \* bounds the rows of workqueue
  RequestIds,      \* bounds the rows of schedule_requests
  InitShifts,      \* the rows of workqueue the handlers start from
  InitDetails,     \* each worker's type and hourly limit at the start
  NewDetails,      \* inputs of setWorkerDetails
  NewShifts,       \* inputs of createWorkqueueShift: [team, day, start, end]
  Templates,       \* inputs of addWeeklySchedule:
                   \*   [worker, team, day, start, end]
  AssignBlocks,    \* inputs of a single-block assignment: <<start, end>>
  BlockLists,      \* inputs of a multi-block assignment, sequences of those
  Deletable,       \* workers an admin may delete
  Kept,            \* the actions whose audit rows a model keeps
  MayAbort         \* can a client disconnect cancel a handler half way?

VARIABLES
  shifts,          \* table workqueue: id -> row
  requests,        \* table schedule_requests: id -> row, or NULL
                   \* once deleted: a serial id is never used again
  details,         \* users.worker_type and users.hourly_limit
  present,         \* workers whose row in users exists
  weekly,          \* table weekly_schedules
  audit,           \* table audit_log: <<action, entity id>>
  frames           \* the handlers in flight

vars == <<shifts, requests, details, present, weekly, audit, frames>>

-----------------------------------------------------------------------------
Block == Int \X Int

Row == [team : Teams, day : Days, start : Int, end : Int,
        status : {"open", "assigned"},
        worker : Workers \cup {NULL}, parent : ShiftIds \cup {NULL}]

Request == [worker : Workers, shift : ShiftIds, type : {"miss", "overflow"},
            status : {"pending", "approved", "denied", "cancelled"}]

\* A row of weekly_schedules; 0 is Sunday.
Template == [worker : Workers, weekday : 0..6, start : Int, end : Int]

\* The audit action that each terminal status of a request calls for.
AuditOf == [approved  |-> "request.approved", denied |-> "request.denied",
            cancelled |-> "request.cancelled", pending |-> "request.created"]

ShiftEvents   == {"shift.picked", "shift.assigned", "shift.unassigned"}
RequestEvents == {AuditOf[st] : st \in DOMAIN AuditOf}
AuditRow      == (ShiftEvents \X ShiftIds) \cup (RequestEvents \X RequestIds)

Ops == {"none", "pick", "approve", "assign", "blocks", "weekly",
        "miss", "overflow", "cancel", "deny", "unassign"}

Pcs == {"idle", "settings", "hours", "overflow", "take", "audit", "release",
        "read", "deny", "finish", "next", "split", "tail", "head", "put",
        "template", "generate", "request"}

\* The local variables of a handler.
Frame == [pc     : Pcs,                       \* the next statement
          op     : Ops,                       \* the handler
          worker : Workers \cup {NULL},       \* whose hours are at stake
          shift  : ShiftIds \cup {NULL},      \* the id in the URL or body
          req    : RequestIds \cup {NULL},
          team   : Teams \cup {NULL},
          day    : Days \cup {NULL},
          details: AllDetails \cup {NULL},    \* what workerSettings read
          blocks : Seq(Block),                \* times asked for, or to assign
          row    : ShiftIds \cup {NULL},      \* row under assignBlockToRow
          seen   : [start : Int, end : Int, group : ShiftIds] \cup {NULL},
          note   : AuditRow \cup {NULL}]      \* what logAudit will insert

Idle == [pc |-> "idle", op |-> "none", worker |-> NULL, shift |-> NULL,
         req |-> NULL, team |-> NULL, day |-> NULL,
         details |-> NULL, blocks |-> <<>>, row |-> NULL, seen |-> NULL,
         note |-> NULL]

\* The tables at the start and the inputs are well formed: rows of the schema,
\* a group for every parent pointer, and nobody on an open shift.
ASSUME InputsOK ==
  /\ Member \subseteq Workers \X Teams
  /\ InitShifts \in [DOMAIN InitShifts -> Row]
  /\ DOMAIN InitShifts \subseteq ShiftIds
  /\ \A s \in DOMAIN InitShifts :
       LET row == InitShifts[s]
       IN  /\ row.status = "open" => row.worker = NULL
           /\ row.parent # NULL =>
                /\ row.parent \in DOMAIN InitShifts
                /\ InitShifts[row.parent].parent \in {NULL, row.parent}
                /\ InitShifts[row.parent].team = row.team
                /\ InitShifts[row.parent].day = row.day
  /\ InitDetails \in [Workers -> AllDetails]
  /\ NewDetails \subseteq AllDetails
  /\ NewShifts \subseteq [team : Teams, day : Days, start : Int, end : Int]
  /\ Templates \subseteq [worker : Workers, team : Teams, day : Days,
                          start : Int, end : Int]
  /\ AssignBlocks \subseteq Block
  /\ BlockLists \subseteq Seq(Block) \ {<<>>}
  /\ Deletable \subseteq Workers
  /\ Days \subseteq Int

\* NULL is a value of its own.
ASSUME NullIsNothing ==
  /\ NULL \notin Workers \cup ShiftIds \cup RequestIds \cup Teams \cup Days
  /\ NULL \notin AllDetails \cup Request \cup AuditRow

TypeOK ==
  /\ DOMAIN shifts \subseteq ShiftIds
  /\ shifts \in [DOMAIN shifts -> Row]
  /\ DOMAIN requests \subseteq RequestIds
  /\ requests \in [DOMAIN requests -> Request \cup {NULL}]
  /\ details \in [Workers -> AllDetails]
  /\ present \subseteq Workers
  /\ weekly \subseteq Template
  /\ audit \subseteq AuditRow
  /\ frames \in [Slots -> Frame]

-----------------------------------------------------------------------------
\* weekMondayOf: two dates count against the same cap in the same week.
Week(day) == day \div 7

\* workerWeekHours: the worker's assigned hours in the week of the date.
WeekHours(w, day) ==
  MapThenSumSet(LAMBDA s : shifts[s].end - shifts[s].start,
                {s \in DOMAIN shifts : /\ shifts[s].worker = w
                                       /\ Week(shifts[s].day) = Week(day)})

\* The time of the whole shift, and the hours in a list of times.
Whole(s) == << <<shifts[s].start, shifts[s].end>> >>
Length(bs) == MapThenSumSet(LAMBDA k : bs[k][2] - bs[k][1], DOMAIN bs)

\* The original shift a row was split from: its parent, or itself.
\* OwnGroup is the mutated form that starts a group at every split.
OwnGroup(s) == s
Group(s)    == IF shifts[s].parent = NULL THEN s ELSE shifts[s].parent

\* shiftInCallerScope, requestInCallerScope, teamInCallerScope.
InScope(m, team) == m \in Admins \/ team \in Scope[m]

\* workerInCallerScope: the worker belongs to one of the manager's teams.
WorkerInScope(m, w) ==
  w \in present /\ (m \in Admins \/ \E t \in Scope[m] : <<w, t>> \in Member)

\* INSERT ... RETURNING id.  When the bounded ids are used up the statement
\* fails, as any INSERT can, and the handler returns its error.
Insert(table, id, row) ==
  [x \in DOMAIN table \cup {id} |-> IF x = id THEN row ELSE table[x]]

FreeShiftIds   == ShiftIds \ DOMAIN shifts
FreeRequestIds == RequestIds \ DOMAIN requests

\* The rows of schedule_requests that exist.
Live == {r \in DOMAIN requests : requests[r] # NULL}

Start(i, f) == frames[i] = Idle /\ frames' = [frames EXCEPT ![i] = f]
Goto(i, f)  == frames' = [frames EXCEPT ![i] = f]
Done(i)     == Goto(i, Idle)

\* Go on at pc, or return.
Resume(i, pc) ==
  IF pc = "idle" THEN Done(i)
  ELSE Goto(i, [frames[i] EXCEPT !.pc = pc, !.details = NULL])

\* The worker that the handler serves; NULL stands for a manager.
Actor(f) == IF f.op \in {"pick", "miss"} THEN f.worker ELSE NULL

\* The handler has only its logAudit left to do.
ToAudit(i, action, id) ==
  Goto(i, [Idle EXCEPT !.pc = "audit", !.op = frames[i].op,
                       !.worker = Actor(frames[i]), !.req = frames[i].req,
                       !.note = <<action, id>>])

-----------------------------------------------------------------------------
(***************************************************************************)
(* allowanceFor, the check shared by every handler that hands out hours:   *)
(* one statement reads the worker's settings, the next sums the hours in   *)
(* use.  AfterCheck says where each handler goes on each verdict.          *)
(***************************************************************************)
\* Mutated form of AfterPickCheck: overtime taken without a request.
PickAnyway == [allowed |-> "take", pending |-> "take", blocked |-> "idle"]
AfterPickCheck ==
  [allowed |-> "take", pending |-> "overflow", blocked |-> "idle"]

AfterCheck ==
  [pick    |-> AfterPickCheck,
   approve |-> [allowed |-> "take", pending |-> "take", blocked |-> "deny"],
   assign  |-> [allowed |-> "split", pending |-> "overflow",
                blocked |-> "idle"],
   blocks  |-> [allowed |-> "next", pending |-> "overflow",
                blocked |-> "idle"],
   weekly  |-> [allowed |-> "template", pending |-> "template",
                blocked |-> "idle"]]

ReadSettings(i) ==
  LET f == frames[i]
  IN  /\ f.pc = "settings"
      /\ IF f.worker \in present
         THEN Goto(i, [f EXCEPT !.pc = "hours", !.details = details[f.worker]])
         ELSE Done(i)
      /\ UNCHANGED <<shifts, requests, details, present, weekly, audit>>

ReadHours(i) ==
  LET f == frames[i]
      verdict == Allowance(f.details, WeekHours(f.worker, f.day),
                           Length(f.blocks))
  IN  /\ f.pc = "hours"
      /\ Resume(i, AfterCheck[f.op][verdict])
      /\ UNCHANGED <<shifts, requests, details, present, weekly, audit>>

\* createOverflowRequest.  The foreign key refuses a deleted worker.
FileOverflow(i) ==
  LET f == frames[i]
  IN  /\ f.pc = "overflow"
      /\ IF f.worker \in present /\ FreeRequestIds # {}
         THEN \E id \in FreeRequestIds :
                /\ requests' = Insert(requests, id,
                     [worker |-> f.worker, shift |-> f.shift,
                      type |-> "overflow", status |-> "pending"])
                /\ Goto(i, [Idle EXCEPT !.pc = "audit", !.op = f.op,
                                        !.worker = Actor(f), !.req = id,
                                        !.note = <<"request.created", id>>])
         ELSE requests' = requests /\ Done(i)
      /\ UNCHANGED <<shifts, details, present, weekly, audit>>

\* The conditions of UPDATE ... WHERE id = ... AND status = 'open'.
\* AnyStatus is the mutated form without the second.
AnyStatus(s) == s \in DOMAIN shifts
StillOpen(s) == shifts[s].status = "open"

\* Where the handler goes when the update finds the row taken.
\* ApproveTaken is the mutated form that approves all the same.
ApproveTaken == [pick |-> "idle", approve |-> "finish"]
AfterTaken   == [pick |-> "idle", approve |-> "deny"]

\* That UPDATE, by a pick or by the approval of an overflow request.  The
\* foreign key refuses a deleted worker.
TakeOpen(i) ==
  LET f == frames[i]
  IN  /\ f.pc = "take"
      /\ \/ /\ StillOpen(f.shift) /\ f.worker \in present
            /\ shifts' = [shifts EXCEPT ![f.shift].status = "assigned",
                                        ![f.shift].worker = f.worker]
            /\ IF f.op = "pick" THEN ToAudit(i, "shift.picked", f.shift)
               ELSE Goto(i, [f EXCEPT !.pc = "finish"])
         \/ /\ StillOpen(f.shift) /\ f.worker \notin present
            /\ shifts' = shifts /\ Done(i)
         \/ /\ ~StillOpen(f.shift)
            /\ shifts' = shifts /\ Resume(i, AfterTaken[f.op])
      /\ UNCHANGED <<requests, details, present, weekly, audit>>

\* logAudit, the last statement of the handlers that call it.  Its error is
\* dropped: the foreign key refuses an actor deleted meanwhile.
LogAudit(i) ==
  /\ frames[i].pc = "audit"
  /\ audit' = audit \cup {n \in {frames[i].note} :
                            /\ n[1] \in Kept
                            /\ frames[i].worker \in present \cup {NULL}}
  /\ Done(i)
  /\ UNCHANGED <<shifts, requests, details, present, weekly>>

-----------------------------------------------------------------------------
\* pickShift, up to the read of the row.
Pick(i, w, s) ==
  /\ w \in present
  /\ shifts[s].status = "open"
  /\ <<w, shifts[s].team>> \in Member
  /\ Start(i, [Idle EXCEPT !.pc = "settings", !.op = "pick", !.worker = w,
                           !.shift = s, !.day = shifts[s].day,
                           !.blocks = Whole(s)])
  /\ UNCHANGED <<shifts, requests, details, present, weekly, audit>>

\* approveRequest: SELECT ... WHERE r.status = 'pending', and the scope check.
Approve(i, m, r) ==
  LET q == requests[r]
  IN  /\ q.status = "pending"
      /\ InScope(m, shifts[q.shift].team)
      /\ Start(i, [Idle EXCEPT !.pc = IF q.type = "miss" THEN "release"
                                      ELSE "read",
                               !.op = "approve", !.worker = q.worker,
                               !.shift = q.shift, !.req = r])
      /\ UNCHANGED <<shifts, requests, details, present, weekly, audit>>

\* SET status = 'open', assigned_user_id = NULL.
\* Reopened is the mutated form that keeps the worker.
Reopened(row) == [row EXCEPT !.status = "open"]
Released(row) == [row EXCEPT !.status = "open", !.worker = NULL]

\* An approved miss: the row goes back to the queue, whoever holds it.
ApproveRelease(i) ==
  LET f == frames[i]
  IN  /\ f.pc = "release"
      /\ shifts' = [shifts EXCEPT ![f.shift] = Released(@)]
      /\ Goto(i, [f EXCEPT !.pc = "finish"])
      /\ UNCHANGED <<requests, details, present, weekly, audit>>

\* An overflow request: read the shift, then re-check the cap.
ApproveRead(i) ==
  LET f == frames[i]
  IN  /\ f.pc = "read"
      /\ Goto(i, [f EXCEPT !.pc = "settings", !.blocks = Whole(f.shift),
                           !.day = shifts[f.shift].day])
      /\ UNCHANGED <<shifts, requests, details, present, weekly, audit>>

\* UPDATE schedule_requests SET status = ... WHERE id = ...: nothing checks
\* that the request is still pending, or still there.
Overwrite(r, status) ==
  IF r \in Live THEN [requests EXCEPT ![r].status = status]
  ELSE requests

\* Mutated form of ApproveDeny: no logAudit.
ApproveDenySilent(i) ==
  /\ frames[i].pc = "deny"
  /\ requests' = Overwrite(frames[i].req, "denied")
  /\ Done(i)
  /\ UNCHANGED <<shifts, details, present, weekly, audit>>

ApproveDeny(i) ==
  /\ frames[i].pc = "deny"
  /\ requests' = Overwrite(frames[i].req, "denied")
  /\ ToAudit(i, "request.denied", frames[i].req)
  /\ UNCHANGED <<shifts, details, present, weekly, audit>>

\* Mutated form of ApproveFinish: the audit row names the wrong entity.
FinishAsShift(i) ==
  /\ frames[i].pc = "finish"
  /\ requests' = Overwrite(frames[i].req, "approved")
  /\ ToAudit(i, "shift.assigned", frames[i].req)
  /\ UNCHANGED <<shifts, details, present, weekly, audit>>

ApproveFinish(i) ==
  /\ frames[i].pc = "finish"
  /\ requests' = Overwrite(frames[i].req, "approved")
  /\ ToAudit(i, "request.approved", frames[i].req)
  /\ UNCHANGED <<shifts, details, present, weekly, audit>>

\* denyRequest and cancelRequest: UPDATE ... WHERE status = 'pending'.
\* NotApproved is the mutated form that leaves out the decided ones.
NotApproved(r)  == requests[r].status # "approved"
StillPending(r) == requests[r].status = "pending"

Close(i, r, actor, op, status) ==
  /\ StillPending(r)
  /\ requests' = [requests EXCEPT ![r].status = status]
  /\ Start(i, [Idle EXCEPT !.pc = "audit", !.op = op, !.worker = actor,
                           !.req = r, !.note = <<AuditOf[status], r>>])
  /\ UNCHANGED <<shifts, details, present, weekly, audit>>

Deny(i, m, r) == /\ InScope(m, shifts[requests[r].shift].team)
                 /\ Close(i, r, NULL, "deny", "denied")

Cancel(i, r) == Close(i, r, requests[r].worker, "cancel", "cancelled")

\* createRequest: a miss must concern a shift of the caller's; an overflow is
\* inserted unchecked.
RequestMiss(i, w, s) ==
  /\ w \in present
  /\ shifts[s].worker = w
  /\ Start(i, [Idle EXCEPT !.pc = "request", !.op = "miss", !.worker = w,
                           !.shift = s])
  /\ UNCHANGED <<shifts, requests, details, present, weekly, audit>>

InsertMiss(i) ==
  LET f == frames[i]
  IN  /\ f.pc = "request"
      /\ IF f.worker \in present /\ FreeRequestIds # {}
         THEN \E id \in FreeRequestIds :
                /\ requests' = Insert(requests, id,
                     [worker |-> f.worker, shift |-> f.shift,
                      type |-> "miss", status |-> "pending"])
                /\ Goto(i, [Idle EXCEPT !.pc = "audit", !.op = "miss",
                                        !.worker = Actor(f), !.req = id,
                                        !.note = <<"request.created", id>>])
         ELSE requests' = requests /\ Done(i)
      /\ UNCHANGED <<shifts, details, present, weekly, audit>>

RequestOverflow(i, w, s) ==
  /\ w \in present
  /\ \E id \in FreeRequestIds :
       /\ requests' = Insert(requests, id,
            [worker |-> w, shift |-> s, type |-> "overflow",
             status |-> "pending"])
       /\ Start(i, [Idle EXCEPT !.pc = "audit", !.op = "overflow",
                                !.worker = w, !.req = id,
                                !.note = <<"request.created", id>>])
  /\ UNCHANGED <<shifts, details, present, weekly, audit>>

-----------------------------------------------------------------------------
(***************************************************************************)
(* assignWorkqueueShift.                                                   *)
(***************************************************************************)

\* userId absent: one UPDATE returns the shift to the queue.
Unassign(i, m, s) ==
  /\ InScope(m, shifts[s].team)
  /\ shifts' = [shifts EXCEPT ![s] = Released(@)]
  /\ Start(i, [Idle EXCEPT !.pc = "audit", !.op = "unassign",
                           !.note = <<"shift.unassigned", s>>])
  /\ UNCHANGED <<requests, details, present, weekly, audit>>

\* One block, or the whole shift, of the row in the URL; the block must fit
\* in the row as it is read here.
Assign(i, m, s, w) ==
  LET whole == Head(Whole(s))
  IN  /\ InScope(m, shifts[s].team)
      /\ WorkerInScope(m, w)
      /\ \E b \in AssignBlocks \cup {whole} :
           /\ whole[1] <= b[1] /\ b[1] < b[2] /\ b[2] <= whole[2]
           /\ Start(i, [Idle EXCEPT !.pc = "settings", !.op = "assign",
                                    !.worker = w, !.shift = s, !.row = s,
                                    !.day = shifts[s].day,
                                    !.blocks = <<b>>])
      /\ UNCHANGED <<shifts, requests, details, present, weekly, audit>>

\* A list of blocks: the handler requires them to have positive length only.
AssignList(i, m, s, w, bs) ==
  /\ InScope(m, shifts[s].team)
  /\ WorkerInScope(m, w)
  /\ \A k \in DOMAIN bs : bs[k][1] < bs[k][2]
  /\ Start(i, [Idle EXCEPT !.pc = "settings", !.op = "blocks", !.worker = w,
                           !.shift = s, !.day = shifts[s].day, !.blocks = bs])
  /\ UNCHANGED <<shifts, requests, details, present, weekly, audit>>

\* The open rows of the shift's group that cover the start of the block.
Covering(s, b) ==
  {x \in DOMAIN shifts : /\ shifts[x].parent = Group(s) \/ x = s
                         /\ shifts[x].status = "open"
                         /\ shifts[x].start <= b[1] /\ b[1] < shifts[x].end}

\* Next round of the loop over the blocks: choose the row to split, fail if
\* there is none, or leave the loop.
NextBlock(i) ==
  LET f == frames[i]
      rows == Covering(f.shift, Head(f.blocks))
  IN  /\ f.pc = "next"
      /\ IF f.blocks = <<>> THEN ToAudit(i, "shift.assigned", f.shift)
         ELSE IF rows = {} THEN Done(i)
         ELSE \E x \in rows : /\ \A y \in rows : shifts[x].start <= shifts[y].start
                              /\ Goto(i, [f EXCEPT !.pc = "split", !.row = x])
      /\ UNCHANGED <<shifts, requests, details, present, weekly, audit>>

(***************************************************************************)
(* assignBlockToRow: read the row, insert what follows the block, insert   *)
(* what precedes it, and give the row itself to the worker.                *)
(***************************************************************************)
\* Is there a part of the row before the block?  AlwaysPut is the mutated form
\* that forgets it.
AlwaysPut(b, row) == "put"
HeadOrPut(b, row) == IF b[1] # row.start THEN "head" ELSE "put"

SplitRead(i) ==
  LET f == frames[i]
      row == shifts[f.row]
      b == Head(f.blocks)
  IN  /\ f.pc = "split"
      /\ Goto(i, [f EXCEPT !.pc = IF b[2] # row.end THEN "tail"
                                  ELSE HeadOrPut(b, row),
                           !.seen = [start |-> row.start, end |-> row.end,
                                     group |-> Group(f.row)]])
      /\ UNCHANGED <<shifts, requests, details, present, weekly, audit>>

\* INSERT ... SELECT team_id, date, start, end FROM workqueue WHERE id = row.
Remainder(f, start, end) ==
  [shifts[f.row] EXCEPT !.start = start, !.end = end, !.status = "open",
                        !.worker = NULL, !.parent = f.seen.group]

SplitTail(i) ==
  LET f == frames[i]
      b == Head(f.blocks)
  IN  /\ f.pc = "tail"
      /\ \/ /\ \E id \in FreeShiftIds :
                 shifts' = Insert(shifts, id,
                                  Remainder(f, b[2], shifts[f.row].end))
            /\ Goto(i, [f EXCEPT !.pc = HeadOrPut(b, f.seen)])
         \/ FreeShiftIds = {} /\ shifts' = shifts /\ Done(i)
      /\ UNCHANGED <<requests, details, present, weekly, audit>>

SplitHead(i) ==
  LET f == frames[i]
      b == Head(f.blocks)
  IN  /\ f.pc = "head"
      /\ \/ /\ \E id \in FreeShiftIds :
                 shifts' = Insert(shifts, id,
                                  Remainder(f, shifts[f.row].start, b[1]))
            /\ Goto(i, [f EXCEPT !.pc = "put"])
         \/ FreeShiftIds = {} /\ shifts' = shifts /\ Done(i)
      /\ UNCHANGED <<requests, details, present, weekly, audit>>

\* The UPDATE has no condition on the row's status.
SplitPut(i) ==
  LET f == frames[i]
      b == Head(f.blocks)
  IN  /\ f.pc = "put"
      /\ IF f.worker \in present
         THEN /\ shifts' = [shifts EXCEPT ![f.row] =
                              [@ EXCEPT !.status = "assigned",
                                        !.worker = f.worker, !.start = b[1],
                                        !.end = b[2],
                                        !.parent = f.seen.group]]
              /\ IF f.op = "assign" THEN ToAudit(i, "shift.assigned", f.shift)
                 ELSE Goto(i, [f EXCEPT !.pc = "next", !.blocks = Tail(@),
                                        !.row = NULL, !.seen = NULL])
         ELSE shifts' = shifts /\ Done(i)
      /\ UNCHANGED <<requests, details, present, weekly, audit>>

-----------------------------------------------------------------------------
\* addWeeklySchedule: the worker holds a job of the team; check the hours,
\* insert the template, then this week's shift unless one starts at that time.
AddWeekly(i, t) ==
  /\ t.worker \in present
  /\ Start(i, [Idle EXCEPT !.pc = "settings", !.op = "weekly",
                           !.worker = t.worker, !.team = t.team, !.day = t.day,
                           !.blocks = << <<t.start, t.end>> >>])
  /\ UNCHANGED <<shifts, requests, details, present, weekly, audit>>

InsertTemplate(i) ==
  LET f == frames[i]
      b == Head(f.blocks)
  IN  /\ f.pc = "template"
      /\ IF f.worker \in present
         THEN /\ weekly' = weekly \cup
                   {[worker |-> f.worker, weekday |-> (f.day + 1) % 7,
                     start |-> b[1], end |-> b[2]]}
              /\ Goto(i, [f EXCEPT !.pc = "generate"])
         ELSE weekly' = weekly /\ Done(i)
      /\ UNCHANGED <<shifts, requests, details, present, audit>>

GenerateShift(i) ==
  LET f == frames[i]
      b == Head(f.blocks)
      taken == \E s \in DOMAIN shifts : /\ shifts[s].worker = f.worker
                                        /\ shifts[s].day = f.day
                                        /\ shifts[s].start = b[1]
  IN  /\ f.pc = "generate"
      /\ IF ~taken /\ f.worker \in present /\ FreeShiftIds # {}
         THEN \E id \in FreeShiftIds :
                shifts' = Insert(shifts, id,
                  [team |-> f.team, day |-> f.day, start |-> b[1],
                   end |-> b[2], status |-> "assigned", worker |-> f.worker,
                   parent |-> NULL])
         ELSE shifts' = shifts
      /\ Done(i)
      /\ UNCHANGED <<requests, details, present, weekly, audit>>

-----------------------------------------------------------------------------
(***************************************************************************)
(* Handlers of a single statement.  They too need a slot, but leave no     *)
(* trace in it.                                                            *)
(***************************************************************************)
SlotFree == \E i \in Slots : frames[i] = Idle

CreateShift(m, n) ==
  /\ SlotFree
  /\ InScope(m, n.team)
  /\ \E id \in FreeShiftIds :
       shifts' = Insert(shifts, id,
         [team |-> n.team, day |-> n.day, start |-> n.start, end |-> n.end,
          status |-> "open", worker |-> NULL, parent |-> NULL])
  /\ UNCHANGED <<requests, details, present, weekly, audit, frames>>

SetWorkerDetails(w, d) ==
  /\ SlotFree
  /\ w \in present
  /\ details' = [details EXCEPT ![w] = d]
  /\ UNCHANGED <<shifts, requests, present, weekly, audit, frames>>

\* deleteUser and the schema's foreign keys: requests and templates cascade,
\* workqueue.assigned_user_id becomes NULL and status stays.
DeleteUser(w) ==
  /\ SlotFree
  /\ w \in present
  /\ present' = present \ {w}
  /\ shifts' = [s \in DOMAIN shifts |->
                  IF shifts[s].worker = w THEN [shifts[s] EXCEPT !.worker = NULL]
                  ELSE shifts[s]]
  /\ requests' = [r \in DOMAIN requests |->
                    IF r \in Live /\ requests[r].worker = w THEN NULL
                    ELSE requests[r]]
  /\ weekly' = {t \in weekly : t.worker # w}
  /\ UNCHANGED <<details, audit, frames>>

\* The client disconnects: r.Context() is cancelled, the handler's next
\* statement fails and it returns.
Abort(i) ==
  /\ MayAbort
  /\ frames[i] # Idle
  /\ Done(i)
  /\ UNCHANGED <<shifts, requests, details, present, weekly, audit>>

-----------------------------------------------------------------------------
Init ==
  /\ shifts = InitShifts
  /\ requests = [r \in {} |-> NULL]
  /\ details = InitDetails
  /\ present = Workers
  /\ weekly = {}
  /\ audit = {}
  /\ frames = [i \in Slots |-> Idle]

\* The statements after the first of the handlers that have several.
Continue(i) ==
  \/ ReadSettings(i)
  \/ ReadHours(i)
  \/ FileOverflow(i)
  \/ TakeOpen(i)
  \/ LogAudit(i)
  \/ ApproveRelease(i)
  \/ ApproveRead(i)
  \/ ApproveDeny(i)
  \/ ApproveFinish(i)
  \/ InsertMiss(i)
  \/ NextBlock(i)
  \/ SplitRead(i)
  \/ SplitTail(i)
  \/ SplitHead(i)
  \/ SplitPut(i)
  \/ InsertTemplate(i)
  \/ GenerateShift(i)

\* A request arrives and the handler runs to its first commit or read.
Arrive(i) ==
  \/ \E w \in Workers, s \in DOMAIN shifts : Pick(i, w, s)
  \/ \E w \in Workers, s \in DOMAIN shifts : RequestMiss(i, w, s)
  \/ \E w \in Workers, s \in DOMAIN shifts : RequestOverflow(i, w, s)
  \/ \E r \in Live : Cancel(i, r)
  \/ \E m \in Managers, r \in Live : Approve(i, m, r)
  \/ \E m \in Managers, r \in Live : Deny(i, m, r)
  \/ \E m \in Managers, s \in DOMAIN shifts : Unassign(i, m, s)
  \/ \E m \in Managers, s \in DOMAIN shifts, w \in Workers : Assign(i, m, s, w)
  \/ \E m \in Managers, s \in DOMAIN shifts, w \in Workers, bs \in BlockLists :
       AssignList(i, m, s, w, bs)
  \/ \E t \in Templates : AddWeekly(i, t)

Next ==
  \/ \E i \in Slots : Continue(i)
  \/ \E i \in Slots : Arrive(i)
  \/ \E i \in Slots : Abort(i)
  \/ \E m \in Managers, n \in NewShifts : CreateShift(m, n)
  \/ \E w \in Workers, d \in NewDetails : SetWorkerDetails(w, d)
  \/ \E w \in Deletable : DeleteUser(w)

Spec == Init /\ [][Next]_vars
-----------------------------------------------------------------------------
(***************************************************************************)
(* Properties.  Those marked "serial" hold when Slots has one element and  *)
(* nothing aborts; README.md says which of them the interleavings break.   *)
(***************************************************************************)

\* No handler is in flight.
Quiet == \A i \in Slots : frames[i] = Idle

\* A handler whose remaining statements concern request r.
InFlight(r) == \E i \in Slots : frames[i].req = r

\* One date of each week.
Mondays == {7 * Week(day) : day \in Days}

\* Serial: no step takes a worker over the hard weekly cap, whatever mix of
\* picks, assignments, splits, approvals, weekly templates, releases and
\* changes of the worker's classification led there (worker.go:17).
HoursRiseWithinCap ==
  [][\A w \in Workers, monday \in Mondays :
       WeekHours(w, monday)' > WeekHours(w, monday)
         => WeekHours(w, monday)' <= Cap(details'[w])]_vars

\* Serial: hours past the regular ones are only ever handed out by a manager's
\* approval of that worker's overflow request (worker.go:72-74).
OvertimeNeedsApproval ==
  [][\A w \in Workers, monday \in Mondays :
       /\ WeekHours(w, monday)' > WeekHours(w, monday)
       /\ WeekHours(w, monday)' > Regular(details[w])
       => \E i \in Slots : /\ frames[i].pc = "take"
                           /\ frames[i].op = "approve"
                           /\ frames[i].worker = w]_vars

\* Serial: an approved, denied or cancelled request keeps that status; no later
\* approval, denial, retry or cancellation revives it.
TerminalIsFinal ==
  [][\A r \in Live \cap Live' :
       requests[r].status # "pending"
         => requests'[r].status = requests[r].status]_vars

\* Serial: when a request becomes approved the queue shows it: the worker of an
\* overflow holds the shift, the shift of a miss is open.
ApprovalTookEffect ==
  [][\A r \in Live \cap Live' :
       /\ requests[r].status # "approved"
       /\ requests'[r].status = "approved"
       => LET row == shifts[requests[r].shift]
          IN  IF requests[r].type = "overflow"
              THEN row.worker = requests[r].worker
              ELSE row.status = "open"]_vars

\* Without aborts: once no handler is busy with a request, the audit trail has
\* its creation and the decision its status shows (docs/FEATURE.md:20-22).
RequestsAudited ==
  \A r \in Live :
    ~InFlight(r) => /\ <<"request.created", r>> \in audit
                    /\ <<AuditOf[requests[r].status], r>> \in audit

\* Rows split from one shift stay together: every parent pointer leads in one
\* step to the row of the original shift, of the same team and date, which is
\* what the calendar groups by (schedule_workqueue.go:357-359).
GroupsAreFlat ==
  \A s \in DOMAIN shifts : shifts[s].parent # NULL =>
    LET root == shifts[s].parent
    IN  /\ root \in DOMAIN shifts
        /\ shifts[root].parent \in {NULL, root}
        /\ shifts[root].team = shifts[s].team
        /\ shifts[root].day = shifts[s].day

\* The hours a row covers.
Covers(row) == row.start .. row.end - 1

\* Serial: between handlers, the rows of a group are exactly the original
\* shift cut into pieces: every hour in one piece, none outside it
\* (schedule_workqueue.go:357-359, app_test.go:694-695).
SplitsTileTheShift ==
  Quiet => \A g \in DOMAIN InitShifts :
    InitShifts[g].parent = NULL =>
      LET pieces == {s \in DOMAIN shifts : s = g \/ shifts[s].parent = g}
      IN  /\ \A s \in pieces :
               /\ Covers(shifts[s]) # {}
               /\ Covers(shifts[s]) \subseteq Covers(InitShifts[g])
          /\ \A h \in Covers(InitShifts[g]) :
               Cardinality({s \in pieces : h \in Covers(shifts[s])}) = 1

\* Only a manager's assignment gives a shift that someone holds to someone
\* else: of the workers and approvals racing for a row, one wins and keeps it
\* (schedule_workqueue.go:675-685, schedule_requests.go:113-131).
HolderKeepsShift ==
  [][\A s \in DOMAIN shifts :
       /\ shifts[s].worker # NULL
       /\ shifts'[s].worker \notin {shifts[s].worker, NULL}
       => \E i \in Slots : frames[i].pc = "put" /\ frames[i].row = s]_vars

\* An open row has no worker, so that it counts towards nobody's hours.
OpenHasNoWorker ==
  \A s \in DOMAIN shifts : shifts[s].status = "open" => shifts[s].worker = NULL

\* Approving a worker's miss returns that worker's shift to the queue, not one
\* that has meanwhile been given to somebody else (migrations/001_schema.sql:199,
\* schedule_requests.go:79-84).
MissReturnsOwnShift ==
  [][\A i \in Slots :
       frames[i].pc = "release" /\ frames'[i].pc = "finish"
         => shifts[frames[i].shift].worker \in {NULL, frames[i].worker}]_vars
=============================================================================
