-------------------------- MODULE WorkqueueProofs ---------------------------
(***************************************************************************)
(* Theorems about Workqueue for any number of handlers in flight, workers, *)
(* shifts and requests, aborts and deletions included.                     *)
(***************************************************************************)
EXTENDS Workqueue, TLAPS

-----------------------------------------------------------------------------
(***************************************************************************)
(* The inductive invariant.  TableOK is what the rows of workqueue satisfy *)
(* after every statement; FrameOK is what the local variables of a handler *)
(* hold at each statement, whatever the other handlers did meanwhile.  The *)
(* table is a parameter, so that both can be stated of the next state.     *)
(***************************************************************************)
GroupIn(tab, s) == IF tab[s].parent = NULL THEN s ELSE tab[s].parent

RootOK(tab, root, row) ==
  /\ root \in DOMAIN tab
  /\ tab[root].parent \in {NULL, root}
  /\ tab[root].team = row.team
  /\ tab[root].day = row.day

TableOK(tab) ==
  /\ DOMAIN tab \subseteq ShiftIds
  /\ tab \in [DOMAIN tab -> Row]
  /\ \A s \in DOMAIN tab :
       /\ tab[s].status = "open" => tab[s].worker = NULL
       /\ tab[s].parent # NULL => RootOK(tab, tab[s].parent, tab[s])

\* What no statement changes: rows stay, and stay in their group.
Grows(tab, new) ==
  /\ DOMAIN tab \subseteq DOMAIN new
  /\ \A s \in DOMAIN tab : GroupIn(new, s) = GroupIn(tab, s)

AsksHours == {"pick", "approve", "assign", "blocks", "weekly"}
Splits    == {"assign", "blocks"}

\* Which handler can be at which statement.
OpAtPc(op, pc) ==
  /\ pc = "idle" => op = "none"
  /\ pc \in {"settings", "hours"} => op \in AsksHours
  /\ pc = "overflow" => op \in {"pick", "assign", "blocks"}
  /\ pc = "take" => op \in {"pick", "approve"}
  /\ pc \in {"release", "read", "deny", "finish"} => op = "approve"
  /\ pc = "next" => op = "blocks"
  /\ pc \in {"split", "tail", "head", "put"} => op \in Splits
  /\ pc \in {"template", "generate"} => op = "weekly"
  /\ pc = "request" => op = "miss"

FrameOK(f, tab) ==
  /\ OpAtPc(f.op, f.pc)
  /\ f.pc = "audit" => f.note \in AuditRow
  /\ f.pc \notin {"idle", "audit"} =>
       /\ f.worker \in Workers
       /\ f.op # "weekly" => f.shift \in DOMAIN tab
       /\ f.op = "weekly" => f.team \in Teams /\ f.blocks # <<>>
       /\ f.op = "approve" => f.req \in RequestIds
       /\ f.op = "assign" => f.row \in DOMAIN tab /\ f.blocks # <<>>
  /\ f.pc \in {"settings", "hours"} /\ f.op = "blocks" => f.blocks # <<>>
  /\ f.pc \in {"settings", "hours", "template", "generate"} => f.day \in Days
  /\ f.pc \in {"split", "tail", "head", "put"} =>
       f.row \in DOMAIN tab /\ f.blocks # <<>>
  /\ f.pc \in {"tail", "head", "put"} =>
       /\ f.seen \in [start : Int, end : Int, group : ShiftIds]
       /\ f.seen.group = GroupIn(tab, f.row)

OthersOK ==
  /\ DOMAIN requests \subseteq RequestIds
  /\ requests \in [DOMAIN requests -> Request \cup {NULL}]
  /\ \A r \in Live : /\ requests[r].shift \in DOMAIN shifts
                     /\ requests[r].worker \in present
  /\ details \in [Workers -> AllDetails]
  /\ present \subseteq Workers
  /\ weekly \subseteq Template
  /\ audit \subseteq AuditRow

FramesOK == /\ frames \in [Slots -> Frame]
            /\ \A i \in Slots : FrameOK(frames[i], shifts)

Inv == OthersOK /\ TableOK(shifts) /\ FramesOK

-----------------------------------------------------------------------------
(***************************************************************************)
(* Lemmas about the tables and the frames.                                 *)
(***************************************************************************)

\* UPDATE of one row that keeps its team, date and group.
LEMMA UpdateRow ==
  ASSUME NEW tab, TableOK(tab), NEW s \in DOMAIN tab, NEW row \in Row,
         row.team = tab[s].team, row.day = tab[s].day,
         row.parent \in {tab[s].parent, GroupIn(tab, s)},
         row.status = "open" => row.worker = NULL
  PROVE  /\ TableOK([tab EXCEPT ![s] = row])
         /\ Grows(tab, [tab EXCEPT ![s] = row])
<1> DEFINE new == [tab EXCEPT ![s] = row]
<1>1. /\ DOMAIN new = DOMAIN tab
      /\ new[s] = row
      /\ \A x \in DOMAIN tab \ {s} : new[x] = tab[x]
  OBVIOUS
<1>2. new \in [DOMAIN new -> Row]
  BY <1>1 DEF TableOK
<1>3. Grows(tab, new)
  BY <1>1, NullIsNothing DEF Grows, GroupIn, TableOK, Row
<1>4. \A x \in DOMAIN tab : new[x].team = tab[x].team /\ new[x].day = tab[x].day
  BY <1>1
<1>5. ASSUME NEW x \in DOMAIN tab, tab[x].parent # NULL
      PROVE  RootOK(new, tab[x].parent, tab[x])
  <2>1. RootOK(tab, tab[x].parent, tab[x])
    BY <1>5 DEF TableOK
  <2> QED  BY <2>1, <1>1, <1>4 DEF RootOK, GroupIn
<1>6. ASSUME NEW x \in DOMAIN new, new[x].parent # NULL
      PROVE  RootOK(new, new[x].parent, new[x])
  <2>1. CASE tab[x].parent # NULL
    BY <2>1, <1>1, <1>4, <1>5 DEF RootOK, GroupIn
  <2>2. CASE tab[x].parent = NULL
    BY <2>2, <1>1, <1>4, <1>6 DEF RootOK, GroupIn
  <2> QED  BY <2>1, <2>2
<1> QED  BY <1>1, <1>2, <1>3, <1>6 DEF TableOK

\* INSERT of a row that starts a group or joins the group of a row.
LEMMA InsertRow ==
  ASSUME NEW tab, TableOK(tab), NEW id \in ShiftIds \ DOMAIN tab,
         NEW row \in Row, row.status = "open" => row.worker = NULL,
         \/ row.parent = NULL
         \/ \E r \in DOMAIN tab : /\ row.parent = GroupIn(tab, r)
                                  /\ row.team = tab[r].team
                                  /\ row.day = tab[r].day
  PROVE  /\ TableOK(Insert(tab, id, row))
         /\ Grows(tab, Insert(tab, id, row))
<1> DEFINE new == Insert(tab, id, row)
<1>1. /\ DOMAIN new = DOMAIN tab \cup {id}
      /\ new[id] = row
      /\ \A x \in DOMAIN tab : new[x] = tab[x]
  BY DEF Insert
<1>2. new \in [DOMAIN new -> Row]
  BY DEF TableOK, Insert
<1>3. Grows(tab, new)
  BY <1>1 DEF Grows, GroupIn
<1>4. ASSUME NEW x \in DOMAIN tab
      PROVE  /\ GroupIn(tab, x) # NULL => RootOK(new, GroupIn(tab, x), tab[x])
             /\ new[x].parent # NULL => RootOK(new, new[x].parent, new[x])
  <2>1. tab[x].parent # NULL => RootOK(tab, tab[x].parent, tab[x])
    BY DEF TableOK
  <2> QED  BY <2>1, <1>1 DEF RootOK, GroupIn
<1>5. row.parent # NULL => RootOK(new, row.parent, row)
  BY <1>1, <1>4 DEF RootOK
<1> QED  BY <1>1, <1>2, <1>3, <1>4, <1>5 DEF TableOK

LEMMA SameTable == ASSUME NEW tab PROVE Grows(tab, tab)
BY DEF Grows

\* What a handler relies on survives the statements of the others.
LEMMA FrameKept ==
  ASSUME NEW tab, NEW new, Grows(tab, new), NEW f \in Frame, FrameOK(f, tab)
  PROVE  FrameOK(f, new)
BY DEF FrameOK, Grows

\* One handler moves, the table grows.
LEMMA FrameStep ==
  ASSUME NEW fs \in [Slots -> Frame], NEW tab, NEW new, Grows(tab, new),
         \A j \in Slots : FrameOK(fs[j], tab),
         NEW i \in Slots, NEW g \in Frame, FrameOK(g, new)
  PROVE  /\ [fs EXCEPT ![i] = g] \in [Slots -> Frame]
         /\ \A j \in Slots : FrameOK([fs EXCEPT ![i] = g][j], new)
<1>1. \A j \in Slots : FrameOK(fs[j], new)
  BY FrameKept
<1> QED  BY <1>1

\* A handler that has returned relies on nothing.
LEMMA IdleFrame == Idle \in Frame /\ \A tab : FrameOK(Idle, tab)
BY DEF Idle, Frame, FrameOK, OpAtPc, Pcs, Ops

\* A local variable is given a value of its type.
LEMMA SetField ==
  ASSUME NEW f \in Frame
  PROVE  /\ \A x \in Pcs : [f EXCEPT !.pc = x] \in Frame
         /\ \A x \in Ops : [f EXCEPT !.op = x] \in Frame
         /\ \A x \in Workers \cup {NULL} : [f EXCEPT !.worker = x] \in Frame
         /\ \A x \in ShiftIds \cup {NULL} : [f EXCEPT !.shift = x] \in Frame
         /\ \A x \in RequestIds \cup {NULL} : [f EXCEPT !.req = x] \in Frame
         /\ \A x \in Teams \cup {NULL} : [f EXCEPT !.team = x] \in Frame
         /\ \A x \in Days \cup {NULL} : [f EXCEPT !.day = x] \in Frame
         /\ \A x \in AllDetails \cup {NULL} :
              [f EXCEPT !.details = x] \in Frame
         /\ \A x \in Seq(Block) : [f EXCEPT !.blocks = x] \in Frame
         /\ \A x \in ShiftIds \cup {NULL} : [f EXCEPT !.row = x] \in Frame
         /\ \A x \in [start : Int, end : Int, group : ShiftIds] \cup {NULL} :
              [f EXCEPT !.seen = x] \in Frame
         /\ \A x \in AuditRow \cup {NULL} : [f EXCEPT !.note = x] \in Frame
BY SMTT(30) DEF Frame

\* A handler with only its logAudit left.
LEMMA AuditFrame ==
  ASSUME NEW op \in Ops \ {"none"}, NEW w \in Workers \cup {NULL},
         NEW r \in RequestIds \cup {NULL}, NEW n \in AuditRow
  PROVE  LET g == [Idle EXCEPT !.pc = "audit", !.op = op, !.worker = w,
                               !.req = r, !.note = n]
         IN  g \in Frame /\ \A tab : FrameOK(g, tab)
<1>1. [Idle EXCEPT !.pc = "audit"] \in Frame
  BY IdleFrame, SetField DEF Pcs
<1>2. [Idle EXCEPT !.pc = "audit", !.op = op] \in Frame
  BY <1>1, SetField
<1>3. [Idle EXCEPT !.pc = "audit", !.op = op, !.worker = w] \in Frame
  BY <1>2, SetField
<1>4. [Idle EXCEPT !.pc = "audit", !.op = op, !.worker = w, !.req = r] \in Frame
  BY <1>3, SetField
<1> DEFINE g == [Idle EXCEPT !.pc = "audit", !.op = op, !.worker = w,
                             !.req = r, !.note = n]
<1>5. g \in Frame
  BY <1>4, SetField
<1>6. g.pc = "audit" /\ g.note = n
  BY DEF Idle
<1>7. \A tab : FrameOK(g, tab)
  BY <1>6 DEF FrameOK, OpAtPc
<1> QED  BY <1>5, <1>7

\* Handler i moves on and the tables stay well formed.
LEMMA MoveTo ==
  ASSUME Inv, OthersOK', TableOK(shifts'), Grows(shifts, shifts'),
         NEW i \in Slots, NEW g \in Frame, FrameOK(g, shifts'),
         frames' = [frames EXCEPT ![i] = g]
  PROVE  Inv'
<1>1. FramesOK'
  BY FrameStep DEF Inv, FramesOK
<1> QED  BY <1>1 DEF Inv

\* A step that leaves the tables alone.
LEMMA OnlyFrame ==
  ASSUME Inv, UNCHANGED <<shifts, requests, details, present, weekly, audit>>,
         NEW i \in Slots, NEW g \in Frame, FrameOK(g, shifts),
         frames' = [frames EXCEPT ![i] = g]
  PROVE  Inv'
<1>1. OthersOK' /\ TableOK(shifts')
  BY DEF Inv, OthersOK, Live
<1>2. Grows(shifts, shifts') /\ FrameOK(g, shifts')
  BY SameTable
<1> QED  BY <1>1, <1>2, MoveTo

\* A step that moves a handler and changes only the shifts.
LEMMA MoveShifts ==
  ASSUME Inv, UNCHANGED <<requests, details, present, weekly, audit>>,
         TableOK(shifts'), Grows(shifts, shifts'),
         NEW i \in Slots, NEW g \in Frame, FrameOK(g, shifts'),
         frames' = [frames EXCEPT ![i] = g]
  PROVE  Inv'
<1>1. OthersOK'
  BY DEF Inv, OthersOK, Live, Grows
<1> QED  BY <1>1, MoveTo

\* The actions of the audit trail.
LEMMA Notes ==
  /\ \A a \in ShiftEvents, s \in ShiftIds : <<a, s>> \in AuditRow
  /\ \A st \in DOMAIN AuditOf, r \in RequestIds : <<AuditOf[st], r>> \in AuditRow
  /\ DOMAIN AuditOf = {"approved", "denied", "cancelled", "pending"}
BY DEF AuditRow, RequestEvents, AuditOf

\* A row is released, or given to a worker.
LEMMA RowEdits ==
  ASSUME NEW row \in Row
  PROVE  /\ Released(row) \in Row
         /\ \A w \in Workers :
              [row EXCEPT !.status = "assigned", !.worker = w] \in Row
BY DEF Row, Released

LEMMA ReleaseRow ==
  ASSUME Inv, NEW s \in DOMAIN shifts,
         shifts' = [shifts EXCEPT ![s] = Released(@)]
  PROVE  TableOK(shifts') /\ Grows(shifts, shifts')
<1>1. shifts[s] \in Row /\ TableOK(shifts)
  BY DEF Inv, TableOK
<1>2. Released(shifts[s]) \in Row
  BY <1>1, RowEdits
<1>3. /\ Released(shifts[s]).team = shifts[s].team
      /\ Released(shifts[s]).day = shifts[s].day
      /\ Released(shifts[s]).parent = shifts[s].parent
      /\ Released(shifts[s]).worker = NULL
  BY <1>1 DEF Released, Row
<1> QED  BY <1>1, <1>2, <1>3, UpdateRow

\* INSERT INTO schedule_requests, and on to the logAudit.
LEMMA AddRequest ==
  ASSUME Inv, UNCHANGED <<shifts, details, present, weekly, audit>>,
         NEW id \in FreeRequestIds, NEW q \in Request,
         q.shift \in DOMAIN shifts, q.worker \in present,
         requests' = Insert(requests, id, q),
         NEW i \in Slots, NEW op \in Ops \ {"none"},
         NEW w \in Workers \cup {NULL},
         frames' = [frames EXCEPT ![i] =
                      [Idle EXCEPT !.pc = "audit", !.op = op, !.worker = w,
                                   !.req = id,
                                   !.note = <<"request.created", id>>]]
  PROVE  Inv'
<1>1. OthersOK'
  <2>1. /\ DOMAIN requests' = DOMAIN requests \cup {id}
        /\ requests'[id] = q
        /\ \A r \in DOMAIN requests : requests'[r] = requests[r]
    BY DEF Insert, FreeRequestIds
  <2>2. requests' \in [DOMAIN requests' -> Request \cup {NULL}]
    BY DEF Insert, Inv, OthersOK
  <2> QED  BY <2>1, <2>2 DEF Inv, OthersOK, FreeRequestIds, Live
<1>2. <<"request.created", id>> \in AuditRow /\ id \in RequestIds
  BY Notes DEF AuditOf, FreeRequestIds
<1>3. TableOK(shifts') /\ Grows(shifts, shifts')
  BY SameTable DEF Inv
<1> QED  BY <1>1, <1>2, <1>3, AuditFrame, MoveTo

\* UPDATE schedule_requests SET status, and on to the logAudit.
LEMMA Decide ==
  ASSUME Inv, UNCHANGED <<shifts, details, present, weekly, audit>>,
         NEW r \in RequestIds, NEW st \in {"approved", "denied", "cancelled"},
         \/ requests' = requests
         \/ r \in Live /\ requests' = [requests EXCEPT ![r].status = st],
         NEW i \in Slots, NEW op \in Ops \ {"none"},
         NEW w \in Workers \cup {NULL},
         frames' = [frames EXCEPT ![i] =
                      [Idle EXCEPT !.pc = "audit", !.op = op, !.worker = w,
                                   !.req = r, !.note = <<AuditOf[st], r>>]]
  PROVE  Inv'
<1>1. OthersOK'
  <2>1. CASE requests' = requests
    BY <2>1 DEF Inv, OthersOK, Live
  <2>2. CASE r \in Live /\ requests' = [requests EXCEPT ![r].status = st]
    <3>1. requests[r] \in Request /\ r \in DOMAIN requests
      BY <2>2 DEF Live, Inv, OthersOK
    <3>2. [requests[r] EXCEPT !.status = st] \in Request
      BY <3>1 DEF Request
    <3>3. /\ [requests[r] EXCEPT !.status = st].shift = requests[r].shift
          /\ [requests[r] EXCEPT !.status = st].worker = requests[r].worker
      BY <3>1 DEF Request
    <3> QED  BY <2>2, <3>1, <3>2, <3>3 DEF Inv, OthersOK, Live
  <2> QED  BY <2>1, <2>2
<1>2. <<AuditOf[st], r>> \in AuditRow
  BY Notes
<1>3. TableOK(shifts') /\ Grows(shifts, shifts')
  BY SameTable DEF Inv
<1> QED  BY <1>1, <1>2, <1>3, AuditFrame, MoveTo

-----------------------------------------------------------------------------
(***************************************************************************)
(* Init and every action establish the invariant again.                    *)
(***************************************************************************)
LEMMA InitInv == Init => Inv
<1> SUFFICES ASSUME Init PROVE Inv
  OBVIOUS
<1>1. OthersOK
  BY InputsOK DEF Init, OthersOK, Live
<1>2. TableOK(shifts)
  BY InputsOK DEF Init, TableOK, RootOK
<1>3. FramesOK
  BY IdleFrame DEF Init, FramesOK
<1> QED  BY <1>1, <1>2, <1>3 DEF Inv

LEMMA ReadSettingsInv ==
  ASSUME Inv, NEW i \in Slots, ReadSettings(i)
  PROVE  Inv'
<1> DEFINE f == frames[i]
           g == [f EXCEPT !.pc = "hours", !.details = details[f.worker]]
<1>1. CASE f.worker \in present
  <2>1. g \in Frame
    <3>1. f \in Frame /\ details[f.worker] \in AllDetails
      BY <1>1 DEF Inv, OthersOK, FramesOK
    <3>2. [f EXCEPT !.pc = "hours"] \in Frame
      BY <3>1, SetField DEF Pcs
    <3> QED  BY <3>1, <3>2, SetField
  <2>2. FrameOK(g, shifts)
    BY <1>1 DEF ReadSettings, Inv, FramesOK, Frame, FrameOK, OpAtPc, AsksHours
  <2> QED  BY <1>1, <2>1, <2>2, OnlyFrame DEF ReadSettings, Goto
<1>2. CASE f.worker \notin present
  BY <1>2, IdleFrame, OnlyFrame DEF ReadSettings, Goto, Done
<1> QED  BY <1>1, <1>2

LEMMA ReadHoursInv ==
  ASSUME Inv, NEW i \in Slots, ReadHours(i)
  PROVE  Inv'
<1> DEFINE f == frames[i]
           verdict == Allowance(f.details, WeekHours(f.worker, f.day),
                                Length(f.blocks))
           pc == AfterCheck[f.op][verdict]
           g == [f EXCEPT !.pc = pc, !.details = NULL]
<1>1. verdict \in Verdicts
  BY DEF Allowance, Verdicts
<1> HIDE DEF verdict
<1>2. f.op \in AsksHours /\ f \in Frame /\ FrameOK(f, shifts) /\ f.pc = "hours"
  BY DEF ReadHours, Inv, FramesOK, FrameOK, OpAtPc
<1>3. CASE pc = "idle"
  BY <1>3, IdleFrame, OnlyFrame DEF ReadHours, Resume, Goto, Done, verdict
<1>4. CASE pc # "idle"
  <2>1. /\ f.op = "pick" => pc \in {"take", "overflow"}
        /\ f.op = "approve" => pc \in {"take", "deny"}
        /\ f.op = "assign" => pc \in {"split", "overflow"}
        /\ f.op = "blocks" => pc \in {"next", "overflow"}
        /\ f.op = "weekly" => pc = "template"
    BY <1>1, <1>2, <1>4 DEF AfterCheck, AfterPickCheck, Verdicts, AsksHours
  <2> HIDE DEF pc
  <2>2. g \in Frame
    <3>1. pc \in Pcs
      BY <1>2, <2>1 DEF Pcs, AsksHours
    <3>2. [f EXCEPT !.pc = pc] \in Frame
      BY <1>2, <3>1, SetField
    <3> QED  BY <3>2, SetField
  <2>3. FrameOK(g, shifts)
    BY <1>2, <2>1 DEF FrameOK, Frame, OpAtPc, AsksHours, Splits
  <2> QED  BY <1>4, <2>2, <2>3, OnlyFrame DEF ReadHours, Resume, Goto, verdict, pc
<1> QED  BY <1>3, <1>4

LEMMA FileOverflowInv ==
  ASSUME Inv, NEW i \in Slots, FileOverflow(i)
  PROVE  Inv'
<1> DEFINE f == frames[i]
<1>1. /\ f \in Frame /\ f.op \in Ops \ {"none"}
      /\ f.worker \in Workers /\ f.shift \in DOMAIN shifts
  BY DEF FileOverflow, Inv, FramesOK, FrameOK, OpAtPc, Ops
<1>2. CASE f.worker \in present /\ FreeRequestIds # {}
  <2>1. PICK id \in FreeRequestIds :
          /\ requests' = Insert(requests, id,
                 [worker |-> f.worker, shift |-> f.shift,
                  type |-> "overflow", status |-> "pending"])
          /\ Goto(i, [Idle EXCEPT !.pc = "audit", !.op = f.op,
                                  !.worker = Actor(f), !.req = id,
                                  !.note = <<"request.created", id>>])
    BY <1>2 DEF FileOverflow
  <2> DEFINE q == [worker |-> f.worker, shift |-> f.shift,
                   type |-> "overflow", status |-> "pending"]
  <2>2. q \in Request /\ q.shift \in DOMAIN shifts /\ q.worker \in present
    BY <1>1, <1>2 DEF Request, Inv, TableOK
  <2>3. Actor(f) \in Workers \cup {NULL}
    BY <1>1 DEF Actor
  <2> QED  BY <1>1, <2>1, <2>2, <2>3, AddRequest DEF FileOverflow, Goto
<1>3. CASE ~(f.worker \in present /\ FreeRequestIds # {})
  BY <1>3, IdleFrame, OnlyFrame DEF FileOverflow, Goto, Done
<1> QED  BY <1>2, <1>3

LEMMA TakeOpenInv ==
  ASSUME Inv, NEW i \in Slots, TakeOpen(i)
  PROVE  Inv'
<1> DEFINE f == frames[i]
           s == f.shift
           row == [shifts[s] EXCEPT !.status = "assigned", !.worker = f.worker]
<1>1. /\ f \in Frame /\ FrameOK(f, shifts) /\ f.op \in {"pick", "approve"}
      /\ f.worker \in Workers /\ s \in DOMAIN shifts /\ s \in ShiftIds
      /\ f.pc = "take"
  BY DEF TakeOpen, Inv, TableOK, FramesOK, FrameOK, OpAtPc
<1>2. CASE StillOpen(s) /\ f.worker \in present
  <2>1. shifts[s] \in Row /\ TableOK(shifts)
    BY <1>1 DEF Inv, TableOK
  <2>2. shifts' = [shifts EXCEPT ![s] = row]
    BY <1>1, <1>2, <2>1 DEF TakeOpen, Row, TableOK
  <2>3. /\ row \in Row
        /\ row.team = shifts[s].team /\ row.day = shifts[s].day
        /\ row.parent = shifts[s].parent /\ row.status = "assigned"
    BY <1>1, <2>1 DEF Row
  <2>4. TableOK(shifts') /\ Grows(shifts, shifts')
    BY <1>1, <2>1, <2>2, <2>3, UpdateRow
  <2>5. CASE f.op = "pick"
    <3>1. <<"shift.picked", s>> \in AuditRow
      BY <1>1, Notes DEF ShiftEvents
    <3>2. /\ f.req \in RequestIds \cup {NULL} /\ f.op \in Ops \ {"none"}
          /\ Actor(f) \in Workers \cup {NULL}
      BY <1>1 DEF Frame, Ops, Actor
    <3>3. ToAudit(i, "shift.picked", s)
      BY <1>2, <2>5 DEF TakeOpen
    <3> DEFINE g == [Idle EXCEPT !.pc = "audit", !.op = f.op,
                                 !.worker = Actor(f), !.req = f.req,
                                 !.note = <<"shift.picked", s>>]
    <3>4. g \in Frame /\ FrameOK(g, shifts')
      BY <3>1, <3>2, AuditFrame
    <3>5. frames' = [frames EXCEPT ![i] = g]
      BY <3>3 DEF ToAudit, Goto
    <3> QED  BY <2>4, <3>4, <3>5, MoveShifts DEF TakeOpen
  <2>6. CASE f.op # "pick"
    <3> DEFINE g == [f EXCEPT !.pc = "finish"]
    <3>1. g \in Frame
      BY <1>1, SetField DEF Pcs
    <3>2. FrameOK(g, shifts')
      <4>1. FrameOK(f, shifts')
        BY <1>1, <2>4, FrameKept
      <4> QED  BY <1>1, <2>6, <4>1 DEF FrameOK, OpAtPc, Frame
    <3>3. Goto(i, g)
      BY <1>2, <2>6 DEF TakeOpen
    <3> QED  BY <2>4, <3>1, <3>2, <3>3, MoveShifts DEF TakeOpen, Goto
  <2> QED  BY <2>5, <2>6
<1>3. CASE StillOpen(s) /\ f.worker \notin present
  BY <1>3, IdleFrame, OnlyFrame DEF TakeOpen, Goto, Done
<1>4. CASE ~StillOpen(s)
  <2> DEFINE g == [f EXCEPT !.pc = "deny", !.details = NULL]
  <2>1. shifts' = shifts /\ Resume(i, AfterTaken[f.op])
    BY <1>4 DEF TakeOpen
  <2>2. CASE f.op = "pick"
    BY <2>1, <2>2, IdleFrame, OnlyFrame
       DEF TakeOpen, AfterTaken, Resume, Goto, Done
  <2>3. CASE f.op = "approve"
    <3>1. frames' = [frames EXCEPT ![i] = g]
      BY <2>1, <2>3 DEF AfterTaken, Resume, Goto
    <3>2. g \in Frame
      BY <1>1, SetField DEF Pcs
    <3>3. FrameOK(g, shifts)
      BY <1>1, <2>3 DEF FrameOK, OpAtPc, Frame
    <3> QED  BY <2>1, <3>1, <3>2, <3>3, OnlyFrame DEF TakeOpen
  <2> QED  BY <1>1, <2>2, <2>3
<1> QED  BY <1>2, <1>3, <1>4

LEMMA LogAuditInv ==
  ASSUME Inv, NEW i \in Slots, LogAudit(i)
  PROVE  Inv'
<1>1. OthersOK'
  <2>1. frames[i].note \in AuditRow
    BY DEF LogAudit, Inv, FramesOK, FrameOK
  <2> QED  BY <2>1 DEF LogAudit, Inv, OthersOK, Live
<1>2. TableOK(shifts') /\ Grows(shifts, shifts')
  BY SameTable DEF LogAudit, Inv
<1> QED  BY <1>1, <1>2, IdleFrame, MoveTo DEF LogAudit, Goto, Done

LEMMA PickInv ==
  ASSUME Inv, NEW i \in Slots, NEW w \in Workers, NEW s \in DOMAIN shifts,
         Pick(i, w, s)
  PROVE  Inv'
<1> DEFINE g == [Idle EXCEPT !.pc = "settings", !.op = "pick", !.worker = w,
                             !.shift = s, !.day = shifts[s].day,
                             !.blocks = Whole(s)]
<1>1. /\ s \in ShiftIds /\ shifts[s].day \in Days
      /\ Whole(s) \in Seq(Block)
  BY DEF Inv, TableOK, Row, Whole, Block
<1>2. g \in Frame
  BY <1>1 DEF Idle, Frame, Pcs, Ops
<1>3. FrameOK(g, shifts)
  BY <1>1 DEF Idle, FrameOK, OpAtPc, AsksHours
<1> QED  BY <1>2, <1>3, OnlyFrame DEF Pick, Start

LEMMA ApproveInv ==
  ASSUME Inv, NEW i \in Slots, NEW m, NEW r \in Live, Approve(i, m, r)
  PROVE  Inv'
<1> DEFINE q == requests[r]
           pc == IF q.type = "miss" THEN "release" ELSE "read"
           g == [Idle EXCEPT !.pc = pc, !.op = "approve", !.worker = q.worker,
                             !.shift = q.shift, !.req = r]
<1>1. /\ r \in RequestIds /\ q.worker \in Workers
      /\ q.shift \in DOMAIN shifts /\ q.shift \in ShiftIds
  BY DEF Live, Inv, OthersOK, TableOK, Request
<1>2. pc \in {"release", "read"}
  OBVIOUS
<1>3. Goto(i, g)
  BY DEF Approve, Start, Goto
<1> HIDE DEF pc, q
<1>4. g \in Frame
  <2>1. pc \in Pcs /\ "approve" \in Ops
    BY <1>2 DEF Pcs, Ops
  <2>2. [Idle EXCEPT !.pc = pc, !.op = "approve"] \in Frame
    BY <2>1, IdleFrame, SetField
  <2> QED  BY <1>1, <2>2, SetField
<1>5. FrameOK(g, shifts)
  BY <1>1, <1>2 DEF Idle, FrameOK, OpAtPc
<1> QED  BY <1>3, <1>4, <1>5, OnlyFrame DEF Approve, Goto

LEMMA ApproveReleaseInv ==
  ASSUME Inv, NEW i \in Slots, ApproveRelease(i)
  PROVE  Inv'
<1> DEFINE f == frames[i]
           g == [f EXCEPT !.pc = "finish"]
<1>1. /\ f \in Frame /\ FrameOK(f, shifts) /\ f.op = "approve"
      /\ f.shift \in DOMAIN shifts /\ f.pc = "release"
  BY DEF ApproveRelease, Inv, FramesOK, FrameOK, OpAtPc
<1>2. TableOK(shifts') /\ Grows(shifts, shifts')
  BY <1>1, ReleaseRow DEF ApproveRelease
<1>3. g \in Frame
  BY <1>1, SetField DEF Pcs
<1>4. FrameOK(f, shifts')
  BY <1>1, <1>2, FrameKept
<1>5. FrameOK(g, shifts')
  BY <1>1, <1>4 DEF FrameOK, OpAtPc, Frame
<1> QED  BY <1>2, <1>3, <1>5, MoveShifts DEF ApproveRelease, Goto

LEMMA ApproveReadInv ==
  ASSUME Inv, NEW i \in Slots, ApproveRead(i)
  PROVE  Inv'
<1> DEFINE f == frames[i]
           g == [f EXCEPT !.pc = "settings", !.blocks = Whole(f.shift),
                          !.day = shifts[f.shift].day]
<1>1. /\ f \in Frame /\ FrameOK(f, shifts) /\ f.op = "approve"
      /\ f.shift \in DOMAIN shifts /\ f.pc = "read"
  BY DEF ApproveRead, Inv, FramesOK, FrameOK, OpAtPc
<1>2. shifts[f.shift].day \in Days /\ Whole(f.shift) \in Seq(Block)
  BY <1>1 DEF Inv, TableOK, Row, Whole, Block
<1>3. g \in Frame
  BY <1>1, <1>2, SetField DEF Pcs
<1>4. FrameOK(g, shifts)
  BY <1>1, <1>2 DEF FrameOK, OpAtPc, Frame, AsksHours
<1> QED  BY <1>3, <1>4, OnlyFrame DEF ApproveRead, Goto

LEMMA ApproveEndInv ==
  ASSUME Inv, NEW i \in Slots, ApproveDeny(i) \/ ApproveFinish(i)
  PROVE  Inv'
<1> DEFINE f == frames[i]
<1>1. /\ f \in Frame /\ f.op = "approve" /\ f.req \in RequestIds
      /\ Actor(f) \in Workers \cup {NULL}
  BY DEF ApproveDeny, ApproveFinish, Inv, FramesOK, FrameOK, OpAtPc, Actor
<1>2. "approve" \in Ops \ {"none"}
  BY DEF Ops
<1>3. CASE ApproveDeny(i)
  <2>1. \/ requests' = requests
        \/ f.req \in Live /\ requests' = [requests EXCEPT ![f.req].status = "denied"]
    BY <1>3 DEF ApproveDeny, Overwrite
  <2>2. Goto(i, [Idle EXCEPT !.pc = "audit", !.op = "approve",
                             !.worker = Actor(f), !.req = f.req,
                             !.note = <<AuditOf["denied"], f.req>>])
    BY <1>1, <1>3 DEF ApproveDeny, ToAudit, AuditOf
  <2> QED  BY <1>1, <1>2, <1>3, <2>1, <2>2, Decide DEF ApproveDeny, Goto
<1>4. CASE ApproveFinish(i)
  <2>1. \/ requests' = requests
        \/ f.req \in Live /\ requests' = [requests EXCEPT ![f.req].status = "approved"]
    BY <1>4 DEF ApproveFinish, Overwrite
  <2>2. Goto(i, [Idle EXCEPT !.pc = "audit", !.op = "approve",
                             !.worker = Actor(f), !.req = f.req,
                             !.note = <<AuditOf["approved"], f.req>>])
    BY <1>1, <1>4 DEF ApproveFinish, ToAudit, AuditOf
  <2> QED  BY <1>1, <1>2, <1>4, <2>1, <2>2, Decide DEF ApproveFinish, Goto
<1> QED  BY <1>3, <1>4

LEMMA CloseInv ==
  ASSUME Inv, NEW i \in Slots, NEW r \in Live,
         \/ \E m \in Managers : Deny(i, m, r)
         \/ Cancel(i, r)
  PROVE  Inv'
<1>1. /\ r \in RequestIds /\ {"deny", "cancel"} \subseteq Ops \ {"none"}
      /\ requests[r].worker \in Workers
  BY DEF Live, Inv, OthersOK, Ops
<1>2. ASSUME NEW op \in {"deny", "cancel"}, NEW st \in {"denied", "cancelled"},
             NEW w \in Workers \cup {NULL}, Close(i, r, w, op, st)
      PROVE  Inv'
  BY <1>1, <1>2, Decide DEF Close, Start
<1> QED  BY <1>1, <1>2 DEF Deny, Cancel

LEMMA RequestMissInv ==
  ASSUME Inv, NEW i \in Slots, NEW w \in Workers, NEW s \in DOMAIN shifts,
         RequestMiss(i, w, s)
  PROVE  Inv'
<1> DEFINE g == [Idle EXCEPT !.pc = "request", !.op = "miss", !.worker = w,
                             !.shift = s]
<1>1. s \in ShiftIds
  BY DEF Inv, TableOK
<1>2. g \in Frame
  BY <1>1, IdleFrame, SetField DEF Pcs, Ops
<1>3. FrameOK(g, shifts)
  BY <1>1 DEF Idle, FrameOK, OpAtPc
<1> QED  BY <1>2, <1>3, OnlyFrame DEF RequestMiss, Start

LEMMA InsertMissInv ==
  ASSUME Inv, NEW i \in Slots, InsertMiss(i)
  PROVE  Inv'
<1> DEFINE f == frames[i]
           q == [worker |-> f.worker, shift |-> f.shift, type |-> "miss",
                 status |-> "pending"]
<1>1. /\ f.worker \in Workers /\ f.shift \in DOMAIN shifts
      /\ Actor(f) \in Workers \cup {NULL}
  BY DEF InsertMiss, Inv, FramesOK, FrameOK, OpAtPc, Actor
<1>2. CASE f.worker \in present /\ FreeRequestIds # {}
  <2>1. PICK id \in FreeRequestIds :
          /\ requests' = Insert(requests, id, q)
          /\ Goto(i, [Idle EXCEPT !.pc = "audit", !.op = "miss",
                                  !.worker = Actor(f), !.req = id,
                                  !.note = <<"request.created", id>>])
    BY <1>2 DEF InsertMiss
  <2>2. /\ q \in Request /\ q.shift \in DOMAIN shifts /\ q.worker \in present
        /\ "miss" \in Ops \ {"none"}
    BY <1>1, <1>2 DEF Request, Inv, TableOK, Ops
  <2> QED  BY <1>1, <2>1, <2>2, AddRequest DEF InsertMiss, Goto
<1>3. CASE ~(f.worker \in present /\ FreeRequestIds # {})
  BY <1>3, IdleFrame, OnlyFrame DEF InsertMiss, Goto, Done
<1> QED  BY <1>2, <1>3

LEMMA RequestOverflowInv ==
  ASSUME Inv, NEW i \in Slots, NEW w \in Workers, NEW s \in DOMAIN shifts,
         RequestOverflow(i, w, s)
  PROVE  Inv'
<1> DEFINE q == [worker |-> w, shift |-> s, type |-> "overflow",
                 status |-> "pending"]
<1>1. PICK id \in FreeRequestIds :
        /\ requests' = Insert(requests, id, q)
        /\ Start(i, [Idle EXCEPT !.pc = "audit", !.op = "overflow",
                                 !.worker = w, !.req = id,
                                 !.note = <<"request.created", id>>])
  BY DEF RequestOverflow
<1>2. /\ q \in Request /\ q.shift \in DOMAIN shifts /\ q.worker \in present
      /\ "overflow" \in Ops \ {"none"}
  BY DEF RequestOverflow, Request, Inv, TableOK, Ops
<1> QED  BY <1>1, <1>2, AddRequest DEF RequestOverflow, Start

LEMMA UnassignInv ==
  ASSUME Inv, NEW i \in Slots, NEW m, NEW s \in DOMAIN shifts, Unassign(i, m, s)
  PROVE  Inv'
<1>1. TableOK(shifts') /\ Grows(shifts, shifts')
  BY ReleaseRow DEF Unassign
<1>2. /\ <<"shift.unassigned", s>> \in AuditRow
      /\ "unassign" \in Ops \ {"none"}
  BY Notes DEF ShiftEvents, Inv, TableOK, Ops
<1> DEFINE g == [Idle EXCEPT !.pc = "audit", !.op = "unassign",
                             !.note = <<"shift.unassigned", s>>]
<1>3. g \in Frame
  BY <1>2, IdleFrame, SetField DEF Pcs
<1>4. FrameOK(g, shifts')
  BY <1>2 DEF Idle, FrameOK, OpAtPc
<1> QED  BY <1>1, <1>3, <1>4, MoveShifts DEF Unassign, Start

LEMMA AssignInv ==
  ASSUME Inv, NEW i \in Slots, NEW m, NEW s \in DOMAIN shifts,
         NEW w \in Workers, Assign(i, m, s, w)
  PROVE  Inv'
<1>1. /\ s \in ShiftIds /\ shifts[s].day \in Days /\ Head(Whole(s)) \in Block
  BY DEF Inv, TableOK, Row, Whole, Block
<1>2. PICK b \in AssignBlocks \cup {Head(Whole(s))} :
        Start(i, [Idle EXCEPT !.pc = "settings", !.op = "assign", !.worker = w,
                              !.shift = s, !.row = s, !.day = shifts[s].day,
                              !.blocks = <<b>>])
  BY DEF Assign
<1>3. b \in Block /\ <<b>> \in Seq(Block) /\ <<b>> # <<>>
  BY <1>1, InputsOK
<1> DEFINE g == [Idle EXCEPT !.pc = "settings", !.op = "assign", !.worker = w,
                             !.shift = s, !.row = s, !.day = shifts[s].day,
                             !.blocks = <<b>>]
<1>4. g \in Frame
  BY <1>1, <1>3 DEF Idle, Frame, Pcs, Ops
<1>5. FrameOK(g, shifts)
  BY <1>1, <1>3 DEF Idle, FrameOK, OpAtPc, AsksHours
<1> QED  BY <1>2, <1>4, <1>5, OnlyFrame DEF Assign, Start

LEMMA AssignListInv ==
  ASSUME Inv, NEW i \in Slots, NEW m, NEW s \in DOMAIN shifts,
         NEW w \in Workers, NEW bs \in BlockLists, AssignList(i, m, s, w, bs)
  PROVE  Inv'
<1> DEFINE g == [Idle EXCEPT !.pc = "settings", !.op = "blocks", !.worker = w,
                             !.shift = s, !.day = shifts[s].day, !.blocks = bs]
<1>1. /\ s \in ShiftIds /\ shifts[s].day \in Days
      /\ bs \in Seq(Block) /\ bs # <<>>
  BY InputsOK DEF Inv, TableOK, Row
<1>2. g \in Frame
  BY <1>1 DEF Idle, Frame, Pcs, Ops
<1>3. FrameOK(g, shifts)
  BY <1>1 DEF Idle, FrameOK, OpAtPc, AsksHours
<1> QED  BY <1>2, <1>3, OnlyFrame DEF AssignList, Start

LEMMA NextBlockInv ==
  ASSUME Inv, NEW i \in Slots, NextBlock(i)
  PROVE  Inv'
<1> DEFINE f == frames[i]
           rows == Covering(f.shift, Head(f.blocks))
<1>1. /\ f \in Frame /\ FrameOK(f, shifts) /\ f.op = "blocks" /\ f.pc = "next"
      /\ f.shift \in DOMAIN shifts /\ f.shift \in ShiftIds
      /\ f.op \in Ops \ {"none"}
  BY DEF NextBlock, Inv, TableOK, FramesOK, FrameOK, OpAtPc, Ops
<1>2. CASE f.blocks = <<>>
  <2> DEFINE g == [Idle EXCEPT !.pc = "audit", !.op = f.op,
                               !.worker = Actor(f), !.req = f.req,
                               !.note = <<"shift.assigned", f.shift>>]
  <2>1. f.req \in RequestIds \cup {NULL} /\ Actor(f) \in Workers \cup {NULL}
    BY <1>1 DEF Frame, Actor
  <2>2. <<"shift.assigned", f.shift>> \in AuditRow
    BY <1>1, Notes DEF ShiftEvents
  <2>3. g \in Frame /\ FrameOK(g, shifts)
    BY <1>1, <2>1, <2>2, AuditFrame
  <2>4. frames' = [frames EXCEPT ![i] = g]
    BY <1>2 DEF NextBlock, ToAudit, Goto
  <2> QED  BY <2>3, <2>4, OnlyFrame DEF NextBlock
<1>3. CASE f.blocks # <<>> /\ rows = {}
  BY <1>3, IdleFrame, OnlyFrame DEF NextBlock, Goto, Done
<1>4. CASE f.blocks # <<>> /\ rows # {}
  <2>1. PICK x \in rows : Goto(i, [f EXCEPT !.pc = "split", !.row = x])
    BY <1>4 DEF NextBlock
  <2>2. x \in DOMAIN shifts /\ x \in ShiftIds
    BY DEF Covering, Inv, TableOK
  <2> DEFINE g == [f EXCEPT !.pc = "split", !.row = x]
  <2>3. g \in Frame
    BY <1>1, <2>2, SetField DEF Pcs
  <2>4. FrameOK(g, shifts)
    BY <1>1, <1>4, <2>2 DEF FrameOK, OpAtPc, Splits, Frame
  <2> QED  BY <2>1, <2>3, <2>4, OnlyFrame DEF NextBlock, Goto
<1> QED  BY <1>2, <1>3, <1>4

\* What a handler inside assignBlockToRow holds.
LEMMA Splitting ==
  ASSUME Inv, NEW i \in Slots,
         frames[i].pc \in {"split", "tail", "head", "put"}
  PROVE  LET f == frames[i]
         IN  /\ f \in Frame /\ FrameOK(f, shifts) /\ f.op \in Splits
             /\ f.worker \in Workers /\ f.shift \in DOMAIN shifts
             /\ f.row \in DOMAIN shifts /\ f.row \in ShiftIds
             /\ shifts[f.row] \in Row
             /\ Head(f.blocks) \in Block /\ Tail(f.blocks) \in Seq(Block)
             /\ f.blocks \in Seq(Block) /\ f.blocks # <<>>
<1> DEFINE f == frames[i]
<1>1. f \in Frame /\ FrameOK(f, shifts)
  BY DEF Inv, FramesOK
<1>2. /\ f.op \in Splits /\ f.worker \in Workers /\ f.shift \in DOMAIN shifts
      /\ f.row \in DOMAIN shifts /\ f.blocks # <<>>
  BY <1>1 DEF FrameOK, OpAtPc, Splits
<1>3. f.row \in ShiftIds /\ shifts[f.row] \in Row
  BY <1>2 DEF Inv, TableOK
<1>4. f.blocks \in Seq(Block)
  BY <1>1 DEF Frame
<1>5. Head(f.blocks) \in Block /\ Tail(f.blocks) \in Seq(Block)
  BY <1>2, <1>4
<1> QED  BY <1>1, <1>2, <1>3, <1>4, <1>5

LEMMA SplitReadInv ==
  ASSUME Inv, NEW i \in Slots, SplitRead(i)
  PROVE  Inv'
<1> DEFINE f == frames[i]
           row == shifts[f.row]
           b == Head(f.blocks)
           pc == IF b[2] # row.end THEN "tail" ELSE HeadOrPut(b, row)
           seen == [start |-> row.start, end |-> row.end, group |-> Group(f.row)]
           g == [f EXCEPT !.pc = pc, !.seen = seen]
<1>1. f.pc = "split"
  BY DEF SplitRead
<1>2. pc \in {"tail", "head", "put"}
  BY DEF HeadOrPut
<1>3. /\ seen \in [start : Int, end : Int, group : ShiftIds]
      /\ seen.group = GroupIn(shifts, f.row)
  BY <1>1, Splitting DEF Row, Group, GroupIn
<1>4. Goto(i, g)
  BY DEF SplitRead
<1> HIDE DEF pc, seen
<1>5. g \in Frame
  BY <1>1, <1>2, <1>3, Splitting, SetField DEF Pcs
<1>6. g.pc = pc /\ g.seen = seen /\ g.op = f.op /\ g.worker = f.worker
      /\ g.shift = f.shift /\ g.row = f.row /\ g.blocks = f.blocks
  BY <1>1, Splitting DEF Frame
<1>7. FrameOK(g, shifts)
  BY <1>1, <1>2, <1>3, <1>6, Splitting DEF FrameOK, OpAtPc, Splits
<1> QED  BY <1>4, <1>5, <1>7, OnlyFrame DEF SplitRead, Goto

\* The part of the row before or after the block becomes an open row.
LEMMA RemainderInv ==
  ASSUME Inv, UNCHANGED <<requests, details, present, weekly, audit>>,
         NEW i \in Slots, frames[i].pc \in {"tail", "head"},
         NEW id \in FreeShiftIds, NEW from \in Int, NEW to \in Int,
         shifts' = Insert(shifts, id, Remainder(frames[i], from, to)),
         NEW pc \in {"head", "put"}, Goto(i, [frames[i] EXCEPT !.pc = pc])
  PROVE  Inv'
<1> DEFINE f == frames[i]
           row == Remainder(f, from, to)
           g == [f EXCEPT !.pc = pc]
<1>1. /\ f \in Frame /\ FrameOK(f, shifts) /\ f.op \in Splits
      /\ f.row \in DOMAIN shifts /\ shifts[f.row] \in Row
  BY Splitting
<1>2. /\ f.seen.group \in ShiftIds
      /\ f.seen.group = GroupIn(shifts, f.row)
  BY <1>1 DEF FrameOK
<1>3. /\ row \in Row
      /\ row.parent = GroupIn(shifts, f.row) /\ row.worker = NULL
      /\ row.team = shifts[f.row].team /\ row.day = shifts[f.row].day
  BY <1>1, <1>2 DEF Remainder, Row
<1> HIDE DEF row
<1>4. TableOK(shifts') /\ Grows(shifts, shifts')
  <2>1. TableOK(shifts) /\ id \in ShiftIds \ DOMAIN shifts
    BY DEF Inv, FreeShiftIds
  <2>2. shifts' = Insert(shifts, id, row)
    BY DEF row
  <2> QED  BY <1>1, <1>3, <2>1, <2>2, InsertRow
<1>5. g \in Frame
  BY <1>1, SetField DEF Pcs
<1>6. FrameOK(f, shifts')
  BY <1>1, <1>4, FrameKept
<1>7. FrameOK(g, shifts')
  BY <1>1, <1>6 DEF FrameOK, OpAtPc, Frame
<1> QED  BY <1>4, <1>5, <1>7, MoveShifts DEF Goto

LEMMA SplitTailInv ==
  ASSUME Inv, NEW i \in Slots, SplitTail(i)
  PROVE  Inv'
<1> DEFINE f == frames[i]
           b == Head(f.blocks)
<1>1. f.pc = "tail"
  BY DEF SplitTail
<1>2. b[2] \in Int /\ shifts[f.row].end \in Int
  BY <1>1, Splitting DEF Block, Row
<1>3. CASE \E id \in FreeShiftIds :
             shifts' = Insert(shifts, id, Remainder(f, b[2], shifts[f.row].end))
             /\ Goto(i, [f EXCEPT !.pc = HeadOrPut(b, f.seen)])
  <2>1. HeadOrPut(b, f.seen) \in {"head", "put"}
    BY DEF HeadOrPut
  <2> QED  BY <1>1, <1>2, <1>3, <2>1, RemainderInv DEF SplitTail
<1>4. CASE FreeShiftIds = {} /\ shifts' = shifts /\ Done(i)
  BY <1>4, IdleFrame, OnlyFrame DEF SplitTail, Goto, Done
<1> QED  BY <1>3, <1>4 DEF SplitTail

LEMMA SplitHeadInv ==
  ASSUME Inv, NEW i \in Slots, SplitHead(i)
  PROVE  Inv'
<1> DEFINE f == frames[i]
           b == Head(f.blocks)
<1>1. f.pc = "head"
  BY DEF SplitHead
<1>2. b[1] \in Int /\ shifts[f.row].start \in Int
  BY <1>1, Splitting DEF Block, Row
<1>3. CASE \E id \in FreeShiftIds :
             shifts' = Insert(shifts, id, Remainder(f, shifts[f.row].start, b[1]))
             /\ Goto(i, [f EXCEPT !.pc = "put"])
  BY <1>1, <1>2, <1>3, RemainderInv DEF SplitHead
<1>4. CASE FreeShiftIds = {} /\ shifts' = shifts /\ Done(i)
  BY <1>4, IdleFrame, OnlyFrame DEF SplitHead, Goto, Done
<1> QED  BY <1>3, <1>4 DEF SplitHead

LEMMA SplitPutInv ==
  ASSUME Inv, NEW i \in Slots, SplitPut(i)
  PROVE  Inv'
<1> DEFINE f == frames[i]
           b == Head(f.blocks)
           row == [shifts[f.row] EXCEPT !.status = "assigned",
                     !.worker = f.worker, !.start = b[1], !.end = b[2],
                     !.parent = f.seen.group]
<1>1. f.pc = "put"
  BY DEF SplitPut
<1>2. /\ f \in Frame /\ FrameOK(f, shifts) /\ f.op \in Splits
      /\ f.worker \in Workers /\ f.shift \in DOMAIN shifts
      /\ f.shift \in ShiftIds /\ f.row \in DOMAIN shifts
      /\ shifts[f.row] \in Row /\ b \in Block /\ Tail(f.blocks) \in Seq(Block)
  BY <1>1, Splitting DEF Inv, TableOK
<1>3. CASE f.worker \in present
  <2>1. shifts' = [shifts EXCEPT ![f.row] = row]
    BY <1>3 DEF SplitPut
  <2>2. /\ f.seen.group \in ShiftIds
        /\ f.seen.group = GroupIn(shifts, f.row)
    BY <1>1, <1>2 DEF FrameOK
  <2>3. /\ row \in Row
        /\ row.parent = GroupIn(shifts, f.row) /\ row.status = "assigned"
        /\ row.team = shifts[f.row].team /\ row.day = shifts[f.row].day
    BY <1>2, <2>2 DEF Row, Block
  <2> HIDE DEF row
  <2>4. TableOK(shifts') /\ Grows(shifts, shifts')
    BY <1>2, <2>1, <2>3, UpdateRow DEF Inv
  <2>5. CASE f.op = "assign"
    <3> DEFINE g == [Idle EXCEPT !.pc = "audit", !.op = f.op,
                                 !.worker = Actor(f), !.req = f.req,
                                 !.note = <<"shift.assigned", f.shift>>]
    <3>1. <<"shift.assigned", f.shift>> \in AuditRow
      BY <1>2, Notes DEF ShiftEvents
    <3>2. /\ f.req \in RequestIds \cup {NULL} /\ f.op \in Ops \ {"none"}
          /\ Actor(f) \in Workers \cup {NULL}
      BY <1>2 DEF Frame, Ops, Splits, Actor
    <3>3. g \in Frame /\ FrameOK(g, shifts')
      BY <3>1, <3>2, AuditFrame
    <3>4. frames' = [frames EXCEPT ![i] = g]
      BY <1>3, <2>5 DEF SplitPut, ToAudit, Goto
    <3> QED  BY <2>4, <3>3, <3>4, MoveShifts DEF SplitPut
  <2>6. CASE f.op = "blocks"
    <3> DEFINE g == [f EXCEPT !.pc = "next", !.blocks = Tail(@), !.row = NULL,
                              !.seen = NULL]
    <3>1. g \in Frame
      BY <1>2, SetField DEF Pcs
    <3>2. /\ g.pc = "next" /\ g.op = "blocks" /\ g.worker = f.worker
          /\ g.shift = f.shift
      BY <1>2, <2>6 DEF Frame
    <3>3. f.shift \in DOMAIN shifts'
      BY <1>2, <2>4 DEF Grows
    <3>4. FrameOK(g, shifts')
      BY <1>2, <3>2, <3>3 DEF FrameOK, OpAtPc
    <3>5. frames' = [frames EXCEPT ![i] = g]
      BY <1>3, <2>6 DEF SplitPut, Goto
    <3> QED  BY <2>4, <3>1, <3>4, <3>5, MoveShifts DEF SplitPut
  <2> QED  BY <1>2, <2>5, <2>6 DEF Splits
<1>4. CASE f.worker \notin present
  BY <1>4, IdleFrame, OnlyFrame DEF SplitPut, Goto, Done
<1> QED  BY <1>3, <1>4

LEMMA AddWeeklyInv ==
  ASSUME Inv, NEW i \in Slots, NEW t \in Templates, AddWeekly(i, t)
  PROVE  Inv'
<1> DEFINE g == [Idle EXCEPT !.pc = "settings", !.op = "weekly",
                             !.worker = t.worker, !.team = t.team, !.day = t.day,
                             !.blocks = << <<t.start, t.end>> >>]
<1>1. /\ t.worker \in Workers /\ t.team \in Teams /\ t.day \in Days
      /\ <<t.start, t.end>> \in Block
  BY InputsOK DEF Block
<1>2. << <<t.start, t.end>> >> \in Seq(Block) /\ << <<t.start, t.end>> >> # <<>>
  BY <1>1
<1>3. g \in Frame
  BY <1>1, <1>2 DEF Idle, Frame, Pcs, Ops
<1>4. FrameOK(g, shifts)
  BY <1>1, <1>2 DEF Idle, FrameOK, OpAtPc, AsksHours
<1> QED  BY <1>3, <1>4, OnlyFrame DEF AddWeekly, Start

\* What addWeeklySchedule holds once the hours are checked.
LEMMA Generating ==
  ASSUME Inv, NEW i \in Slots, frames[i].pc \in {"template", "generate"}
  PROVE  LET f == frames[i]
         IN  /\ f \in Frame /\ FrameOK(f, shifts) /\ f.op = "weekly"
             /\ f.worker \in Workers /\ f.team \in Teams /\ f.day \in Days
             /\ Head(f.blocks)[1] \in Int /\ Head(f.blocks)[2] \in Int
<1> DEFINE f == frames[i]
<1>1. f \in Frame /\ FrameOK(f, shifts)
  BY DEF Inv, FramesOK
<1>2. /\ f.op = "weekly" /\ f.worker \in Workers /\ f.team \in Teams
      /\ f.day \in Days /\ f.blocks # <<>>
  BY <1>1 DEF FrameOK, OpAtPc
<1>3. f.blocks \in Seq(Block)
  BY <1>1 DEF Frame
<1>4. Head(f.blocks) \in Block
  BY <1>2, <1>3
<1> QED  BY <1>1, <1>2, <1>4 DEF Block

LEMMA InsertTemplateInv ==
  ASSUME Inv, NEW i \in Slots, InsertTemplate(i)
  PROVE  Inv'
<1> DEFINE f == frames[i]
           b == Head(f.blocks)
           t == [worker |-> f.worker, weekday |-> (f.day + 1) % 7,
                 start |-> b[1], end |-> b[2]]
           g == [f EXCEPT !.pc = "generate"]
<1>1. f.pc = "template"
  BY DEF InsertTemplate
<1>2. CASE f.worker \in present
  <2>1. t \in Template
    <3>1. f.day \in Int
      BY <1>1, Generating, InputsOK
    <3>2. (f.day + 1) % 7 \in 0..6
      <4>1. \A n \in Int : n % 7 \in 0..6
        OBVIOUS
      <4> QED  BY <3>1, <4>1
    <3> HIDE DEF b
    <3> QED  BY <1>1, <3>2, Generating DEF Template, b
  <2>2. weekly' = weekly \cup {t} /\ Goto(i, g)
    BY <1>2 DEF InsertTemplate
  <2>3. OthersOK'
    BY <2>1, <2>2 DEF InsertTemplate, Inv, OthersOK, Live
  <2>4. TableOK(shifts') /\ Grows(shifts, shifts')
    BY SameTable DEF InsertTemplate, Inv
  <2>5. g \in Frame
    BY <1>1, Generating, SetField DEF Pcs
  <2>6. FrameOK(g, shifts)
    BY <1>1, Generating DEF FrameOK, OpAtPc, Frame
  <2>7. FrameOK(g, shifts')
    BY <2>4, <2>5, <2>6, FrameKept
  <2> QED  BY <2>2, <2>3, <2>4, <2>5, <2>7, MoveTo DEF Goto
<1>3. CASE f.worker \notin present
  BY <1>3, IdleFrame, OnlyFrame DEF InsertTemplate, Goto, Done
<1> QED  BY <1>2, <1>3

LEMMA GenerateShiftInv ==
  ASSUME Inv, NEW i \in Slots, GenerateShift(i)
  PROVE  Inv'
<1> DEFINE f == frames[i]
           b == Head(f.blocks)
           row == [team |-> f.team, day |-> f.day, start |-> b[1],
                   end |-> b[2], status |-> "assigned", worker |-> f.worker,
                   parent |-> NULL]
<1>1. f.pc = "generate" /\ Done(i)
  BY DEF GenerateShift
<1>2. \/ shifts' = shifts
      \/ \E id \in FreeShiftIds : shifts' = Insert(shifts, id, row)
  BY DEF GenerateShift
<1>3. CASE shifts' = shifts
  BY <1>1, <1>3, IdleFrame, OnlyFrame DEF GenerateShift, Goto, Done
<1>4. ASSUME NEW id \in FreeShiftIds, shifts' = Insert(shifts, id, row)
      PROVE  Inv'
  <2>1. row \in Row /\ row.parent = NULL /\ row.status = "assigned"
    BY <1>1, Generating DEF Row
  <2> HIDE DEF row
  <2>2. id \in ShiftIds \ DOMAIN shifts
    BY DEF FreeShiftIds
  <2>3. TableOK(Insert(shifts, id, row)) /\ Grows(shifts, Insert(shifts, id, row))
    BY <2>1, <2>2, InsertRow DEF Inv
  <2>4. shifts' = Insert(shifts, id, row)
    BY <1>4 DEF row
  <2> QED  BY <1>1, <2>3, <2>4, IdleFrame, MoveShifts
           DEF GenerateShift, Goto, Done
<1> QED  BY <1>2, <1>3, <1>4

\* A step that moves no handler.
LEMMA Unmoved ==
  ASSUME Inv, OthersOK', TableOK(shifts'), Grows(shifts, shifts'),
         frames' = frames
  PROVE  Inv'
BY FrameKept DEF Inv, FramesOK

LEMMA CreateShiftInv ==
  ASSUME Inv, NEW m, NEW n \in NewShifts, CreateShift(m, n)
  PROVE  Inv'
<1> DEFINE row == [team |-> n.team, day |-> n.day, start |-> n.start,
                   end |-> n.end, status |-> "open", worker |-> NULL,
                   parent |-> NULL]
<1>1. PICK id \in FreeShiftIds : shifts' = Insert(shifts, id, row)
  BY DEF CreateShift
<1>2. row \in Row /\ row.parent = NULL /\ row.worker = NULL
  BY InputsOK DEF Row
<1> HIDE DEF row
<1>3. id \in ShiftIds \ DOMAIN shifts
  BY DEF FreeShiftIds
<1>4. TableOK(Insert(shifts, id, row)) /\ Grows(shifts, Insert(shifts, id, row))
  BY <1>2, <1>3, InsertRow DEF Inv
<1>5. TableOK(shifts') /\ Grows(shifts, shifts')
  BY <1>1, <1>4
<1>6. OthersOK'
  BY <1>5 DEF CreateShift, Inv, OthersOK, Live, Grows
<1> QED  BY <1>5, <1>6, Unmoved DEF CreateShift

LEMMA SetWorkerDetailsInv ==
  ASSUME Inv, NEW w \in Workers, NEW d \in NewDetails, SetWorkerDetails(w, d)
  PROVE  Inv'
<1>1. details' \in [Workers -> AllDetails]
  BY InputsOK DEF SetWorkerDetails, Inv, OthersOK
<1>2. OthersOK'
  BY <1>1 DEF SetWorkerDetails, Inv, OthersOK, Live
<1> QED  BY <1>2, SameTable, Unmoved DEF SetWorkerDetails, Inv

LEMMA DeleteUserInv ==
  ASSUME Inv, NEW w \in Workers, DeleteUser(w)
  PROVE  Inv'
<1>1. /\ DOMAIN shifts' = DOMAIN shifts
      /\ \A s \in DOMAIN shifts :
           shifts'[s] \in {shifts[s], [shifts[s] EXCEPT !.worker = NULL]}
  BY DEF DeleteUser
<1>2. ASSUME NEW s \in DOMAIN shifts
      PROVE  /\ shifts'[s] \in Row
             /\ shifts'[s].parent = shifts[s].parent
             /\ shifts'[s].team = shifts[s].team
             /\ shifts'[s].day = shifts[s].day
             /\ shifts'[s].status = "open" => shifts'[s].worker = NULL
  <2>1. shifts[s] \in Row /\ (shifts[s].status = "open" => shifts[s].worker = NULL)
    BY DEF Inv, TableOK
  <2>2. CASE shifts'[s] = shifts[s]
    BY <2>1, <2>2
  <2>3. CASE shifts'[s] = [shifts[s] EXCEPT !.worker = NULL]
    BY <2>1, <2>3 DEF Row
  <2> QED  BY <1>1, <2>2, <2>3
<1>3. shifts' \in [DOMAIN shifts' -> Row]
  <2>1. shifts' = [s \in DOMAIN shifts' |-> shifts'[s]]
    BY DEF DeleteUser
  <2> QED  BY <1>1, <1>2, <2>1
<1>4. TableOK(shifts')
  BY <1>1, <1>2, <1>3 DEF Inv, TableOK, RootOK
<1>5. Grows(shifts, shifts')
  BY <1>1, <1>2 DEF Grows, GroupIn
<1>6. OthersOK'
  <2>1. /\ DOMAIN requests' = DOMAIN requests
        /\ \A r \in DOMAIN requests : requests'[r] \in {NULL, requests[r]}
    BY DEF DeleteUser
  <2>2. requests' \in [DOMAIN requests' -> Request \cup {NULL}]
    BY <2>1 DEF DeleteUser, Inv, OthersOK
  <2> QED  BY <1>1, <2>1, <2>2 DEF DeleteUser, Inv, OthersOK, Live
<1> QED  BY <1>4, <1>5, <1>6, Unmoved DEF DeleteUser

LEMMA ContinueInv ==
  ASSUME Inv, NEW i \in Slots, Continue(i)
  PROVE  Inv'
<1>1. CASE ReadSettings(i)    BY <1>1, ReadSettingsInv
<1>2. CASE ReadHours(i)       BY <1>2, ReadHoursInv
<1>3. CASE FileOverflow(i)    BY <1>3, FileOverflowInv
<1>4. CASE TakeOpen(i)        BY <1>4, TakeOpenInv
<1>5. CASE LogAudit(i)        BY <1>5, LogAuditInv
<1>6. CASE ApproveRelease(i)  BY <1>6, ApproveReleaseInv
<1>7. CASE ApproveRead(i)     BY <1>7, ApproveReadInv
<1>8. CASE ApproveDeny(i)     BY <1>8, ApproveEndInv
<1>9. CASE ApproveFinish(i)   BY <1>9, ApproveEndInv
<1>10. CASE InsertMiss(i)     BY <1>10, InsertMissInv
<1>11. CASE NextBlock(i)      BY <1>11, NextBlockInv
<1>12. CASE SplitRead(i)      BY <1>12, SplitReadInv
<1>13. CASE SplitTail(i)      BY <1>13, SplitTailInv
<1>14. CASE SplitHead(i)      BY <1>14, SplitHeadInv
<1>15. CASE SplitPut(i)       BY <1>15, SplitPutInv
<1>16. CASE InsertTemplate(i) BY <1>16, InsertTemplateInv
<1>17. CASE GenerateShift(i)  BY <1>17, GenerateShiftInv
<1> QED
  BY <1>1, <1>2, <1>3, <1>4, <1>5, <1>6, <1>7, <1>8, <1>9, <1>10, <1>11,
     <1>12, <1>13, <1>14, <1>15, <1>16, <1>17 DEF Continue

LEMMA ArriveInv ==
  ASSUME Inv, NEW i \in Slots, Arrive(i)
  PROVE  Inv'
<1>1. CASE \E w \in Workers, s \in DOMAIN shifts : Pick(i, w, s)
  BY <1>1, PickInv
<1>2. CASE \E w \in Workers, s \in DOMAIN shifts : RequestMiss(i, w, s)
  BY <1>2, RequestMissInv
<1>3. CASE \E w \in Workers, s \in DOMAIN shifts : RequestOverflow(i, w, s)
  BY <1>3, RequestOverflowInv
<1>4. CASE \E r \in Live : Cancel(i, r)
  BY <1>4, CloseInv
<1>5. CASE \E m \in Managers, r \in Live : Approve(i, m, r)
  BY <1>5, ApproveInv
<1>6. CASE \E m \in Managers, r \in Live : Deny(i, m, r)
  BY <1>6, CloseInv
<1>7. CASE \E m \in Managers, s \in DOMAIN shifts : Unassign(i, m, s)
  BY <1>7, UnassignInv
<1>8. CASE \E m \in Managers, s \in DOMAIN shifts, w \in Workers :
             Assign(i, m, s, w)
  BY <1>8, AssignInv
<1>9. CASE \E m \in Managers, s \in DOMAIN shifts, w \in Workers,
              bs \in BlockLists : AssignList(i, m, s, w, bs)
  BY <1>9, AssignListInv
<1>10. CASE \E t \in Templates : AddWeekly(i, t)
  BY <1>10, AddWeeklyInv
<1> QED
  BY <1>1, <1>2, <1>3, <1>4, <1>5, <1>6, <1>7, <1>8, <1>9, <1>10 DEF Arrive

LEMMA StepInv == Inv /\ [Next]_vars => Inv'
<1> SUFFICES ASSUME Inv, [Next]_vars PROVE Inv'
  OBVIOUS
<1>1. CASE \E i \in Slots : Continue(i)
  BY <1>1, ContinueInv
<1>2. CASE \E i \in Slots : Arrive(i)
  BY <1>2, ArriveInv
<1>3. CASE \E i \in Slots : Abort(i)
  BY <1>3, IdleFrame, OnlyFrame DEF Abort, Goto, Done
<1>4. CASE \E m \in Managers, n \in NewShifts : CreateShift(m, n)
  BY <1>4, CreateShiftInv
<1>5. CASE \E w \in Workers, d \in NewDetails : SetWorkerDetails(w, d)
  BY <1>5, SetWorkerDetailsInv
<1>6. CASE \E w \in Deletable : DeleteUser(w)
  BY <1>6, DeleteUserInv, InputsOK
<1>7. CASE UNCHANGED vars
  BY <1>7 DEF vars, Inv, OthersOK, Live, FramesOK
<1> QED  BY <1>1, <1>2, <1>3, <1>4, <1>5, <1>6, <1>7 DEF Next

\* The inductive invariant holds in every state of every behaviour, with any
\* number of handlers in flight.
THEOREM InvHolds == Spec => []Inv
<1> QED  BY InitInv, StepInv, PTL DEF Spec

-----------------------------------------------------------------------------
(***************************************************************************)
(* What the invariant says of the work queue.                              *)
(***************************************************************************)

\* Whatever the handlers in flight do to each other, every table keeps the
\* shape of its schema and every handler's local variables their types.
THEOREM TypeCorrect == Spec => []TypeOK
<1>1. Inv => TypeOK
  BY DEF Inv, OthersOK, TableOK, FramesOK, TypeOK
<1> QED  BY <1>1, InvHolds, PTL

\* However many handlers split the rows of a shift at once, and however many
\* of them abort half way, the pieces stay one step from the original shift,
\* on its team and date (assignBlockToRow).
THEOREM SplitsStayGrouped == Spec => []GroupsAreFlat
<1>1. Inv => GroupsAreFlat
  BY DEF Inv, TableOK, RootOK, GroupsAreFlat
<1> QED  BY <1>1, InvHolds, PTL

\* No interleaving leaves a worker on an open row: pick, approval, release,
\* split and deletion all keep status and assigned_user_id together.
THEOREM OpenIsFree == Spec => []OpenHasNoWorker
<1>1. Inv => OpenHasNoWorker
  BY DEF Inv, TableOK, OpenHasNoWorker
<1> QED  BY <1>1, InvHolds, PTL

-----------------------------------------------------------------------------
(***************************************************************************)
(* Theorems about steps: who may displace the holder of a shift, and what  *)
(* the audit trail knows of a request.                                     *)
(***************************************************************************)
\* A handler in the middle of its work moves, or one that starts.
LEMMA OneMoves ==
  ASSUME NEW i \in Slots, Continue(i) \/ Arrive(i)
  PROVE  \E g : frames' = [frames EXCEPT ![i] = g]
<1>1. CASE Continue(i)
  BY <1>1 DEF Continue, ReadSettings, ReadHours, FileOverflow, TakeOpen,
     LogAudit, ApproveRelease, ApproveRead, ApproveDeny, ApproveFinish,
     InsertMiss, NextBlock, SplitRead, SplitTail, SplitHead, SplitPut,
     InsertTemplate, GenerateShift, Resume, ToAudit, Goto, Done
<1>2. CASE Arrive(i)
  BY <1>2 DEF Arrive, Pick, RequestMiss, RequestOverflow, Cancel, Approve, Deny,
     Close, Unassign, Assign, AssignList, AddWeekly, Start
<1> QED  BY <1>1, <1>2

-----------------------------------------------------------------------------
(***************************************************************************)
(* The holder of a shift.                                                  *)
(***************************************************************************)
Displaced(s) == /\ shifts[s].worker # NULL
                /\ shifts'[s].worker \notin {shifts[s].worker, NULL}

\* Neither INSERT nor a release displaces anybody.
LEMMA InsertKeepsHolder ==
  ASSUME NEW id \in FreeShiftIds, NEW row, shifts' = Insert(shifts, id, row),
         NEW s \in DOMAIN shifts
  PROVE  ~Displaced(s)
BY DEF Insert, FreeShiftIds, Displaced

LEMMA ReleaseKeepsHolder ==
  ASSUME Inv, NEW x \in DOMAIN shifts,
         shifts' = [shifts EXCEPT ![x] = Released(@)], NEW s \in DOMAIN shifts
  PROVE  ~Displaced(s)
<1>1. Released(shifts[x]).worker = NULL
  BY DEF Released, Inv, TableOK, Row
<1> QED  BY <1>1 DEF Displaced, Inv, TableOK

LEMMA TakeKeepsHolder ==
  ASSUME Inv, NEW i \in Slots, TakeOpen(i), NEW s \in DOMAIN shifts
  PROVE  ~Displaced(s)
<1> DEFINE x == frames[i].shift
<1>1. x \in DOMAIN shifts
  BY DEF TakeOpen, Inv, FramesOK, FrameOK, OpAtPc
<1>2. CASE StillOpen(x) /\ frames[i].worker \in present
  <2>1. shifts[x].worker = NULL
    BY <1>1, <1>2 DEF StillOpen, Inv, TableOK
  <2>2. \A y \in DOMAIN shifts \ {x} : shifts'[y] = shifts[y]
    BY <1>2 DEF TakeOpen
  <2> QED  BY <2>1, <2>2 DEF Displaced
<1>3. CASE ~(StillOpen(x) /\ frames[i].worker \in present)
  <2>1. shifts' = shifts
    BY <1>3 DEF TakeOpen
  <2> QED  BY <2>1 DEF Displaced
<1> QED  BY <1>2, <1>3

LEMMA ContinueKeepsHolder ==
  ASSUME Inv, NEW i \in Slots, Continue(i), NEW s \in DOMAIN shifts, Displaced(s)
  PROVE  frames[i].pc = "put" /\ frames[i].row = s
<1>1. CASE shifts' = shifts
  BY <1>1 DEF Displaced
<1>2. CASE TakeOpen(i)
  BY <1>2, TakeKeepsHolder
<1>3. CASE ApproveRelease(i)
  <2>1. frames[i].shift \in DOMAIN shifts
    BY <1>3 DEF ApproveRelease, Inv, FramesOK, FrameOK, OpAtPc
  <2> QED  BY <1>3, <2>1, ReleaseKeepsHolder DEF ApproveRelease
<1>4. CASE SplitTail(i) \/ SplitHead(i) \/ GenerateShift(i)
  BY <1>1, <1>4, InsertKeepsHolder DEF SplitTail, SplitHead, GenerateShift
<1>5. CASE SplitPut(i)
  <2>1. \A y \in DOMAIN shifts \ {frames[i].row} : shifts'[y] = shifts[y]
    <3>1. \/ shifts' = shifts
          \/ \E row : shifts' = [shifts EXCEPT ![frames[i].row] = row]
      BY <1>5, Zenon DEF SplitPut
    <3> QED  BY <3>1
  <2>2. frames[i].pc = "put"
    BY <1>5 DEF SplitPut
  <2> QED  BY <2>1, <2>2 DEF Displaced
<1> QED
  BY <1>1, <1>2, <1>3, <1>4, <1>5 DEF Continue, ReadSettings, ReadHours,
     FileOverflow, LogAudit, ApproveRead, ApproveDeny, ApproveFinish,
     InsertMiss, NextBlock, SplitRead, InsertTemplate

\* A worker who holds a shift loses it to another worker only when a manager's
\* assignment writes that row, whatever is in flight: pickShift and
\* approveRequest never take a held shift (their UPDATE ... status = 'open').
THEOREM HolderKept == Spec => HolderKeepsShift
<1>1. ASSUME Inv, Next, NEW s \in DOMAIN shifts, Displaced(s)
      PROVE  \E i \in Slots : frames[i].pc = "put" /\ frames[i].row = s
  <2>1. CASE \E i \in Slots : Continue(i)
    BY <1>1, <2>1, ContinueKeepsHolder
  <2>2. CASE \E i \in Slots : Arrive(i)
    <3>1. \/ shifts' = shifts
          \/ \E i \in Slots, m \in Managers, x \in DOMAIN shifts : Unassign(i, m, x)
      BY <2>2 DEF Arrive, Pick, RequestMiss, RequestOverflow, Cancel, Approve,
         Deny, Close, Assign, AssignList, AddWeekly
    <3> QED  BY <1>1, <3>1, ReleaseKeepsHolder DEF Unassign, Displaced
  <2>3. CASE \E i \in Slots : Abort(i)
    BY <1>1, <2>3 DEF Abort, Displaced
  <2>4. CASE \E m \in Managers, n \in NewShifts : CreateShift(m, n)
    BY <1>1, <2>4, InsertKeepsHolder DEF CreateShift
  <2>5. CASE \E w \in Workers, d \in NewDetails : SetWorkerDetails(w, d)
    BY <1>1, <2>5 DEF SetWorkerDetails, Displaced
  <2>6. CASE \E w \in Deletable : DeleteUser(w)
    BY <1>1, <2>6 DEF DeleteUser, Displaced, Inv, TableOK, Row
  <2> QED  BY <1>1, <2>1, <2>2, <2>3, <2>4, <2>5, <2>6 DEF Next
<1>2. Inv /\ [Next]_vars =>
        [\A s \in DOMAIN shifts :
           /\ shifts[s].worker # NULL
           /\ shifts'[s].worker \notin {shifts[s].worker, NULL}
           => \E i \in Slots : frames[i].pc = "put" /\ frames[i].row = s]_vars
  BY <1>1 DEF Displaced
<1> QED  BY <1>2, InvHolds, PTL DEF Spec, HolderKeepsShift

-----------------------------------------------------------------------------
(***************************************************************************)
(* The audit trail of a request.  Every INSERT and UPDATE that a request   *)
(* goes through leaves its handler with nothing but the logAudit to run,   *)
(* and only that statement takes it from there.  The insert of a deleted   *)
(* worker fails, but the request has then gone with its worker.            *)
(***************************************************************************)
Noted(a, r) ==
  \/ <<a, r>> \in audit
  \/ \E i \in Slots : /\ frames[i].pc = "audit"
                       /\ frames[i].req = r
                       /\ frames[i].worker \in {NULL, requests[r].worker}
                       /\ frames[i].note = <<a, r>>

AuditInv ==
  \A r \in Live :
    /\ Noted("request.created", r)
    /\ \A st \in DOMAIN AuditOf :
         requests[r].status = st => Noted(AuditOf[st], r)

\* A handler at its logAudit stays there until it has run.
LEMMA AuditWaits ==
  ASSUME Inv, ~MayAbort, Next, NEW i \in Slots, frames[i].pc = "audit"
  PROVE  frames'[i] = frames[i] \/ LogAudit(i)
<1>1. ASSUME NEW j \in Slots, Continue(j)
      PROVE  frames'[i] = frames[i] \/ LogAudit(i)
  <2>1. CASE j = i
    BY <1>1, <2>1 DEF Continue, ReadSettings, ReadHours, FileOverflow, TakeOpen,
       ApproveRelease, ApproveRead, ApproveDeny, ApproveFinish, InsertMiss,
       NextBlock, SplitRead, SplitTail, SplitHead, SplitPut, InsertTemplate,
       GenerateShift
  <2>2. CASE j # i
    BY <1>1, <2>2, OneMoves DEF Inv, FramesOK
  <2> QED  BY <2>1, <2>2
<1>2. ASSUME NEW j \in Slots, Arrive(j)
      PROVE  frames'[i] = frames[i]
  <2>1. frames[j] = Idle
    BY <1>2 DEF Arrive, Pick, RequestMiss, RequestOverflow, Cancel, Approve,
       Deny, Close, Unassign, Assign, AssignList, AddWeekly, Start
  <2>2. j # i
    BY <2>1 DEF Idle
  <2> QED  BY <1>2, <2>2, OneMoves DEF Inv, FramesOK
<1>3. \/ \E j \in Slots : Continue(j) \/ Arrive(j)
      \/ frames' = frames
  BY DEF Next, Abort, CreateShift, SetWorkerDetails, DeleteUser
<1> QED  BY <1>1, <1>2, <1>3

LEMMA AuditGrows ==
  ASSUME Next
  PROVE  audit' = audit \/ \E i \in Slots : LogAudit(i)
<1>1. ASSUME NEW i \in Slots, Continue(i)
      PROVE  audit' = audit \/ LogAudit(i)
  BY <1>1 DEF Continue, ReadSettings, ReadHours, FileOverflow, TakeOpen,
     ApproveRelease, ApproveRead, ApproveDeny, ApproveFinish, InsertMiss,
     NextBlock, SplitRead, SplitTail, SplitHead, SplitPut, InsertTemplate,
     GenerateShift
<1>2. ASSUME NEW i \in Slots, Arrive(i)
      PROVE  audit' = audit
  BY <1>2 DEF Arrive, Pick, RequestMiss, RequestOverflow, Cancel, Approve, Deny,
     Close, Unassign, Assign, AssignList, AddWeekly
<1> QED
  BY <1>1, <1>2 DEF Next, Abort, CreateShift, SetWorkerDetails, DeleteUser

\* A request stays with its worker.
LEMMA WorkerKept ==
  ASSUME Inv, Next, NEW r \in Live \cap Live'
  PROVE  requests'[r].worker = requests[r].worker
<1>1. CASE requests' = requests
  BY <1>1
<1>2. ASSUME NEW id \in FreeRequestIds, NEW q, requests' = Insert(requests, id, q)
      PROVE  requests'[r].worker = requests[r].worker
  BY <1>2 DEF Insert, FreeRequestIds, Live
<1>3. ASSUME NEW d \in Live, NEW st, requests' = [requests EXCEPT ![d].status = st]
      PROVE  requests'[r].worker = requests[r].worker
  BY <1>3 DEF Live, Inv, OthersOK, Request
<1>4. CASE \E i \in Slots : Continue(i)
  <2>1. \/ requests' = requests
        \/ \E id \in FreeRequestIds : \E q : requests' = Insert(requests, id, q)
        \/ \E d, st : requests' = Overwrite(d, st)
    BY <1>4, ZenonT(60) DEF Continue, ReadSettings, ReadHours, FileOverflow,
       TakeOpen, LogAudit, ApproveRelease, ApproveRead, ApproveDeny, ApproveFinish,
       InsertMiss, NextBlock, SplitRead, SplitTail, SplitHead, SplitPut,
       InsertTemplate, GenerateShift
  <2> QED  BY <1>1, <1>2, <1>3, <2>1 DEF Overwrite
<1>5. CASE \E i \in Slots : Arrive(i)
  <2>1. \/ requests' = requests
        \/ \E id \in FreeRequestIds : \E q : requests' = Insert(requests, id, q)
        \/ \E d \in Live : \E st : requests' = [requests EXCEPT ![d].status = st]
    BY <1>5, ZenonT(60) DEF Arrive, Pick, RequestMiss, RequestOverflow, Cancel,
       Approve, Deny, Close, Unassign, Assign, AssignList, AddWeekly
  <2> QED  BY <1>1, <1>2, <1>3, <2>1
<1>6. CASE \E w \in Deletable : DeleteUser(w)
  <2>1. requests'[r] \in {NULL, requests[r]}
    BY <1>6 DEF DeleteUser, Live
  <2> QED  BY <2>1 DEF Live
<1> QED  BY <1>1, <1>4, <1>5, <1>6 DEF Next, Abort, CreateShift, SetWorkerDetails

\* What is noted of a request stays noted.
LEMMA NotedKept ==
  ASSUME Inv, ~MayAbort, RequestEvents \subseteq Kept, Next,
         NEW a \in RequestEvents, NEW r \in Live \cap Live', Noted(a, r)
  PROVE  Noted(a, r)'
<1>1. audit \subseteq audit'
  BY AuditGrows DEF LogAudit
<1>2. CASE <<a, r>> \in audit
  BY <1>1, <1>2 DEF Noted
<1>3. ASSUME NEW i \in Slots, frames[i].pc = "audit", frames[i].req = r,
             frames[i].worker \in {NULL, requests[r].worker},
             frames[i].note = <<a, r>>
      PROVE  Noted(a, r)'
  <2>1. CASE frames'[i] = frames[i]
    BY <1>3, <2>1, WorkerKept DEF Noted
  <2>2. CASE LogAudit(i)
    <3>1. frames[i].worker \in present \cup {NULL}
      BY <1>3 DEF Inv, OthersOK
    <3> QED  BY <1>3, <2>2, <3>1 DEF LogAudit, Noted
  <2> QED  BY <1>3, <2>1, <2>2, AuditWaits
<1> QED  BY <1>2, <1>3 DEF Noted

\* A step keeps the status of a request, or notes the new one.
Settled(r) ==
  \/ r \in Live /\ requests'[r].status = requests[r].status
  \/ r \in Live /\ \E st \in DOMAIN AuditOf :
                     requests'[r].status = st /\ Noted(AuditOf[st], r)'
  \/ requests'[r].status = "pending" /\ Noted("request.created", r)'

LEMMA CreationSettles ==
  ASSUME Inv, NEW id \in FreeRequestIds, NEW q \in Request,
         q.status = "pending", requests' = Insert(requests, id, q),
         NEW i \in Slots, NEW op, NEW w \in {NULL, q.worker},
         Goto(i, [Idle EXCEPT !.pc = "audit", !.op = op, !.worker = w,
                              !.req = id, !.note = <<"request.created", id>>]),
         NEW r \in Live'
  PROVE  Settled(r)
<1>1. /\ DOMAIN requests' = DOMAIN requests \cup {id}
      /\ requests'[id] = q
      /\ \A x \in DOMAIN requests : requests'[x] = requests[x]
  BY DEF Insert, FreeRequestIds
<1>2. CASE r = id
  <2>1. Noted("request.created", r)'
    BY <1>1, <1>2 DEF Goto, Inv, FramesOK, Idle, Noted
  <2> QED  BY <1>1, <1>2, <2>1 DEF Settled
<1>3. CASE r # id
  BY <1>1, <1>3 DEF Live, Settled
<1> QED  BY <1>2, <1>3

LEMMA DecisionSettles ==
  ASSUME Inv, NEW d \in RequestIds, NEW st \in {"approved", "denied", "cancelled"},
         requests' = Overwrite(d, st),
         NEW i \in Slots, NEW op,
         NEW w, d \in Live => w \in {NULL, requests[d].worker},
         Goto(i, [Idle EXCEPT !.pc = "audit", !.op = op, !.worker = w,
                              !.req = d, !.note = <<AuditOf[st], d>>]),
         NEW r \in Live'
  PROVE  Settled(r)
<1>1. CASE requests' = requests
  BY <1>1 DEF Live, Settled
<1>2. CASE d \in Live /\ requests' = [requests EXCEPT ![d].status = st]
  <2>1. CASE r = d
    <3>1. r \in Live /\ requests[r] \in Request
      BY <1>2, <2>1 DEF Live, Inv, OthersOK
    <3>2. requests'[r].status = st /\ requests'[r].worker = requests[r].worker
      BY <1>2, <2>1, <3>1 DEF Live, Request, Inv, OthersOK
    <3>3. Noted(AuditOf[st], r)'
      BY <1>2, <2>1, <3>2 DEF Goto, Inv, FramesOK, Idle, Noted
    <3> QED  BY <3>1, <3>2, <3>3, Notes DEF Settled
  <2>2. CASE r # d
    BY <1>2, <2>2 DEF Live, Settled
  <2> QED  BY <2>1, <2>2
<1> QED  BY <1>1, <1>2 DEF Overwrite

LEMMA ContinueSettles ==
  ASSUME Inv, NEW i \in Slots, Continue(i), NEW r \in Live'
  PROVE  Settled(r)
<1> DEFINE f == frames[i]
<1>1. CASE requests' = requests
  BY <1>1 DEF Live, Settled
<1>2. CASE FileOverflow(i)
  <2>1. f.worker \in Workers /\ f.shift \in ShiftIds
    BY <1>2 DEF FileOverflow, Inv, TableOK, FramesOK, FrameOK, OpAtPc
  <2> DEFINE q == [worker |-> f.worker, shift |-> f.shift,
                   type |-> "overflow", status |-> "pending"]
  <2>2. q \in Request
    BY <2>1 DEF Request
  <2>3. Actor(f) \in {NULL, q.worker}
    BY DEF Actor
  <2> QED  BY <1>1, <1>2, <2>2, <2>3, CreationSettles DEF FileOverflow
<1>3. CASE InsertMiss(i)
  <2>1. f.worker \in Workers /\ f.shift \in ShiftIds
    BY <1>3 DEF InsertMiss, Inv, TableOK, FramesOK, FrameOK, OpAtPc
  <2> DEFINE q == [worker |-> f.worker, shift |-> f.shift,
                   type |-> "miss", status |-> "pending"]
  <2>2. q \in Request
    BY <2>1 DEF Request
  <2>3. Actor(f) \in {NULL, q.worker}
    BY DEF Actor
  <2> QED  BY <1>1, <1>3, <2>2, <2>3, CreationSettles DEF InsertMiss
<1>4. CASE ApproveDeny(i)
  <2>1. f.req \in RequestIds /\ Actor(f) = NULL
    BY <1>4 DEF ApproveDeny, Inv, FramesOK, FrameOK, OpAtPc, Actor
  <2>2. Goto(i, [Idle EXCEPT !.pc = "audit", !.op = f.op, !.worker = Actor(f),
                             !.req = f.req,
                             !.note = <<AuditOf["denied"], f.req>>])
    BY <1>4 DEF ApproveDeny, ToAudit, AuditOf
  <2>3. requests' = Overwrite(f.req, "denied")
    BY <1>4 DEF ApproveDeny
  <2> QED  BY <2>1, <2>2, <2>3, DecisionSettles
<1>5. CASE ApproveFinish(i)
  <2>1. f.req \in RequestIds /\ Actor(f) = NULL
    BY <1>5 DEF ApproveFinish, Inv, FramesOK, FrameOK, OpAtPc, Actor
  <2>2. Goto(i, [Idle EXCEPT !.pc = "audit", !.op = f.op, !.worker = Actor(f),
                             !.req = f.req,
                             !.note = <<AuditOf["approved"], f.req>>])
    BY <1>5 DEF ApproveFinish, ToAudit, AuditOf
  <2>3. requests' = Overwrite(f.req, "approved")
    BY <1>5 DEF ApproveFinish
  <2> QED  BY <2>1, <2>2, <2>3, DecisionSettles
<1> QED
  BY <1>1, <1>2, <1>3, <1>4, <1>5 DEF Continue, ReadSettings, ReadHours,
     TakeOpen, LogAudit, ApproveRelease, ApproveRead, NextBlock, SplitRead,
     SplitTail, SplitHead, SplitPut, InsertTemplate, GenerateShift

LEMMA ArriveSettles ==
  ASSUME Inv, NEW i \in Slots, Arrive(i), NEW r \in Live'
  PROVE  Settled(r)
<1>1. CASE requests' = requests
  BY <1>1 DEF Live, Settled
<1>2. ASSUME NEW w \in Workers, NEW s \in DOMAIN shifts, RequestOverflow(i, w, s)
      PROVE  Settled(r)
  <2> DEFINE q == [worker |-> w, shift |-> s, type |-> "overflow",
                   status |-> "pending"]
  <2>1. q \in Request
    BY DEF Request, Inv, TableOK
  <2>2. PICK id \in FreeRequestIds :
          /\ requests' = Insert(requests, id, q)
          /\ Goto(i, [Idle EXCEPT !.pc = "audit", !.op = "overflow",
                                  !.worker = w, !.req = id,
                                  !.note = <<"request.created", id>>])
    BY <1>2 DEF RequestOverflow, Start, Goto
  <2> QED  BY <2>1, <2>2, CreationSettles
<1>3. ASSUME NEW d \in Live, NEW op, NEW st \in {"denied", "cancelled"},
             NEW w \in {NULL, requests[d].worker}, Close(i, d, w, op, st)
      PROVE  Settled(r)
  <2>1. d \in RequestIds /\ requests' = Overwrite(d, st)
    BY <1>3 DEF Close, Overwrite, Live, Inv, OthersOK
  <2>2. Goto(i, [Idle EXCEPT !.pc = "audit", !.op = op, !.worker = w,
                             !.req = d, !.note = <<AuditOf[st], d>>])
    BY <1>3 DEF Close, Start, Goto
  <2> QED  BY <2>1, <2>2, DecisionSettles
<1> QED
  BY <1>1, <1>2, <1>3 DEF Arrive, Pick, RequestMiss, Cancel, Approve, Deny,
     Unassign, Assign, AssignList, AddWeekly

LEMMA StepSettles == ASSUME Inv, Next, NEW r \in Live' PROVE Settled(r)
<1>1. CASE requests' = requests
  BY <1>1 DEF Live, Settled
<1>2. CASE \E w \in Deletable : DeleteUser(w)
  <2>1. /\ DOMAIN requests' = DOMAIN requests
        /\ \A x \in DOMAIN requests : requests'[x] \in {NULL, requests[x]}
    BY <1>2 DEF DeleteUser
  <2> QED  BY <2>1 DEF Live, Settled
<1> QED
  BY <1>1, <1>2, ContinueSettles, ArriveSettles DEF Next, Abort, CreateShift,
     SetWorkerDetails

\* While no handler is cut short, the audit trail has the creation of every
\* request and the decision that its status shows, as soon as the handlers
\* that touched it have returned (logAudit in createOverflowRequest,
\* createRequest, approveRequest, denyRequest and cancelRequest), however many
\* of them approve, deny and cancel it at once.
THEOREM RequestsAreAudited ==
  ASSUME ~MayAbort, RequestEvents \subseteq Kept
  PROVE  Spec => []RequestsAudited
<1>1. /\ DOMAIN AuditOf = {"approved", "denied", "cancelled", "pending"}
      /\ AuditOf["pending"] = "request.created"
      /\ \A st \in DOMAIN AuditOf : AuditOf[st] \in RequestEvents
  BY DEF AuditOf, RequestEvents
<1>2. Init => AuditInv
  BY DEF Init, AuditInv, Live
<1>3. Inv /\ AuditInv /\ [Next]_vars => AuditInv'
  <2>1. CASE UNCHANGED vars
    BY <2>1, ZenonT(60) DEF AuditInv, vars, Live, Noted
  <2>2. ASSUME Inv, AuditInv, Next, NEW r \in Live'
        PROVE  Noted("request.created", r)'
    BY <1>1, <2>2, StepSettles, NotedKept DEF AuditInv, Settled
  <2>3. ASSUME Inv, AuditInv, Next, NEW r \in Live', NEW st \in DOMAIN AuditOf,
               requests'[r].status = st
        PROVE  Noted(AuditOf[st], r)'
    <3>1. CASE r \in Live /\ requests[r].status = st
      BY <1>1, <2>3, <3>1, NotedKept DEF AuditInv
    <3>2. CASE ~(r \in Live /\ requests[r].status = st)
      BY <1>1, <2>3, <3>2, StepSettles DEF Settled
    <3> QED  BY <3>1, <3>2
  <2> QED  BY <2>1, <2>2, <2>3 DEF AuditInv
<1>4. Inv /\ AuditInv => RequestsAudited
  <2> SUFFICES ASSUME Inv, AuditInv, NEW r \in Live, ~InFlight(r)
               PROVE  /\ <<"request.created", r>> \in audit
                      /\ <<AuditOf[requests[r].status], r>> \in audit
    BY DEF RequestsAudited
  <2>1. requests[r].status \in DOMAIN AuditOf
    BY <1>1 DEF Live, Inv, OthersOK, Request
  <2> QED  BY <2>1 DEF AuditInv, Noted, InFlight
<1> QED  BY <1>2, <1>3, <1>4, InvHolds, PTL DEF Spec
=============================================================================
