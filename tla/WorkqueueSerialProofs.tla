------------------------ MODULE WorkqueueSerialProofs ------------------------
(***************************************************************************)
(* Theorems about Workqueue when one handler runs at a time.  What it has  *)
(* read cannot change before it writes: decisions are final, approvals     *)
(* take effect, and the splits of a shift cover it hour by hour.           *)
(***************************************************************************)
EXTENDS WorkqueueProofs, FiniteSetTheorems

\* One slot: a handler returns before the next one starts.
Serial == \E h \in Slots : Slots = {h}

\* approveRequest holds a pending request, and has done to the shift what it
\* says by the time it writes the status.
Deciding(f) ==
  LET q == requests[f.req]
  IN  f.op = "approve" /\ f.pc # "audit" =>
        /\ f.req \in Live /\ q.status = "pending"
        /\ f.shift = q.shift /\ f.worker = q.worker
        /\ f.pc = "release" => q.type = "miss"
        /\ f.pc \in {"read", "settings", "hours", "take"} => q.type = "overflow"
        /\ f.pc = "finish" => IF q.type = "overflow"
                              THEN shifts[f.shift].worker = f.worker
                              ELSE shifts[f.shift].status = "open"

DecidingInv == \A i \in Slots : Deciding(frames[i])

\* Only the handler that moves can be deciding.
LEMMA DecidingBy ==
  ASSUME Serial, NEW i \in Slots,
         \/ frames'[i].op # "approve" \/ frames'[i].pc = "audit"
         \/ \E f : frames' = [frames EXCEPT ![i] = f] /\ Deciding(f)' /\ Inv
  PROVE  DecidingInv'
BY DEF Serial, Inv, FramesOK, DecidingInv, Deciding

\* A resumed handler keeps everything but its position.
LEMMA Resumed ==
  ASSUME Inv, NEW i \in Slots, NEW pc, Resume(i, pc)
  PROVE  \E f : /\ frames' = [frames EXCEPT ![i] = f]
                /\ \/ f = Idle /\ pc = "idle"
                   \/ /\ f.pc = pc /\ f.op = frames[i].op
                      /\ f.req = frames[i].req /\ f.shift = frames[i].shift
                      /\ f.worker = frames[i].worker
                      /\ f.blocks = frames[i].blocks /\ f.row = frames[i].row
                      /\ f.day = frames[i].day
<1> DEFINE f == [frames[i] EXCEPT !.pc = pc, !.details = NULL]
<1>1. CASE pc = "idle"
  BY <1>1 DEF Resume, Done, Goto
<1>2. CASE pc # "idle"
  <2>1. frames' = [frames EXCEPT ![i] = f]
    BY <1>2 DEF Resume, Goto
  <2>2. /\ f.pc = pc /\ f.op = frames[i].op
        /\ f.req = frames[i].req /\ f.shift = frames[i].shift
        /\ f.worker = frames[i].worker
        /\ f.blocks = frames[i].blocks /\ f.row = frames[i].row
        /\ f.day = frames[i].day
    BY DEF Inv, FramesOK, Frame
  <2> QED  BY <2>1, <2>2
<1> QED  BY <1>1, <1>2

\* A handler keeps its op until it returns.
LEMMA OpKept ==
  ASSUME Inv, NEW i \in Slots, Continue(i)
  PROVE  frames'[i].op \in {frames[i].op, "none"}
<1> DEFINE f == frames[i]
<1>1. f \in Frame /\ OpAtPc(f.op, f.pc) /\ Idle.op = "none"
  BY DEF Inv, FramesOK, FrameOK, Idle
<1>2. CASE Done(i)
  BY <1>1, <1>2 DEF Done, Goto, Inv, FramesOK
<1>3. CASE \E a, id : ToAudit(i, a, id)
  BY <1>3 DEF ToAudit, Goto, Inv, FramesOK, Idle
<1>4. CASE \E g : frames' = [frames EXCEPT ![i] = g] /\ g.op = f.op
  BY <1>4 DEF Inv, FramesOK
<1>5. \A pc : Resume(i, pc) => frames'[i].op \in {f.op, "none"}
  <2>1. SUFFICES ASSUME NEW pc, Resume(i, pc)
                 PROVE  frames'[i].op \in {f.op, "none"}
    OBVIOUS
  <2>2. PICK g : /\ frames' = [frames EXCEPT ![i] = g]
                 /\ g = Idle \/ g.op = f.op
    BY <2>1, Resumed
  <2> QED  BY <1>1, <2>2 DEF Inv, FramesOK
<1>6. CASE ReadSettings(i)
  <2>1. [f EXCEPT !.pc = "hours", !.details = details[f.worker]].op = f.op
    BY <1>1 DEF Frame
  <2> QED  BY <1>2, <1>4, <1>6, <2>1, Zenon DEF ReadSettings, Goto
<1>7. CASE ReadHours(i)
  BY <1>5, <1>7 DEF ReadHours
<1>8. CASE TakeOpen(i)
  <2>1. [f EXCEPT !.pc = "finish"].op = f.op
    BY <1>1 DEF Frame
  <2>2. \/ \E a, id : ToAudit(i, a, id)
        \/ Goto(i, [f EXCEPT !.pc = "finish"])
        \/ Done(i) \/ \E pc : Resume(i, pc)
    BY <1>8, Zenon DEF TakeOpen
  <2>3. CASE Goto(i, [f EXCEPT !.pc = "finish"])
    BY <1>4, <2>1, <2>3 DEF Goto
  <2> QED  BY <1>2, <1>3, <1>5, <2>2, <2>3
<1>9. CASE FileOverflow(i) \/ InsertMiss(i)
  <2>1. InsertMiss(i) => f.op = "miss"
    BY <1>1 DEF InsertMiss, OpAtPc
  <2> QED  BY <1>2, <1>9, <2>1 DEF FileOverflow, InsertMiss, Goto, Idle, Inv,
              FramesOK
<1>10. CASE ApproveRelease(i) \/ ApproveRead(i)
  <2>1. \A bs, d : [f EXCEPT !.pc = "settings", !.blocks = bs, !.day = d].op = f.op
    BY <1>1 DEF Frame
  <2>2. [f EXCEPT !.pc = "finish"].op = f.op
    BY <1>1 DEF Frame
  <2>3. CASE ApproveRelease(i)
    BY <1>4, <2>2, <2>3 DEF ApproveRelease, Goto
  <2>4. CASE ApproveRead(i)
    BY <1>4, <2>1, <2>4 DEF ApproveRead, Goto
  <2> QED  BY <1>10, <2>3, <2>4
<1>11. CASE NextBlock(i) \/ SplitRead(i)
  <2>1. \/ Done(i) \/ \E a, id : ToAudit(i, a, id)
        \/ \E x, y : \/ Goto(i, [f EXCEPT !.pc = x, !.row = y])
                     \/ Goto(i, [f EXCEPT !.pc = x, !.seen = y])
    <3>1. CASE NextBlock(i)
      BY <3>1, Zenon DEF NextBlock
    <3>2. CASE SplitRead(i)
      BY <3>2, Zenon DEF SplitRead
    <3> QED  BY <1>11, <3>1, <3>2
  <2>2. CASE \E x, y : \/ Goto(i, [f EXCEPT !.pc = x, !.row = y])
                       \/ Goto(i, [f EXCEPT !.pc = x, !.seen = y])
    <3>1. PICK x, y : \/ Goto(i, [f EXCEPT !.pc = x, !.row = y])
                      \/ Goto(i, [f EXCEPT !.pc = x, !.seen = y])
      BY <2>2
    <3>2. \/ frames'[i] = [f EXCEPT !.pc = x, !.row = y]
          \/ frames'[i] = [f EXCEPT !.pc = x, !.seen = y]
      BY <3>1, Zenon DEF Goto, Inv, FramesOK
    <3> QED  BY <1>1, <3>2 DEF Frame
  <2> QED  BY <1>2, <1>3, <2>1, <2>2
<1>12. CASE SplitTail(i) \/ SplitHead(i)
  BY <1>1, <1>2, <1>4, <1>12 DEF SplitTail, SplitHead, Goto, Frame
<1>13. CASE SplitPut(i)
  <2>1. \A bs : [f EXCEPT !.pc = "next", !.blocks = bs, !.row = NULL,
                          !.seen = NULL].op = f.op
    BY <1>1 DEF Frame
  <2> QED  BY <1>2, <1>3, <1>4, <1>13, <2>1, ZenonT(60) DEF SplitPut, Goto
<1>14. CASE InsertTemplate(i) \/ GenerateShift(i) \/ LogAudit(i)
  BY <1>1, <1>2, <1>4, <1>14 DEF InsertTemplate, GenerateShift, LogAudit, Goto,
     Frame
<1>15. CASE ApproveDeny(i) \/ ApproveFinish(i)
  BY <1>3, <1>15 DEF ApproveDeny, ApproveFinish
<1> QED
  BY <1>6, <1>7, <1>8, <1>9, <1>10, <1>11, <1>12, <1>13, <1>14, <1>15 DEF Continue

\* What a handler that arrives is.
LEMMA OpOfArrival ==
  ASSUME Inv, NEW i \in Slots, Arrive(i)
  PROVE  \/ /\ \E m \in Managers, r \in Live : Approve(i, m, r)
            /\ frames'[i].op = "approve"
         \/ \E m \in Managers, s \in DOMAIN shifts, w \in Workers :
              \/ Assign(i, m, s, w)
              \/ \E bs \in BlockLists : AssignList(i, m, s, w, bs)
         \/ frames'[i].op \notin {"approve", "assign", "blocks"}
<1>1. ASSUME NEW g, Start(i, g), g.op \notin {"approve", "assign", "blocks"}
      PROVE  frames'[i].op \notin {"approve", "assign", "blocks"}
  BY <1>1 DEF Start, Inv, FramesOK
<1>2. CASE \E w \in Workers, s \in DOMAIN shifts :
             Pick(i, w, s) \/ RequestMiss(i, w, s) \/ RequestOverflow(i, w, s)
  BY <1>1, <1>2 DEF Pick, RequestMiss, RequestOverflow, Idle
<1>3. CASE \E r \in Live : Cancel(i, r) \/ \E m \in Managers : Deny(i, m, r)
  BY <1>1, <1>3 DEF Cancel, Deny, Close, Idle
<1>4. CASE \E m \in Managers, s \in DOMAIN shifts : Unassign(i, m, s)
  BY <1>1, <1>4 DEF Unassign, Idle
<1>5. CASE \E m \in Managers, r \in Live : Approve(i, m, r)
  <2>1. PICK m \in Managers, r \in Live : Approve(i, m, r)
    BY <1>5
  <2>2. PICK pc : frames' = [frames EXCEPT ![i] =
                     [Idle EXCEPT !.pc = pc, !.op = "approve",
                                  !.worker = requests[r].worker,
                                  !.shift = requests[r].shift, !.req = r]]
    BY <2>1, Zenon DEF Approve, Start
  <2>3. frames'[i].op = "approve"
    BY <2>2 DEF Idle, Inv, FramesOK
  <2> QED  BY <2>1, <2>3
<1>6. CASE \E t \in Templates : AddWeekly(i, t)
  BY <1>1, <1>6 DEF AddWeekly, Idle
<1>7. CASE \E m \in Managers, s \in DOMAIN shifts, w \in Workers :
             \/ Assign(i, m, s, w)
             \/ \E bs \in BlockLists : AssignList(i, m, s, w, bs)
  BY <1>7
<1> QED  BY <1>2, <1>3, <1>4, <1>5, <1>6, <1>7 DEF Arrive

\* A statement of approveRequest other than its last two.
LEMMA ApproveGoesOn ==
  ASSUME Serial, Inv, DecidingInv, NEW i \in Slots, frames[i].op = "approve",
         \/ ReadSettings(i) \/ ReadHours(i) \/ TakeOpen(i)
         \/ ApproveRelease(i) \/ ApproveRead(i)
  PROVE  DecidingInv'
<1> DEFINE f == frames[i]
           q == requests[f.req]
<1>1. /\ f \in Frame /\ FrameOK(f, shifts) /\ Idle.op # "approve"
      /\ f.shift \in DOMAIN shifts /\ shifts \in [DOMAIN shifts -> Row]
      /\ Deciding(f) /\ f.pc # "audit" /\ requests' = requests
  BY DEF Inv, TableOK, FramesOK, FrameOK, DecidingInv, Idle, OpAtPc, ReadSettings,
     ReadHours, TakeOpen, ApproveRelease, ApproveRead
<1>2. CASE ReadSettings(i)
  <2>1. CASE f.worker \in present
    <3> PICK g : g = [f EXCEPT !.pc = "hours", !.details = details[f.worker]]
      OBVIOUS
    <3>1. /\ g.pc = "hours" /\ g.op = f.op /\ g.req = f.req
          /\ g.shift = f.shift /\ g.worker = f.worker
      BY <1>1 DEF Frame
    <3>2. frames' = [frames EXCEPT ![i] = g] /\ f.pc = "settings"
      BY <1>2, <2>1 DEF ReadSettings, Goto
    <3>3. Deciding(g)'
      BY <1>1, <3>1, <3>2 DEF Deciding, Live
    <3> QED  BY <3>2, <3>3, DecidingBy
  <2>2. CASE f.worker \notin present
    <3>1. frames'[i] = Idle
      BY <1>2, <2>2 DEF ReadSettings, Done, Goto, Inv, FramesOK
    <3> QED  BY <1>1, <3>1, DecidingBy
  <2> QED  BY <2>1, <2>2
<1>3. CASE ReadHours(i)
  <2> DEFINE verdict == Allowance(f.details, WeekHours(f.worker, f.day),
                                  Length(f.blocks))
  <2>1. verdict \in Verdicts
    BY DEF Allowance, Verdicts
  <2> HIDE DEF verdict
  <2>2. AfterCheck[f.op][verdict] \in {"take", "deny"}
    BY <2>1 DEF AfterCheck, Verdicts
  <2>3. Resume(i, AfterCheck[f.op][verdict])
    BY <1>3 DEF ReadHours, verdict
  <2>4. PICK g : /\ frames' = [frames EXCEPT ![i] = g]
                 /\ g.pc \in {"take", "deny"} /\ g.op = f.op
                 /\ g.req = f.req /\ g.shift = f.shift /\ g.worker = f.worker
    BY <2>2, <2>3, Resumed
  <2>5. Deciding(g)'
    BY <1>1, <1>3, <2>4 DEF Deciding, ReadHours, Live
  <2> QED  BY <2>4, <2>5, DecidingBy
<1>4. CASE TakeOpen(i)
  <2>1. CASE StillOpen(f.shift) /\ f.worker \in present
    <3> PICK g : g = [f EXCEPT !.pc = "finish"]
      OBVIOUS
    <3>1. frames' = [frames EXCEPT ![i] = g] /\ f.pc = "take"
      BY <1>4, <2>1 DEF TakeOpen, Goto
    <3>2. shifts'[f.shift].worker = f.worker
      BY <1>1, <1>4, <2>1 DEF TakeOpen, Row
    <3>3. /\ g.pc = "finish" /\ g.op = f.op /\ g.req = f.req
          /\ g.shift = f.shift /\ g.worker = f.worker
      BY <1>1 DEF Frame
    <3>4. Deciding(g)'
      BY <1>1, <3>1, <3>2, <3>3 DEF Deciding, Live
    <3> QED  BY <3>1, <3>4, DecidingBy
  <2>2. CASE StillOpen(f.shift) /\ f.worker \notin present
    BY <1>1, <1>4, <2>2, DecidingBy DEF Inv, FramesOK, TakeOpen, Done, Goto
  <2>3. CASE ~StillOpen(f.shift)
    <3>1. Resume(i, "deny") /\ f.pc = "take"
      BY <1>4, <2>3 DEF TakeOpen, AfterTaken
    <3>2. PICK g : /\ frames' = [frames EXCEPT ![i] = g]
                   /\ g.pc = "deny" /\ g.op = f.op
                   /\ g.req = f.req /\ g.shift = f.shift /\ g.worker = f.worker
      BY <3>1, Resumed
    <3>3. Deciding(g)'
      BY <1>1, <3>1, <3>2 DEF Deciding, Live
    <3> QED  BY <3>2, <3>3, DecidingBy
  <2> QED  BY <2>1, <2>2, <2>3
<1>5. CASE ApproveRelease(i)
  <2> PICK g : g = [f EXCEPT !.pc = "finish"]
    OBVIOUS
  <2>1. shifts'[f.shift].status = "open"
    BY <1>1, <1>5 DEF ApproveRelease, Released, Row
  <2>2. frames' = [frames EXCEPT ![i] = g] /\ f.pc = "release"
    BY <1>5 DEF ApproveRelease, Goto
  <2>3. /\ g.pc = "finish" /\ g.op = f.op /\ g.req = f.req
        /\ g.shift = f.shift /\ g.worker = f.worker
    BY <1>1 DEF Frame
  <2>4. Deciding(g)'
    BY <1>1, <2>1, <2>2, <2>3 DEF Deciding, Live
  <2> QED  BY <2>2, <2>4, DecidingBy
<1>6. CASE ApproveRead(i)
  <2> PICK g : g = [f EXCEPT !.pc = "settings", !.blocks = Whole(f.shift),
                             !.day = shifts[f.shift].day]
    OBVIOUS
  <2>1. /\ g.pc = "settings" /\ g.op = f.op /\ g.req = f.req
        /\ g.shift = f.shift /\ g.worker = f.worker
    BY <1>1 DEF Frame
  <2>2. frames' = [frames EXCEPT ![i] = g] /\ f.pc = "read"
    BY <1>6 DEF ApproveRead, Goto
  <2>3. Deciding(g)'
    BY <1>1, <2>1, <2>2 DEF Deciding, Live
  <2> QED  BY <2>2, <2>3, DecidingBy
<1> QED  BY <1>2, <1>3, <1>4, <1>5, <1>6

\* The statements of the other handlers, and the last ones of approveRequest.
LEMMA OthersGoOn ==
  ASSUME Serial, Inv, DecidingInv, NEW i \in Slots, Continue(i),
         \/ frames[i].op # "approve"
         \/ frames[i].pc \notin {"settings", "hours", "take", "release", "read"}
  PROVE  DecidingInv'
<1> DEFINE f == frames[i]
<1>1. /\ f \in Frame /\ OpAtPc(f.op, f.pc) /\ Idle.op # "approve"
  BY DEF Inv, FramesOK, FrameOK, Idle
<1>2. CASE ApproveDeny(i) \/ ApproveFinish(i)
  <2>1. PICK a, id : ToAudit(i, a, id)
    BY <1>2 DEF ApproveDeny, ApproveFinish
  <2> DEFINE g == [Idle EXCEPT !.pc = "audit", !.op = f.op, !.worker = Actor(f),
                               !.req = f.req, !.note = <<a, id>>]
  <2>2. g.pc = "audit"
    BY DEF Idle
  <2> QED  BY <2>1, <2>2, DecidingBy DEF Inv, FramesOK, ToAudit, Goto
<1>3. CASE f.op # "approve"
  <2>1. frames'[i].op # "approve"
    BY <1>1, <1>3, OpKept
  <2> QED  BY <2>1, DecidingBy
<1>4. CASE LogAudit(i)
  BY <1>1, <1>4, DecidingBy DEF Inv, FramesOK, LogAudit, Done, Goto
<1>5. f.op = "approve" =>
        f.pc \in {"settings", "hours", "take", "release", "read", "deny",
                  "finish", "audit"}
  BY <1>1 DEF OpAtPc, Frame, Pcs, Splits
<1> QED
  BY <1>2, <1>3, <1>4, <1>5 DEF Continue, ReadSettings, ReadHours, FileOverflow,
     TakeOpen, ApproveRelease, ApproveRead, InsertMiss, NextBlock, SplitRead,
     SplitTail, SplitHead, SplitPut, InsertTemplate, GenerateShift

LEMMA ContinueDecides ==
  ASSUME Serial, Inv, DecidingInv, NEW i \in Slots, Continue(i)
  PROVE  DecidingInv'
<1>1. CASE /\ frames[i].op = "approve"
           /\ frames[i].pc \in {"settings", "hours", "take", "release", "read"}
  BY <1>1, ApproveGoesOn DEF Continue, FileOverflow, LogAudit, ApproveDeny,
     ApproveFinish, InsertMiss, NextBlock, SplitRead, SplitTail, SplitHead,
     SplitPut, InsertTemplate, GenerateShift
<1> QED  BY <1>1, OthersGoOn

LEMMA ArriveDecides ==
  ASSUME Serial, Inv, DecidingInv, NEW i \in Slots, Arrive(i)
  PROVE  DecidingInv'
<1>1. CASE \E m \in Managers, r \in Live : Approve(i, m, r)
  <2>1. PICK m \in Managers, r \in Live : Approve(i, m, r)
    BY <1>1
  <2> DEFINE q == requests[r]
  <2>2. PICK g : g = [Idle EXCEPT !.pc = IF q.type = "miss" THEN "release"
                                        ELSE "read",
                                  !.op = "approve", !.worker = q.worker,
                                  !.shift = q.shift, !.req = r]
    OBVIOUS
  <2>3. q \in Request
    BY DEF Live, Inv, OthersOK
  <2>4. /\ g.pc = IF q.type = "miss" THEN "release" ELSE "read"
        /\ g.op = "approve" /\ g.worker = q.worker /\ g.shift = q.shift
        /\ g.req = r
    BY <2>2 DEF Idle
  <2>5. /\ frames' = [frames EXCEPT ![i] = g] /\ q.status = "pending"
        /\ requests' = requests /\ shifts' = shifts
    BY <2>1, <2>2 DEF Approve, Start
  <2>6. Deciding(g)'
    BY <2>3, <2>4, <2>5 DEF Deciding, Request, Live
  <2> QED  BY <2>5, <2>6, DecidingBy
<1>2. CASE ~\E m \in Managers, r \in Live : Approve(i, m, r)
  <2>1. frames'[i].op # "approve"
    <3>1. ASSUME NEW m \in Managers, NEW s \in DOMAIN shifts, NEW w \in Workers,
                 Assign(i, m, s, w)
          PROVE  frames'[i].op = "assign"
      <4>1. PICK b : Start(i, [Idle EXCEPT !.pc = "settings", !.op = "assign",
                                !.worker = w, !.shift = s, !.row = s,
                                !.day = shifts[s].day, !.blocks = <<b>>])
        BY <3>1, Zenon DEF Assign
      <4> QED  BY <4>1 DEF Start, Idle, Inv, FramesOK
    <3>2. ASSUME NEW m \in Managers, NEW s \in DOMAIN shifts, NEW w \in Workers,
                 NEW bs \in BlockLists, AssignList(i, m, s, w, bs)
          PROVE  frames'[i].op = "blocks"
      BY <3>2 DEF AssignList, Start, Idle, Inv, FramesOK
    <3> QED  BY <1>2, <3>1, <3>2, OpOfArrival
  <2> QED  BY <2>1, DecidingBy
<1> QED  BY <1>1, <1>2

\* With a handler in flight nothing else runs.
LEMMA Alone ==
  ASSUME Serial, NEW i \in Slots, SlotFree
  PROVE  frames[i] = Idle
BY DEF Serial, SlotFree

LEMMA NextDecides ==
  ASSUME Serial, Inv, DecidingInv, [Next]_vars
  PROVE  DecidingInv'
<1>1. CASE UNCHANGED vars
  BY <1>1 DEF vars, DecidingInv, Deciding, Live
<1>2. CASE \E i \in Slots : Continue(i) \/ Arrive(i)
  BY <1>2, ContinueDecides, ArriveDecides
<1>3. CASE \E i \in Slots : Abort(i)
  <2>1. PICK i \in Slots : frames'[i] = Idle
    BY <1>3 DEF Abort, Done, Goto, Inv, FramesOK
  <2>2. Idle.op # "approve"
    BY DEF Idle
  <2> QED  BY <2>1, <2>2, DecidingBy
<1>4. CASE SlotFree /\ frames' = frames
  <2>1. \A i \in Slots : frames'[i] = Idle
    BY <1>4, Alone
  <2> QED  BY <2>1 DEF DecidingInv, Deciding, Idle
<1> QED
  BY <1>1, <1>2, <1>3, <1>4 DEF Next, CreateShift, SetWorkerDetails, DeleteUser

\* What a step does to a request that is there before and after it.
LEMMA RequestStep ==
  ASSUME Serial, Inv, DecidingInv, Next, NEW r \in Live \cap Live'
  PROVE  \/ requests'[r] = requests[r]
         \/ /\ requests[r].status = "pending"
            /\ requests'[r].status \in {"denied", "cancelled"}
         \/ \E i \in Slots :
              /\ frames[i].pc = "finish" /\ frames[i].op = "approve"
              /\ frames[i].req = r
<1>1. CASE requests' = requests
  BY <1>1
<1>2. CASE \E id \in FreeRequestIds : \E q : requests' = Insert(requests, id, q)
  BY <1>2 DEF Insert, FreeRequestIds, Live
<1>3. ASSUME NEW i \in Slots, Continue(i)
      PROVE  \/ requests' = requests
             \/ \E id \in FreeRequestIds :
                  \E q : requests' = Insert(requests, id, q)
             \/ ApproveDeny(i) \/ ApproveFinish(i)
  BY <1>3, ZenonT(60) DEF Continue, ReadSettings, ReadHours, FileOverflow,
     TakeOpen, LogAudit, ApproveRelease, ApproveRead, InsertMiss, NextBlock,
     SplitRead, SplitTail, SplitHead, SplitPut, InsertTemplate, GenerateShift
<1>4. ASSUME NEW i \in Slots, Arrive(i)
      PROVE  \/ requests' = requests
             \/ \E id \in FreeRequestIds :
                  \E q : requests' = Insert(requests, id, q)
             \/ \E d \in Live : \E st \in {"denied", "cancelled"} :
                  /\ requests[d].status = "pending"
                  /\ requests' = [requests EXCEPT ![d].status = st]
  BY <1>4, ZenonT(60) DEF Arrive, Pick, RequestMiss, RequestOverflow, Cancel,
     Approve, Deny, Close, StillPending, Unassign, Assign, AssignList, AddWeekly
<1>5. ASSUME NEW i \in Slots, ApproveDeny(i) \/ ApproveFinish(i)
      PROVE  /\ frames[i].op = "approve" /\ requests[frames[i].req].status = "pending"
             /\ frames[i].req \in Live
             /\ ApproveFinish(i) => frames[i].pc = "finish"
  BY <1>5 DEF ApproveDeny, ApproveFinish, Inv, FramesOK, FrameOK, OpAtPc,
     DecidingInv, Deciding
<1>6. ASSUME NEW d \in Live, NEW st,
             requests' = [requests EXCEPT ![d].status = st]
      PROVE  /\ r # d => requests'[r] = requests[r]
             /\ r = d => requests'[r].status = st
  BY <1>6 DEF Live, Inv, OthersOK, Request
<1>7. CASE \E i \in Slots : ApproveDeny(i) \/ ApproveFinish(i)
  BY <1>5, <1>6, <1>7 DEF ApproveDeny, ApproveFinish, Overwrite
<1>8. CASE \E w \in Deletable : DeleteUser(w)
  BY <1>8 DEF DeleteUser, Live
<1> QED
  BY <1>1, <1>2, <1>3, <1>4, <1>6, <1>7, <1>8 DEF Next, Abort, CreateShift,
     SetWorkerDetails

\* While requests are served one at a time, an approved, denied or cancelled
\* request keeps its status: no second decision reaches approveRequest's UPDATE,
\* which does not ask whether the request is still pending.
THEOREM DecisionsAreFinal == ASSUME Serial PROVE Spec => TerminalIsFinal
<1>1. Init => DecidingInv
  BY DEF Init, DecidingInv, Deciding, Idle
<1>2. Inv /\ DecidingInv /\ [Next]_vars => DecidingInv'
  BY NextDecides
<1>3. Inv /\ DecidingInv /\ [Next]_vars =>
        [\A r \in Live \cap Live' :
           requests[r].status # "pending"
             => requests'[r].status = requests[r].status]_vars
  BY RequestStep DEF DecidingInv, Deciding
<1> QED  BY <1>1, <1>2, <1>3, InvHolds, PTL DEF Spec, TerminalIsFinal

\* While requests are served one at a time, an approval has its effect: the
\* worker of an overflow holds the shift, the shift of a miss is open, when
\* the request becomes approved (approveRequest).
THEOREM ApprovalsTakeEffect == ASSUME Serial PROVE Spec => ApprovalTookEffect
<1>1. Init => DecidingInv
  BY DEF Init, DecidingInv, Deciding, Idle
<1>2. Inv /\ DecidingInv /\ [Next]_vars => DecidingInv'
  BY NextDecides
<1>3. Inv /\ DecidingInv /\ [Next]_vars =>
        [\A r \in Live \cap Live' :
           /\ requests[r].status # "approved"
           /\ requests'[r].status = "approved"
           => LET row == shifts[requests[r].shift]
              IN  IF requests[r].type = "overflow"
                  THEN row.worker = requests[r].worker
                  ELSE row.status = "open"]_vars
  BY RequestStep DEF DecidingInv, Deciding
<1> QED  BY <1>1, <1>2, <1>3, InvHolds, PTL DEF Spec, ApprovalTookEffect

-----------------------------------------------------------------------------
(***************************************************************************)
(* The pieces of a shift.  A shift is cut by three statements, so that in  *)
(* between the rows do not cover it; what they will cover once the handler *)
(* has written its row does, at every statement.                           *)
(***************************************************************************)
Roots == DOMAIN InitShifts

\* buildBlocks cuts a shift on a grid of hours P: the shifts start and end on
\* it, and the blocks of a list are its cells.
OnGrid(P) ==
  /\ P \subseteq Int
  /\ \A s \in Roots : /\ InitShifts[s].parent = NULL
                      /\ InitShifts[s].start < InitShifts[s].end
                      /\ {InitShifts[s].start, InitShifts[s].end} \subseteq P
  /\ \A b \in AssignBlocks : {b[1], b[2]} \subseteq P
  /\ \A bs \in BlockLists : \A k \in DOMAIN bs :
       /\ {bs[k][1], bs[k][2]} \subseteq P
       /\ \A p \in P : p <= bs[k][1] \/ bs[k][2] <= p

\* The second INSERT of a remainder does not fail.
RowsFit == \A i \in Slots : frames[i].pc = "head" => FreeShiftIds # {}

\* The hours each row covers, or will once the handler has cut it.
View(tab, f) ==
  [s \in DOMAIN tab |->
     [start |-> IF f.row = s /\ f.pc = "put" THEN Head(f.blocks)[1]
                ELSE tab[s].start,
      end   |-> IF f.row = s /\ f.pc \in {"head", "put"} THEN Head(f.blocks)[2]
                ELSE tab[s].end]]

Pieces(tab, g) == {s \in DOMAIN tab : GroupIn(tab, s) = g}

Tiled(P, v, D, whole) ==
  /\ \A s \in D : /\ v[s].start \in P /\ v[s].end \in P
                  /\ whole.start <= v[s].start /\ v[s].start < v[s].end
                  /\ v[s].end <= whole.end
  /\ \A s, t \in D : s = t \/ v[s].end <= v[t].start \/ v[t].end <= v[s].start
  /\ \A h \in whole.start .. whole.end - 1 :
       \E s \in D : v[s].start <= h /\ h < v[s].end

TilesOK(P, tab, f) ==
  \A g \in Roots :
    /\ g \in DOMAIN tab /\ GroupIn(tab, g) = g
    /\ Tiled(P, View(tab, f), Pieces(tab, g), InitShifts[g])

Fits(P, b, row) == /\ b[1] \in P /\ b[2] \in P
                   /\ row.start <= b[1] /\ b[1] < b[2] /\ b[2] <= row.end

\* A cell of the grid.
IsCell(P, b) == /\ b[1] \in P /\ b[2] \in P /\ b[1] < b[2]
                /\ \A p \in P : p <= b[1] \/ b[2] <= p

\* The block that is cut off a row is on the grid and in the row.
Cutting == {"split", "tail", "head", "put"}

CutOK(P, tab, f) ==
  /\ f.op = "blocks" /\ f.pc # "audit" =>
       \A k \in DOMAIN f.blocks : IsCell(P, f.blocks[k])
  /\ \/ f.pc \in Cutting
     \/ f.op = "assign" /\ f.pc \in {"settings", "hours"}
     => (GroupIn(tab, f.row) \in Roots => Fits(P, Head(f.blocks), tab[f.row]))
  /\ f.pc = "tail" => /\ f.seen.start = tab[f.row].start
                      /\ Head(f.blocks)[2] # tab[f.row].end
  /\ f.pc = "head" => Head(f.blocks)[1] # tab[f.row].start

\* The worker who gets the block is there.
Here(f) == f.op \in Splits /\ f.pc # "audit" => f.worker \in present

TileInv(P) == \A i \in Slots : /\ TilesOK(P, shifts, frames[i])
                               /\ CutOK(P, shifts, frames[i])
                               /\ Here(frames[i])

-----------------------------------------------------------------------------
\* Nothing is cut: the hours stay as they are, and rows that are new start a
\* group of their own.
LEMMA SameTiles ==
  ASSUME NEW P, NEW tab, NEW new, NEW f, NEW g, TilesOK(P, tab, f),
         Grows(tab, new),
         \A s \in DOMAIN tab : View(new, g)[s] = View(tab, f)[s],
         \A s \in DOMAIN new \ DOMAIN tab : new[s].parent = NULL
  PROVE  TilesOK(P, new, g)
<1> SUFFICES ASSUME NEW r \in Roots
             PROVE  /\ r \in DOMAIN new /\ GroupIn(new, r) = r
                    /\ Tiled(P, View(new, g), Pieces(new, r), InitShifts[r])
  BY DEF TilesOK
<1>1. /\ r \in DOMAIN tab /\ GroupIn(tab, r) = r
      /\ Tiled(P, View(tab, f), Pieces(tab, r), InitShifts[r])
  BY DEF TilesOK
<1>2. r \in DOMAIN new /\ GroupIn(new, r) = r
  BY <1>1 DEF Grows
<1>3. Pieces(new, r) = Pieces(tab, r)
  <2>1. \A s \in DOMAIN new \ DOMAIN tab : GroupIn(new, s) = s
    BY DEF GroupIn
  <2> QED  BY <1>1, <2>1 DEF Pieces, Grows
<1>4. \A s \in Pieces(new, r) : View(new, g)[s] = View(tab, f)[s]
  BY <1>3 DEF Pieces
<1>5. Tiled(P, View(new, g), Pieces(new, r), InitShifts[r])
  <2> DEFINE v == View(tab, f)  w == View(new, g)  D == Pieces(tab, r)
  <2>1. Tiled(P, v, D, InitShifts[r]) /\ \A s \in D : w[s] = v[s]
    BY <1>1, <1>3, <1>4
  <2> HIDE DEF v, w, D
  <2>2. Tiled(P, w, D, InitShifts[r])
    BY <2>1 DEF Tiled
  <2> QED  BY <1>3, <2>2 DEF D, w
<1> QED  BY <1>2, <1>5

\* One of the pieces is cut in two.
LEMMA CutInTwo ==
  ASSUME NEW P, P \subseteq Int, NEW v, NEW w, NEW D, NEW s \in D, NEW x, x \notin D,
         NEW whole, whole.start \in Int, whole.end \in Int, Tiled(P, v, D, whole),
         \A y \in D \ {s} : w[y] = v[y],
         NEW m \in P, v[s].start < m, m < v[s].end,
         \/ /\ w[s].start = v[s].start /\ w[s].end = m
            /\ w[x].start = m /\ w[x].end = v[s].end
         \/ /\ w[x].start = v[s].start /\ w[x].end = m
            /\ w[s].start = m /\ w[s].end = v[s].end
  PROVE  Tiled(P, w, D \cup {x}, whole)
<1>1. \A y \in D : /\ v[y].start \in P /\ v[y].end \in P
                   /\ v[y].start \in Int /\ v[y].end \in Int
                   /\ whole.start <= v[y].start /\ v[y].start < v[y].end
                   /\ v[y].end <= whole.end
  BY DEF Tiled
<1>2. \A y \in D \cup {x} :
        /\ w[y].start \in P /\ w[y].end \in P
        /\ whole.start <= w[y].start /\ w[y].start < w[y].end
        /\ w[y].end <= whole.end
  BY <1>1
<1>3. ASSUME NEW y \in D \cup {x}, NEW z \in D \cup {x}
      PROVE  y = z \/ w[y].end <= w[z].start \/ w[z].end <= w[y].start
  <2>1. \A a, b \in D : a = b \/ v[a].end <= v[b].start \/ v[b].end <= v[a].start
    BY DEF Tiled
  <2>2. CASE y \in {s, x} /\ z \in {s, x}
    BY <1>1, <2>2
  <2>3. CASE y \in {s, x} /\ z \notin {s, x}
    <3>1. v[s].end <= v[z].start \/ v[z].end <= v[s].start
      BY <2>1, <2>3
    <3> QED  BY <1>1, <2>3, <3>1
  <2>4. CASE y \notin {s, x} /\ z \in {s, x}
    <3>1. v[s].end <= v[y].start \/ v[y].end <= v[s].start
      BY <2>1, <2>4
    <3> QED  BY <1>1, <2>4, <3>1
  <2>5. CASE y \notin {s, x} /\ z \notin {s, x}
    BY <2>1, <2>5
  <2> QED  BY <2>2, <2>3, <2>4, <2>5
<1>4. ASSUME NEW h \in whole.start .. whole.end - 1
      PROVE  \E y \in D \cup {x} : w[y].start <= h /\ h < w[y].end
  <2>1. PICK y \in D : v[y].start <= h /\ h < v[y].end
    BY DEF Tiled
  <2>2. CASE y # s
    BY <2>1, <2>2
  <2>3. CASE y = s
    BY <1>1, <2>1, <2>3
  <2> QED  BY <2>2, <2>3
<1> QED  BY <1>2, <1>3, <1>4 DEF Tiled

\* A remainder is inserted.
LEMMA CutTiles ==
  ASSUME NEW P, OnGrid(P), NEW tab, NEW new, NEW f, NEW g, TilesOK(P, tab, f),
         InitShifts \in [Roots -> Row], TableOK(tab),
         Grows(tab, new), NEW s \in DOMAIN tab, NEW x, x \notin DOMAIN tab,
         DOMAIN new = DOMAIN tab \cup {x}, GroupIn(new, x) = GroupIn(tab, s),
         \A y \in DOMAIN tab \ {s} : View(new, g)[y] = View(tab, f)[y],
         GroupIn(tab, s) \in Roots =>
           \E m \in P :
             /\ View(tab, f)[s].start < m /\ m < View(tab, f)[s].end
             /\ \/ /\ View(new, g)[s].start = View(tab, f)[s].start
                   /\ View(new, g)[s].end = m
                   /\ View(new, g)[x].start = m
                   /\ View(new, g)[x].end = View(tab, f)[s].end
                \/ /\ View(new, g)[x].start = View(tab, f)[s].start
                   /\ View(new, g)[x].end = m
                   /\ View(new, g)[s].start = m
                   /\ View(new, g)[s].end = View(tab, f)[s].end
  PROVE  TilesOK(P, new, g)
<1> SUFFICES ASSUME NEW r \in Roots
             PROVE  /\ r \in DOMAIN new /\ GroupIn(new, r) = r
                    /\ Tiled(P, View(new, g), Pieces(new, r), InitShifts[r])
  BY DEF TilesOK
<1> DEFINE v == View(tab, f)  w == View(new, g)  D == Pieces(tab, r)
           whole == InitShifts[r]
<1>1. r \in DOMAIN tab /\ GroupIn(tab, r) = r /\ Tiled(P, v, D, whole)
  BY DEF TilesOK
<1>2. r \in DOMAIN new /\ GroupIn(new, r) = r
  BY <1>1 DEF Grows
<1>3. whole.start \in Int /\ whole.end \in Int /\ P \subseteq Int
  BY DEF Row, OnGrid
<1>4. CASE GroupIn(tab, s) # r
  <2>1. Pieces(new, r) = D /\ \A y \in D : w[y] = v[y]
    BY <1>4 DEF Pieces, Grows
  <2> HIDE DEF v, w, D
  <2>2. Tiled(P, w, D, whole)
    BY <1>1, <2>1 DEF Tiled
  <2> QED  BY <1>2, <2>1, <2>2 DEF w
<1>5. CASE GroupIn(tab, s) = r
  <2>1. Pieces(new, r) = D \cup {x} /\ s \in D /\ x \notin D
    BY <1>5 DEF Pieces, Grows
  <2>2. \A y \in D \ {s} : w[y] = v[y]
    BY DEF Pieces
  <2>3. PICK m \in P :
          /\ v[s].start < m /\ m < v[s].end
          /\ \/ /\ w[s].start = v[s].start /\ w[s].end = m
                /\ w[x].start = m /\ w[x].end = v[s].end
             \/ /\ w[x].start = v[s].start /\ w[x].end = m
                /\ w[s].start = m /\ w[s].end = v[s].end
    BY <1>5
  <2> HIDE DEF v, w, D, whole
  <2>4. Tiled(P, w, D \cup {x}, whole)
    BY <1>1, <1>3, <2>1, <2>2, <2>3, CutInTwo
  <2> QED  BY <1>2, <2>1, <2>4 DEF w, whole
<1> QED  BY <1>4, <1>5

-----------------------------------------------------------------------------
\* Nothing is cut: hours and groups stay, and rows that are new start groups.
Keeps(tab, new) ==
  /\ DOMAIN tab \subseteq DOMAIN new
  /\ \A s \in DOMAIN tab : /\ new[s].start = tab[s].start
                           /\ new[s].end = tab[s].end
                           /\ new[s].parent = tab[s].parent
  /\ \A s \in DOMAIN new \ DOMAIN tab : new[s].parent = NULL

\* The one handler moves, and the table is still cut into tiles.
LEMMA TileBy ==
  ASSUME Serial, NEW P, TileInv(P), NEW i \in Slots,
         TilesOK(P, shifts', frames'[i]), CutOK(P, shifts', frames'[i]),
         Here(frames[i])'
  PROVE  TileInv(P)'
BY DEF Serial, TileInv

\* A step that cuts nothing.
LEMMA CalmTiles ==
  ASSUME NEW P, NEW tab, NEW new, NEW f, NEW g, TilesOK(P, tab, f),
         Keeps(tab, new), f.pc \notin {"head", "put"}, g.pc \notin {"head", "put"}
  PROVE  TilesOK(P, new, g)
<1>1. Grows(tab, new)
  BY DEF Keeps, Grows, GroupIn
<1>2. \A s \in DOMAIN tab : View(new, g)[s] = View(tab, f)[s]
  BY DEF Keeps, View
<1> QED  BY <1>1, <1>2, SameTiles DEF Keeps

\* A handler that cuts nothing needs no block.
LEMMA NoCut ==
  ASSUME Inv', NEW i \in Slots,
         frames'[i].op \notin Splits \/ frames'[i].pc = "audit"
  PROVE  /\ \A P : CutOK(P, shifts', frames'[i])
         /\ Here(frames[i])'
         /\ frames'[i].pc \notin {"head", "put"}
BY DEF Inv, FramesOK, FrameOK, OpAtPc, CutOK, Here, Cutting, Splits

LEMMA CalmStep ==
  ASSUME Serial, Inv', NEW P, TileInv(P), NEW i \in Slots,
         frames[i].pc \notin {"head", "put"}, Keeps(shifts, shifts'),
         frames'[i].op \notin Splits \/ frames'[i].pc = "audit"
  PROVE  TileInv(P)'
<1>1. TilesOK(P, shifts, frames[i])
  BY DEF TileInv
<1> QED  BY <1>1, CalmTiles, NoCut, TileBy

\* A handler returns, or has only its logAudit left.
LEMMA Ends ==
  ASSUME Inv, NEW i \in Slots,
         \/ Done(i)
         \/ \E op, w, r, n : Goto(i, [Idle EXCEPT !.pc = "audit", !.op = op,
                                      !.worker = w, !.req = r, !.note = n])
  PROVE  frames'[i].op \notin Splits \/ frames'[i].pc = "audit"
<1>1. CASE Done(i)
  BY <1>1 DEF Done, Goto, Idle, Inv, FramesOK, Splits
<1>2. ASSUME NEW op, NEW w, NEW r, NEW n,
             Goto(i, [Idle EXCEPT !.pc = "audit", !.op = op, !.worker = w,
                                  !.req = r, !.note = n])
      PROVE  frames'[i].pc = "audit"
  BY <1>2 DEF Goto, Idle, Inv, FramesOK
<1> QED  BY <1>1, <1>2

LEMMA KeepsSame == ASSUME shifts' = shifts PROVE Keeps(shifts, shifts')
BY DEF Keeps

\* UPDATEs of status and worker, and INSERTs of whole shifts.
LEMMA KeepsHolder ==
  ASSUME Inv, NEW s \in DOMAIN shifts,
         \/ shifts' = [shifts EXCEPT ![s] = Released(@)]
         \/ \E w : shifts' = [shifts EXCEPT ![s].status = "assigned",
                                            ![s].worker = w]
  PROVE  Keeps(shifts, shifts')
<1>1. shifts[s] \in Row /\ shifts \in [DOMAIN shifts -> Row]
  BY DEF Inv, TableOK
<1>2. CASE shifts' = [shifts EXCEPT ![s] = Released(@)]
  BY <1>1, <1>2 DEF Keeps, Released, Row
<1>3. ASSUME NEW w, shifts' = [shifts EXCEPT ![s].status = "assigned",
                                             ![s].worker = w]
      PROVE  Keeps(shifts, shifts')
  BY <1>1, <1>3 DEF Keeps, Row
<1> QED  BY <1>2, <1>3

LEMMA KeepsInsert ==
  ASSUME NEW id \in FreeShiftIds, NEW row, row.parent = NULL,
         shifts' = Insert(shifts, id, row)
  PROVE  Keeps(shifts, shifts')
BY DEF Keeps, Insert, FreeShiftIds

\* Handlers that do not split cut nothing.
LEMMA OthersKeep ==
  ASSUME Inv, NEW i \in Slots, Continue(i), frames[i].op \notin Splits
  PROVE  Keeps(shifts, shifts')
<1> DEFINE f == frames[i]
<1>1. /\ f.pc \notin {"idle", "audit"} /\ f.op # "weekly" => f.shift \in DOMAIN shifts
      /\ f.pc \notin {"split", "tail", "head", "put"}
  BY DEF Inv, FramesOK, FrameOK, OpAtPc, Splits
<1>2. f.pc \in {"take", "release"} => f.op # "weekly"
  BY DEF Inv, FramesOK, FrameOK, OpAtPc
<1>3. CASE shifts' = shifts
  BY <1>3, KeepsSame
<1>4. CASE TakeOpen(i)
  <2>1. f.shift \in DOMAIN shifts
    BY <1>1, <1>2, <1>4 DEF TakeOpen
  <2>2. \/ shifts' = shifts
        \/ shifts' = [shifts EXCEPT ![f.shift].status = "assigned",
                                    ![f.shift].worker = f.worker]
    BY <1>4, Zenon DEF TakeOpen
  <2> QED  BY <1>3, <2>1, <2>2, KeepsHolder
<1>5. CASE ApproveRelease(i)
  BY <1>1, <1>2, <1>5, KeepsHolder DEF ApproveRelease
<1>6. CASE GenerateShift(i)
  <2>1. \/ shifts' = shifts
        \/ \E id \in FreeShiftIds : shifts' = Insert(shifts, id,
             [team |-> f.team, day |-> f.day, start |-> Head(f.blocks)[1],
              end |-> Head(f.blocks)[2], status |-> "assigned",
              worker |-> f.worker, parent |-> NULL])
    BY <1>6, Zenon DEF GenerateShift
  <2> QED  BY <1>3, <2>1, KeepsInsert
<1> QED
  BY <1>1, <1>3, <1>4, <1>5, <1>6 DEF Continue, ReadSettings, ReadHours,
     FileOverflow, LogAudit, ApproveRead, ApproveDeny, ApproveFinish, InsertMiss,
     NextBlock, SplitRead, SplitTail, SplitHead, SplitPut, InsertTemplate

LEMMA OthersTile ==
  ASSUME Serial, Inv, Inv', NEW P, TileInv(P), NEW i \in Slots, Continue(i),
         frames[i].op \notin Splits
  PROVE  TileInv(P)'
<1>1. frames'[i].op \notin Splits
  BY OpKept DEF Splits
<1>2. frames[i].pc \notin {"head", "put"}
  BY DEF Inv, FramesOK, FrameOK, OpAtPc
<1> QED  BY <1>1, <1>2, OthersKeep, CalmStep

-----------------------------------------------------------------------------
(***************************************************************************)
(* The statements of a handler that splits.                                *)
(***************************************************************************)

\* What its locals are, and how they move on.
LEMMA SplitFrame ==
  ASSUME Inv, NEW P, TileInv(P), NEW i \in Slots, frames[i].op \in Splits
  PROVE  /\ frames[i] \in Frame
         /\ TableOK(shifts)
         /\ TilesOK(P, shifts, frames[i]) /\ CutOK(P, shifts, frames[i])
         /\ frames[i].pc # "audit" =>
              frames[i].worker \in present /\ frames[i].worker \in Workers
         /\ FrameOK(frames[i], shifts)
BY DEF Inv, FramesOK, TileInv, Here, OthersOK

\* It goes on without a statement of its own, at a position of its own.
LEMMA SplitGoesOn ==
  ASSUME Serial, Inv, Inv', NEW P, TileInv(P), NEW i \in Slots,
         frames[i].op \in Splits, frames[i].pc \notin {"audit", "head", "put"},
         shifts' = shifts, present' = present, NEW g,
         frames' = [frames EXCEPT ![i] = g],
         g.op = frames[i].op, g.worker = frames[i].worker,
         g.pc \notin {"head", "put"}, CutOK(P, shifts, g)
  PROVE  TileInv(P)'
<1>1. TilesOK(P, shifts', g)
  BY SplitFrame, KeepsSame, CalmTiles
<1>2. frames'[i] = g
  BY DEF Inv, FramesOK
<1>3. Here(frames[i])'
  BY <1>2, SplitFrame DEF Here
<1> QED  BY <1>1, <1>2, <1>3, TileBy

LEMMA ReadSettingsTiles ==
  ASSUME Serial, Inv, Inv', NEW P, TileInv(P), NEW i \in Slots,
         frames[i].op \in Splits, ReadSettings(i)
  PROVE  TileInv(P)'
<1> DEFINE f == frames[i]
<1>1. f.pc = "settings" /\ f \in Frame /\ CutOK(P, shifts, f) /\ f.worker \in present
  BY SplitFrame DEF ReadSettings
<1> PICK g : g = [f EXCEPT !.pc = "hours", !.details = details[f.worker]]
  OBVIOUS
<1>2. /\ g.pc = "hours" /\ g.op = f.op /\ g.worker = f.worker
      /\ g.blocks = f.blocks /\ g.row = f.row
  BY <1>1 DEF Frame
<1>3. CutOK(P, shifts, g)
  BY <1>1, <1>2 DEF CutOK, Cutting
<1>4. /\ frames' = [frames EXCEPT ![i] = g]
      /\ shifts' = shifts /\ present' = present
  BY <1>1 DEF ReadSettings, Goto
<1> QED  BY <1>1, <1>2, <1>3, <1>4, SplitGoesOn

LEMMA ReadHoursTiles ==
  ASSUME Serial, Inv, Inv', NEW P, TileInv(P), NEW i \in Slots,
         frames[i].op \in Splits, ReadHours(i)
  PROVE  TileInv(P)'
<1> DEFINE f == frames[i]
           verdict == Allowance(f.details, WeekHours(f.worker, f.day),
                                Length(f.blocks))
<1>1. f.pc = "hours" /\ f \in Frame /\ CutOK(P, shifts, f)
  BY SplitFrame DEF ReadHours
<1>2. verdict \in Verdicts
  BY DEF Allowance, Verdicts
<1>3. Resume(i, AfterCheck[f.op][verdict])
  BY DEF ReadHours
<1>4. shifts' = shifts /\ present' = present
  BY DEF ReadHours
<1> HIDE DEF verdict
<1>5. PICK pc \in {"split", "next", "overflow", "idle"} :
        /\ Resume(i, pc)
        /\ pc = "split" => f.op = "assign"
  BY <1>2, <1>3 DEF AfterCheck, Verdicts, Splits
<1>6. PICK g : /\ frames' = [frames EXCEPT ![i] = g]
               /\ \/ g = Idle /\ pc = "idle"
                  \/ /\ g.pc = pc /\ g.op = f.op /\ g.worker = f.worker
                     /\ g.blocks = f.blocks /\ g.row = f.row
  BY <1>5, Resumed
<1>7. CASE g = Idle
  BY <1>1, <1>4, <1>6, <1>7, KeepsSame, CalmStep DEF Idle, Splits, Inv, FramesOK
<1>8. CASE g # Idle
  <2>1. CutOK(P, shifts, g)
    BY <1>1, <1>5, <1>6, <1>8 DEF CutOK, Cutting
  <2> QED  BY <1>1, <1>4, <1>5, <1>6, <1>8, <2>1, SplitGoesOn
<1> QED  BY <1>7, <1>8

\* Rows of the shifts at the start lie on the grid.
LEMMA RowOnGrid ==
  ASSUME NEW P, NEW tab, NEW f, TilesOK(P, tab, f), f.pc \notin {"head", "put"},
         NEW x \in DOMAIN tab, GroupIn(tab, x) \in Roots
  PROVE  tab[x].start \in P /\ tab[x].end \in P
BY DEF TilesOK, Tiled, Pieces, View

\* The row chosen for a cell of the grid holds all of it.
LEMMA CellFits ==
  ASSUME NEW P, P \subseteq Int, NEW tab, NEW f, TilesOK(P, tab, f),
         f.pc \notin {"head", "put"}, NEW x \in DOMAIN tab, GroupIn(tab, x) \in Roots,
         NEW b, IsCell(P, b), tab[x].start <= b[1], b[1] < tab[x].end
  PROVE  Fits(P, b, tab[x])
<1>1. tab[x].end \in P /\ tab[x].start \in P
  BY RowOnGrid
<1>2. b[1] \in Int /\ tab[x].end \in Int
  BY <1>1 DEF IsCell
<1>3. tab[x].end <= b[1] \/ b[2] <= tab[x].end
  BY <1>1 DEF IsCell
<1>4. b[2] <= tab[x].end
  BY <1>2, <1>3
<1> QED  BY <1>4 DEF Fits, IsCell

LEMMA NextBlockTiles ==
  ASSUME Serial, Inv, Inv', NEW P, P \subseteq Int, TileInv(P), NEW i \in Slots,
         frames[i].op \in Splits, NextBlock(i)
  PROVE  TileInv(P)'
<1> DEFINE f == frames[i]
           rows == Covering(f.shift, Head(f.blocks))
<1>1. /\ f.pc = "next" /\ f \in Frame /\ CutOK(P, shifts, f) /\ f.op = "blocks"
      /\ f.shift \in DOMAIN shifts /\ TilesOK(P, shifts, f)
      /\ shifts' = shifts /\ present' = present
  BY SplitFrame DEF NextBlock, FrameOK, OpAtPc
<1>2. CASE Done(i) \/ ToAudit(i, "shift.assigned", f.shift)
  <2>1. frames'[i].op \notin Splits \/ frames'[i].pc = "audit"
    BY <1>2, Ends DEF ToAudit
  <2> QED  BY <1>1, <2>1, KeepsSame, CalmStep
<1>3. ASSUME f.blocks # <<>>, NEW x \in rows,
             Goto(i, [f EXCEPT !.pc = "split", !.row = x])
      PROVE  TileInv(P)'
  <2> PICK g : g = [f EXCEPT !.pc = "split", !.row = x]
    OBVIOUS
  <2>1. /\ g.pc = "split" /\ g.op = f.op /\ g.worker = f.worker
        /\ g.blocks = f.blocks /\ g.row = x
    BY <1>1 DEF Frame
  <2>2. 1 \in DOMAIN f.blocks /\ Head(f.blocks) = f.blocks[1]
    BY <1>1, <1>3 DEF Frame
  <2>3. IsCell(P, Head(f.blocks))
    BY <1>1, <2>2 DEF CutOK
  <2>4. /\ x \in DOMAIN shifts /\ shifts[x].start <= Head(f.blocks)[1]
        /\ Head(f.blocks)[1] < shifts[x].end
    BY DEF Covering
  <2>5. GroupIn(shifts, x) \in Roots => Fits(P, Head(f.blocks), shifts[x])
    BY <1>1, <2>3, <2>4, CellFits
  <2>6. CutOK(P, shifts, g)
    BY <1>1, <2>1, <2>5 DEF CutOK, Cutting
  <2> QED  BY <1>1, <1>3, <2>1, <2>6, SplitGoesOn DEF Goto
<1>4. \/ Done(i) \/ ToAudit(i, "shift.assigned", f.shift)
      \/ /\ f.blocks # <<>>
         /\ \E x \in rows : Goto(i, [f EXCEPT !.pc = "split", !.row = x])
  BY Zenon DEF NextBlock
<1> QED  BY <1>2, <1>3, <1>4

LEMMA SplitReadTiles ==
  ASSUME Serial, Inv, Inv', NEW P, TileInv(P), NEW i \in Slots,
         frames[i].op \in Splits, SplitRead(i)
  PROVE  TileInv(P)'
<1> DEFINE f == frames[i]
           row == shifts[f.row]
           b == Head(f.blocks)
<1>1. /\ f.pc = "split" /\ f \in Frame /\ CutOK(P, shifts, f)
      /\ TilesOK(P, shifts, f) /\ f.worker \in present
      /\ shifts' = shifts /\ present' = present
  BY SplitFrame DEF SplitRead
<1> PICK g : g = [f EXCEPT !.pc = IF b[2] # row.end THEN "tail"
                                  ELSE HeadOrPut(b, row),
                           !.seen = [start |-> row.start, end |-> row.end,
                                     group |-> Group(f.row)]]
  OBVIOUS
<1>2. /\ g.pc = IF b[2] # row.end THEN "tail" ELSE HeadOrPut(b, row)
      /\ g.seen.start = row.start
      /\ g.op = f.op /\ g.worker = f.worker /\ g.blocks = f.blocks /\ g.row = f.row
  BY <1>1 DEF Frame
<1>3. frames' = [frames EXCEPT ![i] = g] /\ frames'[i] = g
  BY DEF SplitRead, Goto, Inv, FramesOK
<1>4. Here(frames[i])'
  BY <1>1, <1>2, <1>3 DEF Here
<1>5. CutOK(P, shifts', g)
  BY <1>1, <1>2 DEF CutOK, Cutting, HeadOrPut
<1>6. \A s \in DOMAIN shifts : View(shifts', g)[s] = View(shifts, f)[s]
  BY <1>1, <1>2 DEF View, HeadOrPut
<1>7. TilesOK(P, shifts', g)
  BY <1>1, <1>6, SameTable, SameTiles
<1> QED  BY <1>3, <1>4, <1>5, <1>7, TileBy

\* The row inserted for what is left of f.row.
LEMMA RemainderRow ==
  ASSUME Inv, NEW f, f.row \in DOMAIN shifts, f.seen.group \in ShiftIds,
         f.seen.group = GroupIn(shifts, f.row), NEW x, NEW y,
         NEW id \in FreeShiftIds, shifts' = Insert(shifts, id, Remainder(f, x, y))
  PROVE  /\ shifts'[id].start = x /\ shifts'[id].end = y
         /\ GroupIn(shifts', id) = GroupIn(shifts, f.row)
         /\ id \notin DOMAIN shifts /\ DOMAIN shifts' = DOMAIN shifts \cup {id}
         /\ \A s \in DOMAIN shifts : shifts'[s] = shifts[s]
         /\ Grows(shifts, shifts')
<1>1. shifts[f.row] \in Row
  BY DEF Inv, TableOK
<1>2. /\ Remainder(f, x, y).start = x /\ Remainder(f, x, y).end = y
      /\ Remainder(f, x, y).parent = f.seen.group
  BY <1>1 DEF Remainder, Row
<1>3. /\ id \notin DOMAIN shifts /\ DOMAIN shifts' = DOMAIN shifts \cup {id}
      /\ shifts'[id] = Remainder(f, x, y)
      /\ \A s \in DOMAIN shifts : shifts'[s] = shifts[s]
  BY DEF Insert, FreeShiftIds
<1> QED  BY <1>2, <1>3, NullIsNothing DEF GroupIn, Grows

LEMMA SplitTailTiles ==
  ASSUME Serial, Inv, Inv', NEW P, OnGrid(P), TileInv(P), NEW i \in Slots,
         frames[i].op \in Splits, SplitTail(i)
  PROVE  TileInv(P)'
<1> DEFINE f == frames[i]
           row == shifts[f.row]
           b == Head(f.blocks)
<1>1. /\ f.pc = "tail" /\ f \in Frame /\ CutOK(P, shifts, f)
      /\ TilesOK(P, shifts, f) /\ f.worker \in present /\ f.row \in DOMAIN shifts
      /\ f.seen.group \in ShiftIds /\ f.seen.group = GroupIn(shifts, f.row)
      /\ TableOK(shifts) /\ present' = present
  BY SplitFrame DEF SplitTail, FrameOK
<1>2. CASE shifts' = shifts /\ Done(i)
  BY <1>1, <1>2, KeepsSame, CalmStep DEF Done, Goto, Idle, Splits, Inv, FramesOK
<1>3. ASSUME NEW id \in FreeShiftIds,
             shifts' = Insert(shifts, id, Remainder(f, b[2], row.end)),
             Goto(i, [f EXCEPT !.pc = HeadOrPut(b, f.seen)])
      PROVE  TileInv(P)'
  <2> PICK g : g = [f EXCEPT !.pc = HeadOrPut(b, f.seen)]
    OBVIOUS
  <2>1. /\ g.pc = IF b[1] # f.seen.start THEN "head" ELSE "put"
        /\ g.op = f.op /\ g.worker = f.worker /\ g.blocks = f.blocks
        /\ g.row = f.row
    BY <1>1 DEF Frame, HeadOrPut
  <2>2. frames'[i] = g
    BY <1>3 DEF Goto, Inv, FramesOK
  <2>3. Here(frames[i])'
    BY <1>1, <2>1, <2>2 DEF Here
  <2>4. /\ shifts'[id].start = b[2] /\ shifts'[id].end = row.end
        /\ GroupIn(shifts', id) = GroupIn(shifts, f.row)
        /\ id \notin DOMAIN shifts /\ DOMAIN shifts' = DOMAIN shifts \cup {id}
        /\ \A s \in DOMAIN shifts : shifts'[s] = shifts[s]
        /\ Grows(shifts, shifts')
    BY <1>1, <1>3, RemainderRow
  <2>5. f.seen.start = row.start /\ b[2] # row.end
    BY <1>1 DEF CutOK
  <2>6. CutOK(P, shifts', g)
    BY <1>1, <2>1, <2>4, <2>5 DEF CutOK, Cutting, Grows
  <2>7. /\ \A y \in DOMAIN shifts \ {f.row} :
             View(shifts', g)[y] = View(shifts, f)[y]
        /\ View(shifts, f)[f.row] = [start |-> row.start, end |-> row.end]
        /\ View(shifts', g)[f.row] = [start |-> row.start, end |-> b[2]]
        /\ View(shifts', g)[id] = [start |-> b[2], end |-> row.end]
    BY <1>1, <2>1, <2>4, <2>5 DEF View
  <2>8. GroupIn(shifts, f.row) \in Roots =>
          /\ b[2] \in P /\ row.start < b[2] /\ b[2] < row.end
    <3>1. b[1] \in Int /\ b[2] \in Int /\ row.start \in Int /\ row.end \in Int
      BY <1>1, SplitFrame DEF Frame, Block, TableOK, Row, FrameOK
    <3> QED  BY <1>1, <2>5, <3>1 DEF CutOK, Cutting, Fits
  <2>9. InitShifts \in [Roots -> Row]
    BY InputsOK DEF Roots
  <2>10. TilesOK(P, shifts', g)
    BY <1>1, <2>4, <2>7, <2>8, <2>9, CutTiles
  <2> QED  BY <2>2, <2>3, <2>6, <2>10, TileBy
<1> QED  BY <1>2, <1>3 DEF SplitTail

LEMMA SplitHeadTiles ==
  ASSUME Serial, Inv, Inv', NEW P, OnGrid(P), TileInv(P), RowsFit, NEW i \in Slots,
         frames[i].op \in Splits, SplitHead(i)
  PROVE  TileInv(P)'
<1> DEFINE f == frames[i]
           row == shifts[f.row]
           b == Head(f.blocks)
<1>1. /\ f.pc = "head" /\ f \in Frame /\ CutOK(P, shifts, f)
      /\ TilesOK(P, shifts, f) /\ f.worker \in present /\ f.row \in DOMAIN shifts
      /\ f.seen.group \in ShiftIds /\ f.seen.group = GroupIn(shifts, f.row)
      /\ TableOK(shifts) /\ present' = present
  BY SplitFrame DEF SplitHead, FrameOK
<1>2. PICK id \in FreeShiftIds :
        /\ shifts' = Insert(shifts, id, Remainder(f, row.start, b[1]))
        /\ Goto(i, [f EXCEPT !.pc = "put"])
  BY <1>1 DEF SplitHead, RowsFit
<1> PICK g : g = [f EXCEPT !.pc = "put"]
  OBVIOUS
<1>3. /\ g.pc = "put" /\ g.op = f.op /\ g.worker = f.worker
      /\ g.blocks = f.blocks /\ g.row = f.row
  BY <1>1 DEF Frame
<1>4. frames'[i] = g
  BY <1>2 DEF Goto, Inv, FramesOK
<1>5. Here(frames[i])'
  BY <1>1, <1>3, <1>4 DEF Here
<1>6. /\ shifts'[id].start = row.start /\ shifts'[id].end = b[1]
      /\ GroupIn(shifts', id) = GroupIn(shifts, f.row)
      /\ id \notin DOMAIN shifts /\ DOMAIN shifts' = DOMAIN shifts \cup {id}
      /\ \A s \in DOMAIN shifts : shifts'[s] = shifts[s]
      /\ Grows(shifts, shifts')
  BY <1>1, <1>2, RemainderRow
<1>7. b[1] # row.start
  BY <1>1 DEF CutOK
<1>8. CutOK(P, shifts', g)
  BY <1>1, <1>3, <1>6 DEF CutOK, Cutting, Grows
<1>9. /\ \A y \in DOMAIN shifts \ {f.row} :
           View(shifts', g)[y] = View(shifts, f)[y]
      /\ View(shifts, f)[f.row] = [start |-> row.start, end |-> b[2]]
      /\ View(shifts', g)[f.row] = [start |-> b[1], end |-> b[2]]
      /\ View(shifts', g)[id] = [start |-> row.start, end |-> b[1]]
  BY <1>1, <1>3, <1>6 DEF View
<1>10. GroupIn(shifts, f.row) \in Roots =>
         /\ b[1] \in P /\ row.start < b[1] /\ b[1] < b[2]
  <2>1. b[1] \in Int /\ b[2] \in Int /\ row.start \in Int /\ row.end \in Int
    BY <1>1, SplitFrame DEF Frame, Block, TableOK, Row, FrameOK
  <2> QED  BY <1>1, <1>7, <2>1 DEF CutOK, Cutting, Fits
<1>11. InitShifts \in [Roots -> Row]
  BY InputsOK DEF Roots
<1>12. TilesOK(P, shifts', g)
  BY <1>1, <1>6, <1>9, <1>10, <1>11, CutTiles
<1> QED  BY <1>4, <1>5, <1>8, <1>12, TileBy

LEMMA SplitPutTiles ==
  ASSUME Serial, Inv, Inv', NEW P, OnGrid(P), TileInv(P), NEW i \in Slots,
         frames[i].op \in Splits, SplitPut(i)
  PROVE  TileInv(P)'
<1> DEFINE f == frames[i]
           b == Head(f.blocks)
<1>1. /\ f.pc = "put" /\ f \in Frame /\ CutOK(P, shifts, f)
      /\ TilesOK(P, shifts, f) /\ f.worker \in present /\ f.row \in DOMAIN shifts
      /\ f.seen.group \in ShiftIds /\ f.seen.group = GroupIn(shifts, f.row)
      /\ f.blocks # <<>> /\ shifts \in [DOMAIN shifts -> Row] /\ present' = present
  BY SplitFrame DEF SplitPut, FrameOK, TableOK
<1>2. PICK row :
        /\ row = [shifts[f.row] EXCEPT !.status = "assigned", !.worker = f.worker,
                                       !.start = b[1], !.end = b[2],
                                       !.parent = f.seen.group]
        /\ shifts' = [shifts EXCEPT ![f.row] = row]
  BY <1>1, Zenon DEF SplitPut
<1>3. row.start = b[1] /\ row.end = b[2] /\ row.parent = f.seen.group
  BY <1>1, <1>2 DEF Row
<1>4. /\ DOMAIN shifts' = DOMAIN shifts /\ shifts'[f.row] = row
      /\ \A s \in DOMAIN shifts \ {f.row} : shifts'[s] = shifts[s]
  BY <1>1, <1>2
<1>5. Grows(shifts, shifts')
  BY <1>1, <1>3, <1>4, NullIsNothing DEF Grows, GroupIn
<1>6. ASSUME NEW g, frames'[i] = g, g.pc \notin {"head", "put"}
      PROVE  TilesOK(P, shifts', frames'[i])
  <2>1. \A s \in DOMAIN shifts : View(shifts', g)[s] = View(shifts, f)[s]
    BY <1>1, <1>3, <1>4, <1>6 DEF View
  <2> QED  BY <1>1, <1>4, <1>5, <1>6, <2>1, SameTiles
<1>7. CASE f.op = "assign"
  <2>1. ToAudit(i, "shift.assigned", f.shift)
    BY <1>1, <1>7 DEF SplitPut
  <2>2. frames'[i].pc = "audit"
    BY <2>1 DEF ToAudit, Goto, Idle, Inv, FramesOK
  <2> QED  BY <1>6, <2>2, NoCut, TileBy
<1>8. CASE f.op = "blocks"
  <2>1. PICK g : /\ g = [f EXCEPT !.pc = "next", !.blocks = Tail(@),
                                  !.row = NULL, !.seen = NULL]
                 /\ frames' = [frames EXCEPT ![i] = g]
    BY <1>1, <1>8, Zenon DEF SplitPut, Goto
  <2>2. /\ g.pc = "next" /\ g.op = "blocks" /\ g.worker = f.worker
        /\ g.blocks = Tail(f.blocks)
    BY <1>1, <1>8, <2>1 DEF Frame
  <2>3. frames'[i] = g
    BY <2>1 DEF Inv, FramesOK
  <2>4. Here(frames[i])'
    BY <1>1, <2>2, <2>3 DEF Here
  <2>5. \A k \in DOMAIN g.blocks : /\ k + 1 \in DOMAIN f.blocks
                                   /\ g.blocks[k] = f.blocks[k + 1]
    BY <1>1, <2>2 DEF Frame
  <2>6. \A k \in DOMAIN g.blocks : IsCell(P, g.blocks[k])
    BY <1>1, <1>8, <2>5 DEF CutOK
  <2>7. CutOK(P, shifts', g)
    BY <2>2, <2>6 DEF CutOK, Cutting
  <2> QED  BY <1>6, <2>2, <2>3, <2>4, <2>7, TileBy
<1> QED  BY <1>7, <1>8 DEF Splits

LEMMA ContinueTiles ==
  ASSUME Serial, Inv, Inv', NEW P, OnGrid(P), TileInv(P), RowsFit,
         NEW i \in Slots, Continue(i)
  PROVE  TileInv(P)'
<1> DEFINE f == frames[i]
<1>1. CASE f.op \notin Splits
  BY <1>1, OthersTile
<1>2. CASE f.op \in Splits /\ (FileOverflow(i) \/ LogAudit(i))
  <2>1. \/ Done(i)
        \/ \E op, w, r, n : Goto(i, [Idle EXCEPT !.pc = "audit", !.op = op,
                                     !.worker = w, !.req = r, !.note = n])
    BY <1>2, Zenon DEF FileOverflow, LogAudit
  <2>2. shifts' = shifts /\ f.pc \in {"overflow", "audit"}
    BY <1>2 DEF FileOverflow, LogAudit
  <2> QED  BY <2>1, <2>2, Ends, KeepsSame, CalmStep
<1>3. OpAtPc(f.op, f.pc) /\ P \subseteq Int
  BY DEF Inv, FramesOK, FrameOK, OnGrid
<1>4. f.op \in Splits =>
        \/ ReadSettings(i) \/ ReadHours(i) \/ NextBlock(i) \/ SplitRead(i)
        \/ SplitTail(i) \/ SplitHead(i) \/ SplitPut(i)
        \/ FileOverflow(i) \/ LogAudit(i)
  BY <1>3 DEF Continue, TakeOpen, ApproveRelease, ApproveRead, ApproveDeny,
     ApproveFinish, InsertMiss, InsertTemplate, GenerateShift, OpAtPc, Splits
<1> QED
  BY <1>1, <1>2, <1>3, <1>4, ReadSettingsTiles, ReadHoursTiles, NextBlockTiles,
     SplitReadTiles, SplitTailTiles, SplitHeadTiles, SplitPutTiles

\* A manager's request to give out a block of a row, or a list of blocks.
LEMMA AssignTiles ==
  ASSUME Serial, Inv, Inv', NEW P, OnGrid(P), TileInv(P), NEW i \in Slots,
         NEW m \in Managers, NEW s \in DOMAIN shifts, NEW w \in Workers,
         Assign(i, m, s, w)
  PROVE  TileInv(P)'
<1>1. /\ frames[i] = Idle /\ w \in present /\ shifts' = shifts
      /\ present' = present /\ TilesOK(P, shifts, frames[i])
  BY DEF Assign, Start, WorkerInScope, TileInv
<1> DEFINE whole == Head(Whole(s))
<1>2. whole[1] = shifts[s].start /\ whole[2] = shifts[s].end
  BY DEF Whole
<1>3. PICK b \in AssignBlocks \cup {whole} :
        /\ whole[1] <= b[1] /\ b[1] < b[2] /\ b[2] <= whole[2]
        /\ Start(i, [Idle EXCEPT !.pc = "settings", !.op = "assign", !.worker = w,
                                 !.shift = s, !.row = s, !.day = shifts[s].day,
                                 !.blocks = <<b>>])
  BY Zenon DEF Assign
<1> PICK g : g = [Idle EXCEPT !.pc = "settings", !.op = "assign", !.worker = w,
                              !.shift = s, !.row = s, !.day = shifts[s].day,
                              !.blocks = <<b>>]
  OBVIOUS
<1>4. /\ g.pc = "settings" /\ g.op = "assign" /\ g.worker = w /\ g.row = s
      /\ g.blocks = <<b>>
  BY DEF Idle
<1>5. frames'[i] = g
  BY <1>3 DEF Start, Inv, FramesOK
<1>6. Idle.pc = "idle"
  BY DEF Idle
<1>7. GroupIn(shifts, s) \in Roots => Fits(P, b, shifts[s])
  <2>1. GroupIn(shifts, s) \in Roots =>
          shifts[s].start \in P /\ shifts[s].end \in P
    BY <1>1, <1>6, RowOnGrid
  <2> QED  BY <1>2, <1>3, <2>1 DEF Fits, OnGrid
<1>8. CutOK(P, shifts', g)
  BY <1>1, <1>4, <1>7 DEF CutOK, Cutting
<1>9. TilesOK(P, shifts', g)
  BY <1>1, <1>4, <1>6, KeepsSame, CalmTiles
<1>10. Here(frames[i])'
  BY <1>1, <1>4, <1>5 DEF Here
<1> QED  BY <1>5, <1>8, <1>9, <1>10, TileBy

LEMMA AssignListTiles ==
  ASSUME Serial, Inv, Inv', NEW P, OnGrid(P), TileInv(P), NEW i \in Slots,
         NEW m \in Managers, NEW s \in DOMAIN shifts, NEW w \in Workers,
         NEW bs \in BlockLists, AssignList(i, m, s, w, bs)
  PROVE  TileInv(P)'
<1>1. /\ frames[i] = Idle /\ w \in present /\ shifts' = shifts
      /\ present' = present /\ TilesOK(P, shifts, frames[i])
      /\ \A k \in DOMAIN bs : bs[k][1] < bs[k][2]
  BY DEF AssignList, Start, WorkerInScope, TileInv
<1> PICK g : g = [Idle EXCEPT !.pc = "settings", !.op = "blocks", !.worker = w,
                              !.shift = s, !.day = shifts[s].day, !.blocks = bs]
  OBVIOUS
<1>2. g.pc = "settings" /\ g.op = "blocks" /\ g.worker = w /\ g.blocks = bs
  BY DEF Idle
<1>3. frames'[i] = g
  BY DEF AssignList, Start, Inv, FramesOK
<1>4. \A k \in DOMAIN bs : IsCell(P, bs[k])
  BY <1>1 DEF OnGrid, IsCell
<1>5. CutOK(P, shifts', g)
  BY <1>2, <1>4 DEF CutOK, Cutting
<1>6. Idle.pc = "idle"
  BY DEF Idle
<1>7. TilesOK(P, shifts', g)
  BY <1>1, <1>2, <1>6, KeepsSame, CalmTiles
<1>8. Here(frames[i])'
  BY <1>1, <1>2, <1>3 DEF Here
<1> QED  BY <1>3, <1>5, <1>7, <1>8, TileBy

LEMMA ArriveTiles ==
  ASSUME Serial, Inv, Inv', NEW P, OnGrid(P), TileInv(P), NEW i \in Slots, Arrive(i)
  PROVE  TileInv(P)'
<1>1. CASE frames'[i].op \notin Splits
  <2>1. frames[i] = Idle /\ Idle.pc = "idle"
    BY DEF Arrive, Pick, RequestMiss, RequestOverflow, Cancel, Deny, Close,
       Approve, Unassign, Assign, AssignList, AddWeekly, Start, Idle
  <2>2. \/ shifts' = shifts
        \/ \E s \in DOMAIN shifts : shifts' = [shifts EXCEPT ![s] = Released(@)]
    BY ZenonT(60) DEF Arrive, Pick, RequestMiss, RequestOverflow, Cancel, Deny,
       Close, Approve, Unassign, Assign, AssignList, AddWeekly
  <2>3. Keeps(shifts, shifts')
    BY <2>2, KeepsSame, KeepsHolder
  <2> QED  BY <1>1, <2>1, <2>3, CalmStep
<1>2. CASE frames'[i].op \in Splits
  BY <1>2, OpOfArrival, AssignTiles, AssignListTiles DEF Splits
<1> QED  BY <1>1, <1>2

LEMMA NextTiles ==
  ASSUME Serial, ~MayAbort, NEW P, OnGrid(P), Inv, Inv', TileInv(P), RowsFit,
         [Next]_vars
  PROVE  TileInv(P)'
<1>1. CASE UNCHANGED vars
  BY <1>1 DEF vars, TileInv, Here
<1>2. CASE \E i \in Slots : Continue(i) \/ Arrive(i)
  BY <1>2, ContinueTiles, ArriveTiles
<1>3. CASE SlotFree /\ frames' = frames /\ Keeps(shifts, shifts')
  <2>1. PICK i \in Slots : frames[i] = Idle
    BY <1>3 DEF SlotFree
  <2>2. Idle.op = "none" /\ Idle.pc = "idle"
    BY DEF Idle
  <2> QED  BY <1>3, <2>1, <2>2, CalmStep DEF Splits
<1>4. ASSUME NEW m \in Managers, NEW n \in NewShifts, CreateShift(m, n)
      PROVE  Keeps(shifts, shifts')
  BY <1>4, KeepsInsert DEF CreateShift
<1>5. ASSUME NEW w, DeleteUser(w)
      PROVE  Keeps(shifts, shifts')
  BY <1>5 DEF DeleteUser, Keeps, Inv, TableOK, Row
<1> QED
  BY <1>1, <1>2, <1>3, <1>4, <1>5, KeepsSame DEF Next, Abort, CreateShift,
     SetWorkerDetails, DeleteUser

LEMMA InitTiles == ASSUME NEW P, OnGrid(P), Init PROVE TileInv(P)
<1> SUFFICES ASSUME NEW i \in Slots, NEW g \in Roots
             PROVE  /\ g \in DOMAIN shifts /\ GroupIn(shifts, g) = g
                    /\ Tiled(P, View(shifts, Idle), Pieces(shifts, g), InitShifts[g])
                    /\ CutOK(P, shifts, Idle) /\ Here(Idle)
  BY DEF Init, TileInv, TilesOK, CutOK, Here, Idle, Cutting, Splits
<1>1. shifts = InitShifts /\ \A s \in Roots : GroupIn(shifts, s) = s
  BY DEF Init, OnGrid, GroupIn, Roots
<1>2. Pieces(shifts, g) = {g}
  BY <1>1 DEF Pieces, Roots
<1>3. View(shifts, Idle)[g] = [start |-> shifts[g].start, end |-> shifts[g].end]
  BY <1>1 DEF View, Idle, Roots
<1>4. InitShifts[g].start \in Int /\ InitShifts[g].end \in Int
  BY InputsOK DEF Roots, Row
<1>5. Tiled(P, View(shifts, Idle), {g}, InitShifts[g])
  BY <1>1, <1>3, <1>4 DEF Tiled, OnGrid
<1> QED  BY <1>1, <1>2, <1>5 DEF CutOK, Here, Idle, Cutting, Splits, Roots

\* Between handlers, tiles are pieces.
LEMMA TilesShow ==
  ASSUME Serial, NEW P, OnGrid(P), Inv, TileInv(P)
  PROVE  SplitsTileTheShift
<1> SUFFICES ASSUME Quiet, NEW g \in Roots
             PROVE  LET pieces == {s \in DOMAIN shifts : s = g \/ shifts[s].parent = g}
                    IN  /\ \A s \in pieces :
                             /\ Covers(shifts[s]) # {}
                             /\ Covers(shifts[s]) \subseteq Covers(InitShifts[g])
                        /\ \A h \in Covers(InitShifts[g]) :
                             Cardinality({s \in pieces : h \in Covers(shifts[s])}) = 1
  BY DEF SplitsTileTheShift, Roots
<1> DEFINE pieces == {s \in DOMAIN shifts : s = g \/ shifts[s].parent = g}
           v == View(shifts, Idle)
           whole == InitShifts[g]
<1>1. g \in DOMAIN shifts /\ GroupIn(shifts, g) = g
      /\ Tiled(P, v, Pieces(shifts, g), whole)
  BY DEF Serial, Quiet, TileInv, TilesOK
<1>2. Pieces(shifts, g) = pieces
  <2>1. g # NULL
    BY InputsOK, NullIsNothing DEF Roots
  <2> QED  BY <1>1, <2>1 DEF Pieces, GroupIn
<1>3. \A s \in DOMAIN shifts : /\ v[s].start = shifts[s].start
                               /\ v[s].end = shifts[s].end
                               /\ shifts[s].start \in Int /\ shifts[s].end \in Int
  BY DEF View, Idle, Inv, TableOK, Row
<1>4. whole.start \in Int /\ whole.end \in Int
  BY InputsOK DEF Roots, Row
<1> HIDE DEF v, whole
<1>5. ASSUME NEW s \in pieces
      PROVE  /\ Covers(shifts[s]) # {}
             /\ Covers(shifts[s]) \subseteq Covers(whole)
  <2>1. /\ whole.start <= shifts[s].start /\ shifts[s].start < shifts[s].end
        /\ shifts[s].end <= whole.end
    BY <1>1, <1>2, <1>3 DEF Tiled
  <2>2. shifts[s].start \in Covers(shifts[s])
    BY <1>3, <2>1 DEF Covers
  <2> QED  BY <1>3, <1>4, <2>1, <2>2 DEF Covers
<1>6. ASSUME NEW h \in Covers(whole)
      PROVE  Cardinality({s \in pieces : h \in Covers(shifts[s])}) = 1
  <2>1. h \in whole.start .. whole.end - 1
    BY DEF Covers
  <2>2. PICK s \in pieces : v[s].start <= h /\ h < v[s].end
    BY <1>1, <1>2, <2>1 DEF Tiled
  <2>3. h \in Int
    BY <1>4, <2>1
  <2>4. \A t \in pieces : h \in Covers(shifts[t]) <=>
                            v[t].start <= h /\ h < v[t].end
    BY <1>3, <2>3 DEF Covers
  <2>5. \A t \in pieces : v[t].start <= h /\ h < v[t].end => t = s
    <3>1. SUFFICES ASSUME NEW t \in pieces, v[t].start <= h, h < v[t].end, t # s
                   PROVE  FALSE
      OBVIOUS
    <3>2. v[s].end <= v[t].start \/ v[t].end <= v[s].start
      BY <1>1, <1>2, <3>1 DEF Tiled
    <3> QED  BY <1>3, <2>2, <2>3, <3>1, <3>2
  <2>6. {t \in pieces : h \in Covers(shifts[t])} = {s}
    BY <2>2, <2>4, <2>5
  <2> QED  BY <2>6, FS_Singleton
<1> QED  BY <1>5, <1>6 DEF whole

\* While handlers run one at a time and none is cut short, the rows of a group
\* are, between handlers, the original shift cut into pieces, each hour in
\* one of them (assignBlockToRow).  P is the grid the client cuts on.
THEOREM SplitsAlwaysTile ==
  ASSUME Serial, ~MayAbort, NEW P, OnGrid(P)
  PROVE  Spec /\ []RowsFit => []SplitsTileTheShift
<1>1. Init => TileInv(P)
  BY InitTiles
<1>2. Inv /\ Inv' /\ TileInv(P) /\ RowsFit /\ [Next]_vars => TileInv(P)'
  BY NextTiles
<1>3. Inv /\ TileInv(P) => SplitsTileTheShift
  BY TilesShow
<1> QED  BY <1>1, <1>2, <1>3, InvHolds, PTL DEF Spec
=============================================================================
