--------------------------- MODULE AccountsProofs ---------------------------
(***************************************************************************)
(* Theorems about Accounts for any number of requests at a time, of        *)
(* accounts, random values and devices, and any limits: the tables keep    *)
(* their types, every link and code that would work has been sent, nobody  *)
(* is stuck between the gates, and the gates hold although they look at a  *)
(* row read some statements earlier.                                       *)
(***************************************************************************)
EXTENDS Accounts, FiniteSetTheorems, TLAPS

-----------------------------------------------------------------------------
(***************************************************************************)
(* The inductive invariant.                                                *)
(***************************************************************************)
Committing == {"commit signup", "commit link", "commit reset"}
OnAccount  == Pcs \ {"idle", "lock", "count"}
OnDraw     == Committing \cup {"verify", "reset", "mail password", "send",
                               "wrong", "use", "trust"}
OnToken    == {"wrong", "use", "trust", "recode"}

\* What a handler's local variables hold at each statement; `top` is ids.
FrameOK(f, top) ==
  /\ f.pc \in OnAccount \/ f.right => f.id \in Ids
  /\ f.pc \in OnDraw => f.n \in Draws
  /\ f.pc \in OnToken => f.token \in Draws
  /\ f.pc = "trust" => f.device \in Devices
  /\ f.id <= top

FramesOK == \A i \in Handlers : FrameOK(frames[i], ids)

\* An id is never used again.
IdsOK == \A id \in DOMAIN db.users \cup db.profiles \cup db.preferred :
           id <= ids

\* login_codes.user_id REFERENCES users.
CodesOwned == \A t \in DOMAIN db.codes : db.codes[t].user \in DOMAIN db.users

\* A signup that has not committed is alone: there is no account, and nobody
\* else knows the id of its.
SignupOK ==
  \A i \in Handlers : Is(i, "commit signup") =>
    /\ DOMAIN db.users = {}
    /\ \A k \in Handlers \ {i} : /\ ~Is(k, "commit signup")
                                 /\ frames[k].id # frames[i].id

\* The account has been through each of the gates.  One that was let through to
\* addPreference still has.
Passed(id) ==
  /\ id \in db.profiles
  /\ db.users[id].password[1] # "given"
  /\ VerificationRequired => db.users[id].verified \/ id \in ghost.unmarked

PassedGates ==
  /\ db.preferred \subseteq DOMAIN db.users
  /\ \A i \in Handlers : Is(i, "prefer") /\ frames[i].id \in DOMAIN db.users =>
       Passed(frames[i].id)

\* What OnboardingIsPossible says of the stored rows.
Passwords ==
  \A id \in DOMAIN db.users :
    LET u == db.users[id]
        n == u.password[2]
    IN  /\ u.must <=> u.password # Own
        /\ u.password[1] = "drawn" =>
             \/ <<"password", n>> \in db.mails \cup ghost.lost
             \/ InFlight("mail password", n)

Control == TypeOK /\ FramesOK /\ IdsOK /\ CodesOwned /\ SignupOK

Inv == Control /\ PassedGates /\ GatesHold /\ LinksAreMailed /\ Passwords
       /\ CurrentCodeIsSent

-----------------------------------------------------------------------------
(***************************************************************************)
(* Lemmas about frames and tables.                                         *)
(***************************************************************************)
LEMMA Bounds == MaxIds \in Nat /\ MaxDraws \in Nat
BY AccountAssumption

LEMMA NoneIsNothing == 0 \notin Ids /\ None \notin Draws
BY Bounds DEF Ids, Draws, None

LEMMA IdleFrame ==
  /\ Idle \in Frame /\ Idle.pc = "idle" /\ Idle.id = 0 /\ ~Idle.right
  /\ \A top \in Nat : FrameOK(Idle, top)
BY Bounds DEF Idle, Frame, Keys, None, Pcs, FrameOK, OnAccount, OnDraw,
              OnToken, Committing

LEMMA AtFrame ==
  ASSUME NEW pc \in Pcs, NEW id \in Keys, NEW n \in 0..MaxDraws
  PROVE  /\ At(pc, id, n) \in Frame
         /\ At(pc, id, n).pc = pc /\ At(pc, id, n).id = id
         /\ At(pc, id, n).n = n /\ ~At(pc, id, n).right
<1>1. Idle \in Frame
  BY IdleFrame
<1>2. At(pc, id, n) \in Frame
  BY <1>1 DEF At, Frame
<1> QED  BY <1>2 DEF At, Idle

\* An assignment to one field keeps the type.
LEMMA FrameFields ==
  ASSUME NEW f \in Frame
  PROVE  /\ \A x \in Pcs : [f EXCEPT !.pc = x] \in Frame
         /\ \A x \in 0..MaxDraws : [f EXCEPT !.token = x] \in Frame
         /\ \A x \in BOOLEAN : [f EXCEPT !.right = x] \in Frame
         /\ \A x \in BOOLEAN : [f EXCEPT !.verified = x] \in Frame
         /\ \A x \in Devices \cup {None} : [f EXCEPT !.device = x] \in Frame
BY DEF Frame

LEMMA GhostFields ==
  ASSUME NEW g \in Ghost
  PROVE  /\ \A x \in SUBSET Mail : [g EXCEPT !.lost = x] \in Ghost
         /\ \A n \in Draws : [g EXCEPT !.uses[n] = @ + 1] \in Ghost
         /\ \A x \in SUBSET Ids : [g EXCEPT !.unmarked = x] \in Ghost
         /\ \A k \in Keys, x \in Nat : [g EXCEPT !.overrun[k] = x] \in Ghost
<1>1. ASSUME NEW n \in Draws PROVE [g EXCEPT !.uses[n] = @ + 1] \in Ghost
  BY DEF Ghost
<1>2. ASSUME NEW k \in Keys, NEW x \in Nat
      PROVE  [g EXCEPT !.overrun[k] = x] \in Ghost
  BY DEF Ghost
<1>3. /\ \A x \in SUBSET Mail : [g EXCEPT !.lost = x] \in Ghost
      /\ \A x \in SUBSET Ids : [g EXCEPT !.unmarked = x] \in Ghost
  BY DEF Ghost
<1> QED  BY <1>1, <1>2, <1>3

\* The tables after a change of one of them.
Rest(d) == <<d.preferred, d.devices, d.attempts>>

LEMMA UsersChange ==
  ASSUME TypeOK, NEW v, v \in [DOMAIN v -> User], DOMAIN v \subseteq Ids,
         db' = [db EXCEPT !.users = v]
  PROVE  /\ db' \in Tables(db') /\ DOMAIN db'.users \subseteq Ids
         /\ DOMAIN db'.codes \subseteq Draws
         /\ db'.users = v /\ db'.profiles = db.profiles
         /\ db'.preferred = db.preferred /\ db'.codes = db.codes
         /\ db'.mails = db.mails /\ db'.attempts = db.attempts
BY DEF TypeOK, Tables

LEMMA CodesChange ==
  ASSUME TypeOK, NEW v, v \in [DOMAIN v -> Login], DOMAIN v \subseteq Draws,
         db' = [db EXCEPT !.codes = v]
  PROVE  /\ db' \in Tables(db') /\ DOMAIN db'.users \subseteq Ids
         /\ DOMAIN db'.codes \subseteq Draws
         /\ db'.users = db.users /\ db'.profiles = db.profiles
         /\ db'.preferred = db.preferred /\ db'.codes = v
         /\ db'.mails = db.mails /\ db'.attempts = db.attempts
BY DEF TypeOK, Tables

LEMMA MailsChange ==
  ASSUME TypeOK, NEW kind \in {"verify", "reset", "password", "code"},
         NEW n \in Draws, db' = Sent(db, kind, n)
  PROVE  /\ db' \in Tables(db') /\ DOMAIN db'.users \subseteq Ids
         /\ DOMAIN db'.codes \subseteq Draws
         /\ db'.users = db.users /\ db'.profiles = db.profiles
         /\ db'.preferred = db.preferred /\ db'.codes = db.codes
         /\ db'.mails = db.mails \cup {<<kind, n>>}
         /\ db'.attempts = db.attempts
BY DEF TypeOK, Tables, Sent, Mail

LEMMA UsersAndMailsChange ==
  ASSUME TypeOK, NEW v, v \in [DOMAIN v -> User], DOMAIN v \subseteq Ids,
         NEW m \in Mail,
         db' = [[db EXCEPT !.users = v] EXCEPT !.mails = @ \cup {m}]
  PROVE  /\ db' \in Tables(db') /\ DOMAIN db'.users \subseteq Ids
         /\ DOMAIN db'.codes \subseteq Draws
         /\ db'.users = v /\ db'.profiles = db.profiles
         /\ db'.preferred = db.preferred /\ db'.codes = db.codes
         /\ db'.mails = db.mails \cup {m} /\ db'.attempts = db.attempts
<1>1. PICK d : d = [db EXCEPT !.users = v]
  OBVIOUS
<1>2. /\ d \in Tables(d) /\ d.users = v /\ d.profiles = db.profiles
      /\ d.preferred = db.preferred /\ d.codes = db.codes
      /\ d.mails = db.mails /\ d.attempts = db.attempts
  BY <1>1 DEF TypeOK, Tables
<1>3. db' = [d EXCEPT !.mails = @ \cup {m}]
  BY <1>1
<1>4. /\ db' \in Tables(db') /\ db'.users = d.users
      /\ db'.profiles = d.profiles /\ db'.preferred = d.preferred
      /\ db'.codes = d.codes /\ db'.mails = d.mails \cup {m}
      /\ db'.attempts = d.attempts
  BY <1>2, <1>3 DEF Tables
<1> QED  BY <1>2, <1>4 DEF TypeOK

-----------------------------------------------------------------------------
(***************************************************************************)
(* What a step leaves alone stays right.                                   *)
(***************************************************************************)
\* A handler moves to f; the accounts, if there are any, stay the same.
LEMMA ControlStep ==
  ASSUME Control, NEW i \in Handlers, NEW f \in Frame, Goto(i, f),
         FrameOK(f, ids), f.pc # "commit signup",
         f.id \in {frames[i].id, 0} \cup DOMAIN db.users,
         UNCHANGED <<ids, mix>>, jwt' \in BOOLEAN, draws' \in 0..MaxDraws,
         ghost' \in Ghost, db' \in Tables(db'),
         DOMAIN db'.users = DOMAIN db.users, DOMAIN db'.codes \subseteq Draws,
         \A t \in DOMAIN db'.codes : db'.codes[t].user \in DOMAIN db.users,
         db'.profiles \cup db'.preferred \subseteq
           db.profiles \cup db.preferred \cup DOMAIN db.users
  PROVE  Control'
<1>1. /\ frames' = [frames EXCEPT ![i] = f] /\ frames \in [Handlers -> Frame]
      /\ frames' \in [Handlers -> Frame] /\ frames'[i] = f
      /\ \A k \in Handlers \ {i} : frames'[k] = frames[k]
  BY DEF Goto, Control, TypeOK
<1>2. TypeOK'
  BY <1>1 DEF Control, TypeOK
<1>3. FramesOK'
  BY <1>1 DEF Control, FramesOK
<1>4. IdsOK' /\ CodesOwned'
  BY DEF Control, IdsOK, CodesOwned
<1>5. SignupOK'
  <2> SUFFICES ASSUME NEW k \in Handlers, frames'[k].pc = "commit signup"
               PROVE  /\ DOMAIN db'.users = {}
                      /\ \A j \in Handlers \ {k} :
                           /\ frames'[j].pc # "commit signup"
                           /\ frames'[j].id # frames'[k].id
    BY DEF SignupOK, Is
  <2>1. k # i /\ frames'[k] = frames[k] /\ frames[k].pc = "commit signup"
    BY <1>1
  <2>2. /\ DOMAIN db.users = {} /\ frames[k].id # 0
        /\ \A j \in Handlers \ {k} : /\ frames[j].pc # "commit signup"
                                     /\ frames[j].id # frames[k].id
    <3>1. frames[k].id \in Ids
      BY <2>1 DEF Control, FramesOK, FrameOK, OnAccount, Pcs
    <3>2. frames[k].id # 0
      BY <3>1, NoneIsNothing
    <3> QED  BY <2>1, <3>2 DEF Control, SignupOK, Is
  <2> QED  BY <1>1, <2>1, <2>2
<1> QED  BY <1>2, <1>3, <1>4, <1>5 DEF Control

\* The gates: no account is sent back behind one, and f has passed them itself.
StillPassed == \A id \in DOMAIN db.users : Passed(id) => Passed(id)'

LEMMA PassedKept ==
  ASSUME db'.users = db.users, db.profiles \subseteq db'.profiles,
         ghost.unmarked \subseteq ghost'.unmarked
  PROVE  StillPassed
BY DEF StillPassed, Passed

LEMMA GatesStep ==
  ASSUME Control, PassedGates, GatesHold, NEW i \in Handlers, NEW f, Goto(i, f),
         f.pc = "prefer" => Passed(f.id)',
         DOMAIN db'.users = DOMAIN db.users, StillPassed,
         db'.preferred = db.preferred
  PROVE  PassedGates' /\ GatesHold'
<1>1. /\ frames'[i] = f
      /\ \A k \in Handlers \ {i} : frames'[k] = frames[k]
  BY DEF Goto, Control, TypeOK
<1>2. GatesHold'
  <2> SUFFICES ASSUME NEW id \in db.preferred  PROVE  Passed(id)'
    BY DEF GatesHold, Passed
  <2>1. id \in DOMAIN db.users /\ Passed(id)
    BY DEF PassedGates, GatesHold, Passed
  <2> QED  BY <2>1 DEF StillPassed
<1>3. PassedGates'
  <2>1. db'.preferred \subseteq DOMAIN db'.users
    BY DEF PassedGates
  <2>2. ASSUME NEW k \in Handlers, frames'[k].pc = "prefer",
               NEW id \in DOMAIN db.users, frames'[k].id = id
        PROVE  Passed(id)'
    <3>1. CASE k = i
      BY <1>1, <2>2, <3>1 DEF Passed
    <3>2. CASE k # i
      <4>1. frames'[k] = frames[k]
        BY <1>1, <3>2
      <4>2. Passed(id)
        BY <2>2, <4>1 DEF PassedGates, Is
      <4> QED  BY <4>2 DEF StillPassed
    <3> QED  BY <3>1, <3>2
  <2> QED  BY <2>1, <2>2 DEF PassedGates, Is, Passed
<1> QED  BY <1>2, <1>3

LEMMA LinksKept ==
  ASSUME LinksAreMailed, db'.users = db.users, db.mails \subseteq db'.mails,
         ghost.unmarked \subseteq ghost'.unmarked
  PROVE  LinksAreMailed'
BY DEF LinksAreMailed

LEMMA FlightKept ==
  ASSUME Control, NEW i \in Handlers, NEW f, Goto(i, f), NEW pc,
         frames[i].pc # pc, NEW n, InFlight(pc, n)
  PROVE  InFlight(pc, n)'
BY DEF InFlight, Is, Goto, Control, TypeOK

LEMMA PasswordsKept ==
  ASSUME Control, Passwords, NEW i \in Handlers, NEW f, Goto(i, f),
         frames[i].pc # "mail password", db'.users = db.users,
         db.mails \subseteq db'.mails, ghost.lost \subseteq ghost'.lost
  PROVE  Passwords'
<1> SUFFICES ASSUME NEW id \in DOMAIN db.users
             PROVE  LET u == db.users[id]
                        n == u.password[2]
                    IN  /\ u.must <=> u.password # Own
                        /\ u.password[1] = "drawn" =>
                             \/ <<"password", n>> \in db'.mails \cup ghost'.lost
                             \/ InFlight("mail password", n)'
  BY DEF Passwords
<1> QED  BY FlightKept DEF Passwords

\* The codes that are stored after a step were stored before.
LEMMA CodesKept ==
  ASSUME Control, CurrentCodeIsSent, NEW i \in Handlers, NEW f, Goto(i, f),
         frames[i].pc # "send",
         \A t \in DOMAIN db'.codes : /\ t \in DOMAIN db.codes
                                     /\ db'.codes[t].code = db.codes[t].code,
         db.mails \subseteq db'.mails, ghost.lost \subseteq ghost'.lost
  PROVE  CurrentCodeIsSent'
<1> SUFFICES ASSUME NEW t \in DOMAIN db'.codes, NEW n,
                    n = db'.codes[t].code
             PROVE  \/ <<"code", n>> \in db'.mails \cup ghost'.lost
                    \/ InFlight("send", n)'
  BY DEF CurrentCodeIsSent
<1>1. <<"code", n>> \in db.mails \cup ghost.lost \/ InFlight("send", n)
  BY DEF CurrentCodeIsSent
<1>2. InFlight("send", n) => InFlight("send", n)'
  BY FlightKept
<1> QED  BY <1>1, <1>2

\* A handler moves and no table changes.
LEMMA MoveStep ==
  ASSUME Inv, NEW i \in Handlers, NEW f \in Frame, Goto(i, f),
         FrameOK(f, ids), f.pc # "commit signup",
         f.id \in {frames[i].id, 0} \cup DOMAIN db.users,
         f.pc = "prefer" => Passed(f.id),
         frames[i].pc \notin {"mail password", "send"},
         UNCHANGED <<db, ids, mix, ghost>>,
         jwt' \in BOOLEAN, draws' \in 0..MaxDraws
  PROVE  Inv'
<1>1. Control'
  <2>1. /\ ghost' \in Ghost /\ db' \in Tables(db')
        /\ DOMAIN db'.users = DOMAIN db.users /\ DOMAIN db'.codes \subseteq Draws
        /\ \A t \in DOMAIN db'.codes : db'.codes[t].user \in DOMAIN db.users
        /\ db'.profiles \cup db'.preferred \subseteq
             db.profiles \cup db.preferred \cup DOMAIN db.users
    BY DEF Inv, Control, TypeOK, CodesOwned
  <2> QED  BY <2>1, ControlStep DEF Inv
<1>2. PassedGates' /\ GatesHold'
  <2>1. f.pc = "prefer" => Passed(f.id)'
    BY DEF Passed
  <2>2. StillPassed
    BY PassedKept
  <2> QED  BY <2>1, <2>2, GatesStep DEF Inv
<1>3. LinksAreMailed' /\ Passwords' /\ CurrentCodeIsSent'
  BY LinksKept, PasswordsKept, CodesKept DEF Inv
<1> QED  BY <1>1, <1>2, <1>3 DEF Inv

\* Every step of a handler but the three that insert an account.
LEMMA TablesStep ==
  ASSUME Inv, NEW i \in Handlers, NEW f \in Frame, Goto(i, f),
         FrameOK(f, ids), f.pc \notin {"commit signup", "prefer"},
         f.id \in {frames[i].id, 0}, UNCHANGED <<ids, mix>>,
         jwt' \in BOOLEAN, draws' \in 0..MaxDraws, ghost' \in Ghost,
         db' \in Tables(db'), DOMAIN db'.users = DOMAIN db.users,
         DOMAIN db'.codes \subseteq Draws,
         \A t \in DOMAIN db'.codes : db'.codes[t].user \in DOMAIN db.users,
         db'.profiles = db.profiles, db'.preferred = db.preferred, StillPassed
  PROVE  Control' /\ PassedGates' /\ GatesHold'
<1>1. Control'
  BY ControlStep DEF Inv
<1> QED  BY <1>1, GatesStep DEF Inv

-----------------------------------------------------------------------------
(***************************************************************************)
(* Statements that only read: a handler moves and no table changes.        *)
(***************************************************************************)
LEMMA AtOK ==
  ASSUME NEW pc \in Pcs, pc \notin OnToken, NEW id \in Ids, NEW n \in 0..MaxDraws,
         pc \in OnDraw => n \in Draws, NEW top \in Nat, id <= top
  PROVE  At(pc, id, n) \in Frame /\ FrameOK(At(pc, id, n), top)
<1>1. id \in Keys
  BY Bounds DEF Ids, Keys
<1>2. pc # "trust"
  BY DEF OnToken
<1> QED  BY <1>1, <1>2, AtFrame DEF FrameOK

LEMMA AccountIds ==
  ASSUME Control, NEW id \in DOMAIN db.users
  PROVE  id \in Ids /\ id <= ids /\ ids \in Nat /\ db.users[id] \in User
BY Bounds DEF Control, TypeOK, IdsOK, Tables

LEMMA OnAccountFacts ==
  ASSUME Control, NEW i \in Handlers, frames[i].pc \in OnAccount
  PROVE  frames[i].id \in Ids /\ frames[i].id <= ids /\ ids \in Nat
<1>1. FrameOK(frames[i], ids) /\ ids \in Nat
  BY Bounds DEF Control, FramesOK, TypeOK
<1> QED  BY <1>1 DEF FrameOK

LEMMA Drawing ==
  ASSUME Control, Draw
  PROVE  /\ draws' \in Draws /\ draws' \in 0..MaxDraws /\ draws < draws'
BY Bounds DEF Draw, Draws, Control, TypeOK

\* A request about an account is let in.
LEMMA EnterStep ==
  ASSUME Inv, NEW i \in Handlers, frames[i] = Idle,
         NEW pc \in Pcs, pc \notin OnToken, pc # "commit signup",
         NEW id \in DOMAIN db.users, NEW n \in 0..MaxDraws,
         pc \in OnDraw => n \in Draws, pc = "prefer" => Passed(id),
         Goto(i, At(pc, id, n)), UNCHANGED <<db, ids, mix, ghost>>,
         jwt' \in BOOLEAN, draws' \in 0..MaxDraws
  PROVE  Inv'
<1>1. id \in Ids /\ id <= ids /\ ids \in Nat
  BY AccountIds DEF Inv
<1>2. At(pc, id, n) \in Frame /\ FrameOK(At(pc, id, n), ids)
  BY <1>1, AtOK
<1>4. At(pc, id, n).pc = pc /\ At(pc, id, n).id = id
  BY DEF At, Idle
<1>3. frames[i].pc = "idle"
  BY IdleFrame
<1> QED  BY <1>2, <1>3, <1>4, MoveStep

LEMMA VerifyStep ==
  ASSUME Inv, NEW i \in Handlers, Verify(i)  PROVE  Inv'
<1>1. PICK id \in DOMAIN db.users : /\ db.users[id].verify # None
                                   /\ Goto(i, At("verify", id, db.users[id].verify))
  BY DEF Verify
<1>2. db.users[id].verify \in Draws /\ db.users[id].verify \in 0..MaxDraws
  BY <1>1, AccountIds, Bounds DEF Inv, User, Draws
<1>3. "verify" \in Pcs /\ "verify" \notin OnToken
  BY DEF Pcs, OnToken
<1> QED  BY <1>1, <1>2, <1>3, EnterStep DEF Verify, Enter, Inv, Control, TypeOK

LEMMA ResendStep ==
  ASSUME Inv, NEW i \in Handlers, Resend(i)  PROVE  Inv'
<1>1. PICK id \in DOMAIN db.users : Goto(i, At("link", id, None))
  BY DEF Resend
<1>2. /\ "link" \in Pcs /\ "link" \notin OnToken /\ "link" \notin OnDraw
      /\ None \in 0..MaxDraws
  BY Bounds DEF Pcs, OnToken, OnDraw, Committing, None
<1> QED  BY <1>1, <1>2, EnterStep DEF Resend, Enter, Inv, Control, TypeOK

LEMMA ResetLinkStep ==
  ASSUME Inv, NEW i \in Handlers, ResetLink(i)  PROVE  Inv'
<1>1. PICK n : n = draws'
  OBVIOUS
<1>2. PICK id \in DOMAIN db.users : /\ Goto(i, At("commit reset", id, n))
                                   /\ db' = db
  BY <1>1 DEF ResetLink, BeforeCommit
<1>3. n \in Draws /\ n \in 0..MaxDraws
  BY <1>1, Drawing DEF ResetLink, Inv
<1>4. "commit reset" \in Pcs /\ "commit reset" \notin OnToken
  BY DEF Pcs, OnToken
<1> QED  BY <1>1, <1>2, <1>3, <1>4, EnterStep
         DEF ResetLink, Enter, Inv, Control, TypeOK

LEMMA ResetStep ==
  ASSUME Inv, NEW i \in Handlers, Reset(i)  PROVE  Inv'
<1>1. PICK id \in DOMAIN db.users : /\ db.users[id].reset # None
                                   /\ Goto(i, At("reset", id, db.users[id].reset))
  BY DEF Reset
<1>2. db.users[id].reset \in Draws /\ db.users[id].reset \in 0..MaxDraws
  BY <1>1, AccountIds, Bounds DEF Inv, User, Draws
<1>3. "reset" \in Pcs /\ "reset" \notin OnToken
  BY DEF Pcs, OnToken
<1> QED  BY <1>1, <1>2, <1>3, EnterStep DEF Reset, Enter, Inv, Control, TypeOK

LEMMA GenerateStep ==
  ASSUME Inv, NEW i \in Handlers, Generate(i)  PROVE  Inv'
<1>1. PICK id \in DOMAIN db.users : Goto(i, At("generate", id, None))
  BY DEF Generate
<1>2. /\ "generate" \in Pcs /\ "generate" \notin OnToken /\ "generate" \notin OnDraw
      /\ None \in 0..MaxDraws
  BY Bounds DEF Pcs, OnToken, OnDraw, Committing, None
<1> QED  BY <1>1, <1>2, EnterStep DEF Generate, Enter, Inv, Control, TypeOK

LEMMA AskStep ==
  ASSUME Inv, NEW i \in Handlers,
         \/ Ask(i, "change", "change") \/ Ask(i, "profile", "profile")
         \/ Ask(i, "preference", "prefer")
  PROVE  Inv'
<1>1. PICK id \in DOMAIN db.users, pc \in {"change", "profile", "prefer"} :
        /\ Goto(i, At(pc, id, None)) /\ frames[i] = Idle
        /\ UNCHANGED <<db, jwt, ids, draws, mix, ghost>>
        /\ pc = "prefer" => /\ id \in db.profiles /\ ~db.users[id].must
                            /\ VerificationRequired => db.users[id].verified
  BY DEF Ask, Enter, Admitted, Exempt
<1>4. pc = "prefer" => Passed(id)
  <2>1. db.users[id].must <=> db.users[id].password # Own
    BY DEF Inv, Passwords
  <2>2. Own[1] # "given"
    BY DEF Own
  <2>3. pc = "prefer" => db.users[id].password = Own
    BY <1>1, <2>1, Zenon
  <2>4. pc = "prefer" => db.users[id].password[1] # "given"
    BY <2>2, <2>3
  <2> QED  BY <1>1, <2>4, Zenon DEF Passed
<1>2. /\ pc \in Pcs /\ pc \notin OnToken
      /\ pc \notin OnDraw /\ pc # "commit signup"
  BY DEF Pcs, OnToken, OnDraw, Committing
<1>3. None \in 0..MaxDraws
  BY Bounds DEF None
<1> QED  BY <1>1, <1>2, <1>3, <1>4, EnterStep DEF Inv, Control, TypeOK

\* The UPDATE of a transaction is not seen before it commits.
LEMMA LinkUpdateStep ==
  ASSUME Inv, NEW i \in Handlers, LinkUpdate(i)  PROVE  Inv'
<1>1. PICK id, n : id = frames[i].id /\ n = draws'
  OBVIOUS
<1>2. /\ frames[i].pc = "link" /\ Goto(i, At("commit link", id, n))
      /\ UNCHANGED <<db, jwt, ids, mix, ghost>>
  BY <1>1 DEF LinkUpdate, BeforeCommit, Is
<1>3. n \in Draws /\ n \in 0..MaxDraws
  BY <1>1, Drawing DEF LinkUpdate, Inv
<1>4. id \in Ids /\ id <= ids /\ ids \in Nat
  BY <1>1, <1>2, OnAccountFacts DEF Inv, OnAccount, Pcs
<1>5. "commit link" \in Pcs /\ "commit link" \notin OnToken
  BY DEF Pcs, OnToken
<1>6. /\ At("commit link", id, n) \in Frame
      /\ FrameOK(At("commit link", id, n), ids)
  BY <1>3, <1>4, <1>5, AtOK
<1>7. /\ At("commit link", id, n).pc = "commit link"
      /\ At("commit link", id, n).id = id
  BY DEF At, Idle
<1> QED  BY <1>1, <1>2, <1>3, <1>6, <1>7, MoveStep DEF Inv, Control, TypeOK

\* What the invariant says of a handler and of the other variables.
LEMMA Typed ==
  ASSUME Inv
  PROVE  /\ ids \in Nat /\ jwt \in BOOLEAN /\ draws \in 0..MaxDraws
         /\ ghost \in Ghost /\ frames \in [Handlers -> Frame]
         /\ db \in Tables(db) /\ DOMAIN db.codes \subseteq Draws
         /\ DOMAIN db.users \subseteq Ids
         /\ \A i \in Handlers : frames[i] \in Frame /\ FrameOK(frames[i], ids)
BY Bounds DEF Inv, Control, TypeOK, FramesOK

\* The lock is read; nothing is written.
LEMMA LoginLockStep ==
  ASSUME Inv, NEW i \in Handlers, LoginLock(i)  PROVE  Inv'
<1>1. \/ Goto(i, Idle)
      \/ Goto(i, [frames[i] EXCEPT !.pc = "clear"]) /\ frames[i].right
      \/ Goto(i, [frames[i] EXCEPT !.pc = "count"])
  BY DEF LoginLock, Done
<1> SUFFICES ASSUME NEW f, Goto(i, f),
                    \/ f = Idle
                    \/ f = [frames[i] EXCEPT !.pc = "clear"] /\ frames[i].right
                    \/ f = [frames[i] EXCEPT !.pc = "count"]
             PROVE  Inv'
  BY <1>1
<1>2. /\ frames[i] \in Frame /\ frames[i].pc = "lock" /\ FrameOK(frames[i], ids)
      /\ ids \in Nat /\ UNCHANGED <<db, jwt, ids, draws, mix, ghost>>
  BY Typed DEF LoginLock, Is
<1>3. f \in Frame
  BY <1>2, IdleFrame, FrameFields DEF Pcs
<1>4. FrameOK(f, ids) /\ f.id \in {frames[i].id, 0}
      /\ f.pc \in {"idle", "clear", "count"}
  <2>1. CASE f = Idle
    BY <2>1, <1>2, IdleFrame
  <2>2. CASE f = [frames[i] EXCEPT !.pc = "clear"] /\ frames[i].right
    BY <2>2, <1>2 DEF FrameOK, OnDraw, OnToken, Committing, Frame
  <2>3. CASE f = [frames[i] EXCEPT !.pc = "count"]
    BY <2>3, <1>2 DEF FrameOK, OnDraw, OnToken, Committing, Frame, OnAccount
  <2> QED  BY <2>1, <2>2, <2>3
<1> QED  BY <1>2, <1>3, <1>4, MoveStep, Typed

\* A known device skips the code.
LEMMA LoginDeviceStep ==
  ASSUME Inv, NEW i \in Handlers, LoginDevice(i)  PROVE  Inv'
<1>1. Goto(i, Idle) \/ Goto(i, [frames[i] EXCEPT !.pc = "code"])
  BY DEF LoginDevice, Done
<1> SUFFICES ASSUME NEW f, Goto(i, f),
                    f = Idle \/ f = [frames[i] EXCEPT !.pc = "code"]
             PROVE  Inv'
  BY <1>1
<1>2. /\ frames[i] \in Frame /\ frames[i].pc = "device"
      /\ FrameOK(frames[i], ids) /\ ids \in Nat
      /\ UNCHANGED <<db, ids, draws, mix, ghost>>
      /\ jwt' \in BOOLEAN /\ draws' \in 0..MaxDraws
  BY Typed DEF LoginDevice, Is
<1>3. f \in Frame
  BY <1>2, IdleFrame, FrameFields DEF Pcs
<1>4. FrameOK(f, ids) /\ f.id \in {frames[i].id, 0} /\ f.pc \in {"idle", "code"}
  <2>1. CASE f = Idle
    BY <2>1, <1>2, IdleFrame
  <2>2. CASE f = [frames[i] EXCEPT !.pc = "code"]
    BY <2>2, <1>2 DEF FrameOK, OnDraw, OnToken, Committing, Frame, OnAccount,
                      Pcs
  <2> QED  BY <2>1, <2>2
<1> QED  BY <1>2, <1>3, <1>4, MoveStep

\* The account and its hash are read.
LEMMA EnterLoginStep ==
  ASSUME Inv, NEW i \in Handlers, EnterLogin(i)  PROVE  Inv'
<1>1. /\ frames[i] = Idle /\ frames[i].pc = "idle"
      /\ UNCHANGED <<db, jwt, ids, draws, mix, ghost>>
      /\ ids \in Nat /\ jwt \in BOOLEAN /\ draws \in 0..MaxDraws
  BY Typed, IdleFrame DEF EnterLogin, Enter
<1>2. "lock" \in Pcs /\ None \in 0..MaxDraws /\ 0 \in Keys
  BY Bounds DEF Pcs, Keys, None
<1>3. CASE Goto(i, At("lock", 0, None))
  <2>1. At("lock", 0, None) \in Frame
    BY <1>2, AtFrame
  <2>2. /\ At("lock", 0, None).pc = "lock" /\ At("lock", 0, None).id = 0
        /\ ~At("lock", 0, None).right
    BY <1>2, AtFrame
  <2>3. FrameOK(At("lock", 0, None), ids)
    BY <1>1 DEF FrameOK, OnAccount, OnDraw, OnToken, Committing, At, Idle
  <2> QED  BY <1>1, <1>3, <2>1, <2>2, <2>3, MoveStep
<1>4. ASSUME NEW id \in DOMAIN db.users, NEW right \in BOOLEAN,
             Goto(i, [At("lock", id, None) EXCEPT
                        !.right = right, !.verified = db.users[id].verified])
      PROVE  Inv'
  <2> DEFINE f == [At("lock", id, None) EXCEPT
                     !.right = right, !.verified = db.users[id].verified]
  <2>1. id \in Ids /\ id <= ids /\ db.users[id].verified \in BOOLEAN /\ id \in Keys
    BY AccountIds, Bounds DEF Inv, User, Ids, Keys
  <2>2. At("lock", id, None) \in Frame
    BY <2>1, <1>2, AtFrame
  <2>3. f \in Frame
    BY <2>1, <2>2 DEF Frame
  <2>4. f.pc = "lock" /\ f.id = id
    BY DEF At, Idle
  <2>5. FrameOK(f, ids)
    BY <2>1, <2>4 DEF FrameOK, OnDraw, OnToken, Committing
  <2> QED  BY <1>1, <1>4, <2>3, <2>4, <2>5, MoveStep
<1> QED  BY <1>3, <1>4 DEF EnterLogin

\* The row of a login token is read.
LEMMA CodeFacts ==
  ASSUME Inv, NEW t \in DOMAIN db.codes
  PROVE  /\ db.codes[t] \in Login /\ t \in Draws /\ t \in 0..MaxDraws
         /\ db.codes[t].user \in DOMAIN db.users
         /\ db.codes[t].user \in Ids /\ db.codes[t].user \in Keys
         /\ db.codes[t].user <= ids
         /\ db.codes[t].code \in Draws /\ db.codes[t].code \in 0..MaxDraws
BY Bounds DEF Inv, Control, TypeOK, Tables, Login, CodesOwned, IdsOK, Draws,
              Ids, Keys

LEMMA VerifyLoginStep ==
  ASSUME Inv, NEW i \in Handlers, VerifyLogin(i)  PROVE  Inv'
<1>1. PICK t \in DOMAIN db.codes, device \in Devices \cup {None},
           pc \in {"wrong", "use"} :
        Goto(i, [At(pc, db.codes[t].user, db.codes[t].code)
                   EXCEPT !.token = t, !.device = device])
  BY DEF VerifyLogin
<1>2. /\ frames[i].pc = "idle"
      /\ UNCHANGED <<db, jwt, ids, draws, mix, ghost>>
      /\ jwt \in BOOLEAN /\ draws \in 0..MaxDraws
  BY Typed, IdleFrame DEF VerifyLogin, Enter
<1> DEFINE a == At(pc, db.codes[t].user, db.codes[t].code)
           f == [a EXCEPT !.token = t, !.device = device]
<1>3. a \in Frame
  <2>1. pc \in Pcs
    BY DEF Pcs
  <2>2. db.codes[t].user \in Keys /\ db.codes[t].code \in 0..MaxDraws
    BY CodeFacts
  <2> QED  BY <2>1, <2>2, AtFrame
<1>4. f \in Frame
  BY <1>3, CodeFacts DEF Frame
<1>5. /\ f.pc = pc /\ f.id = db.codes[t].user /\ f.n = db.codes[t].code
      /\ f.token = t
  BY DEF At, Idle
<1>6. FrameOK(f, ids)
  BY <1>5, CodeFacts DEF FrameOK
<1> QED  BY <1>1, <1>2, <1>4, <1>5, <1>6, CodeFacts, MoveStep

LEMMA ResendCodeStep ==
  ASSUME Inv, NEW i \in Handlers, ResendCode(i)  PROVE  Inv'
<1>1. PICK t \in DOMAIN db.codes :
        Goto(i, [At("recode", db.codes[t].user, None) EXCEPT !.token = t])
  BY DEF ResendCode
<1>2. /\ frames[i].pc = "idle"
      /\ UNCHANGED <<db, jwt, ids, draws, mix, ghost>>
      /\ jwt \in BOOLEAN /\ draws \in 0..MaxDraws
  BY Typed, IdleFrame DEF ResendCode, Enter
<1> DEFINE a == At("recode", db.codes[t].user, None)
           f == [a EXCEPT !.token = t]
<1>3. "recode" \in Pcs /\ None \in 0..MaxDraws
  BY Bounds DEF Pcs, None
<1>4. a \in Frame
  BY <1>3, CodeFacts, AtFrame
<1>5. f \in Frame
  BY <1>4, CodeFacts, FrameFields
<1>6. f.pc = "recode" /\ f.id = db.codes[t].user /\ f.token = t
  BY DEF At, Idle
<1>7. FrameOK(f, ids)
  BY <1>6, CodeFacts DEF FrameOK, OnDraw, Committing
<1> QED  BY <1>1, <1>2, <1>5, <1>6, <1>7, CodeFacts, MoveStep

-----------------------------------------------------------------------------
(***************************************************************************)
(* Statements that update the row of an account.                           *)
(***************************************************************************)
\* The row of account id becomes v.
Row(id, v) ==
  /\ DOMAIN db'.users = DOMAIN db.users
  /\ \A x \in DOMAIN db.users : x # id => db'.users[x] = db.users[x]
  /\ id \in DOMAIN db.users => db'.users[id] = v /\ v \in User

LEMMA RowLinks ==
  ASSUME LinksAreMailed, NEW id, NEW v, Row(id, v),
         db.mails \subseteq db'.mails, ghost.unmarked \subseteq ghost'.unmarked,
         id \in DOMAIN db.users =>
           /\ v.verify # None => <<"verify", v.verify>> \in db'.mails
           /\ v.reset # None => <<"reset", v.reset>> \in db'.mails
           /\ v.verified \/ v.verify # None \/ id \in ghost'.unmarked
  PROVE  LinksAreMailed'
BY DEF LinksAreMailed, Row

LEMMA RowPassed ==
  ASSUME NEW id, NEW v, Row(id, v), db'.profiles = db.profiles,
         ghost.unmarked \subseteq ghost'.unmarked,
         id \in DOMAIN db.users =>
           /\ v.password[1] = "given" => v.password = db.users[id].password
           /\ db.users[id].verified => v.verified \/ id \in ghost'.unmarked
  PROVE  StillPassed
BY DEF StillPassed, Passed, Row

LEMMA RowPasswords ==
  ASSUME Passwords, NEW id, NEW v, Row(id, v),
         db.mails \subseteq db'.mails, ghost.lost \subseteq ghost'.lost,
         \A n : InFlight("mail password", n) => InFlight("mail password", n)',
         id \in DOMAIN db.users =>
           /\ v.must <=> v.password # Own
           /\ v.password[1] = "drawn" =>
                \/ v.password = db.users[id].password
                \/ InFlight("mail password", v.password[2])'
  PROVE  Passwords'
<1> SUFFICES ASSUME NEW x \in DOMAIN db.users, NEW u, u = db'.users[x],
                    NEW n, n = u.password[2]
             PROVE  /\ u.must <=> u.password # Own
                    /\ u.password[1] = "drawn" =>
                         \/ <<"password", n>> \in db'.mails \cup ghost'.lost
                         \/ InFlight("mail password", n)'
  BY DEF Passwords, Row
<1>1. CASE x # id
  <2>1. u = db.users[x]
    BY <1>1 DEF Row
  <2> QED  BY <2>1 DEF Passwords
<1>2. CASE x = id
  <2>1. u = v
    BY <1>2 DEF Row
  <2>2. u.password = db.users[x].password /\ u.password[1] = "drawn" =>
          \/ <<"password", n>> \in db.mails \cup ghost.lost
          \/ InFlight("mail password", n)
    BY DEF Passwords
  <2> QED  BY <1>2, <2>1, <2>2
<1> QED  BY <1>1, <1>2

\* A handler that stays clear of a mail updates a row.
LEMMA RowStep ==
  ASSUME Inv, NEW i \in Handlers, NEW f \in Frame, Goto(i, f),
         FrameOK(f, ids), f.pc \notin {"commit signup", "prefer"},
         f.id \in {frames[i].id, 0}, UNCHANGED <<ids, mix>>,
         frames[i].pc \notin {"mail password", "send"},
         jwt' \in BOOLEAN, draws' \in 0..MaxDraws, ghost' \in Ghost,
         ghost.lost \subseteq ghost'.lost,
         ghost.unmarked \subseteq ghost'.unmarked,
         db' \in Tables(db'), db'.profiles = db.profiles,
         db'.preferred = db.preferred, db'.codes = db.codes,
         db.mails \subseteq db'.mails,
         NEW id, NEW v, Row(id, v),
         id \in DOMAIN db.users =>
           /\ v.verify # None => <<"verify", v.verify>> \in db'.mails
           /\ v.reset # None => <<"reset", v.reset>> \in db'.mails
           /\ v.verified \/ v.verify # None \/ id \in ghost'.unmarked
           /\ v.must <=> v.password # Own
           /\ v.password[1] = "given" => v.password = db.users[id].password
           /\ db.users[id].verified => v.verified \/ id \in ghost'.unmarked
           /\ v.password[1] = "drawn" =>
                \/ v.password = db.users[id].password
                \/ f.pc = "mail password" /\ f.n = v.password[2]
  PROVE  Inv'
<1>1. Control' /\ PassedGates' /\ GatesHold'
  <2>1. /\ DOMAIN db'.users = DOMAIN db.users /\ DOMAIN db'.codes \subseteq Draws
        /\ \A t \in DOMAIN db'.codes : db'.codes[t].user \in DOMAIN db.users
    BY DEF Inv, Control, TypeOK, CodesOwned, Row
  <2>2. StillPassed
    BY RowPassed
  <2> QED  BY <2>1, <2>2, TablesStep
<1>2. LinksAreMailed'
  BY RowLinks DEF Inv
<1>3. Passwords'
  <2>1. \A n : InFlight("mail password", n) => InFlight("mail password", n)'
    BY FlightKept DEF Inv
  <2>2. frames'[i] = f
    BY Typed DEF Goto
  <2>3. f.pc = "mail password" /\ f.n = v.password[2] =>
          InFlight("mail password", v.password[2])'
    BY <2>2 DEF InFlight, Is
  <2> QED  BY <2>1, <2>3, RowPasswords DEF Inv
<1>4. CurrentCodeIsSent'
  BY CodesKept DEF Inv
<1> QED  BY <1>1, <1>2, <1>3, <1>4 DEF Inv

LEMMA VerifyUpdateStep ==
  ASSUME Inv, NEW i \in Handlers, VerifyUpdate(i)  PROVE  Inv'
<1> DEFINE id == frames[i].id
           v == [db.users[id] EXCEPT !.verified = TRUE, !.verify = None]
           w == [x \in DOMAIN db.users |->
                   IF x = id THEN [db.users[x] EXCEPT !.verified = TRUE,
                                                      !.verify = None]
                   ELSE db.users[x]]
<1>1. db' = [db EXCEPT !.users = w] /\ frames[i].pc = "verify" /\ Goto(i, Idle)
      /\ ghost' = [ghost EXCEPT !.uses[frames[i].n] = @ + 1]
      /\ UNCHANGED <<jwt, ids, draws, mix>>
  BY DEF VerifyUpdate, Update, Done, Is, Used
<1>2. w \in [DOMAIN w -> User] /\ DOMAIN w \subseteq Ids
  <2>1. ASSUME NEW u \in User
        PROVE  [u EXCEPT !.verified = TRUE, !.verify = None] \in User
    BY DEF User
  <2> QED  BY <2>1, Typed DEF Tables
<1>3. /\ db' \in Tables(db') /\ db'.users = w /\ db'.profiles = db.profiles
      /\ db'.preferred = db.preferred /\ db'.codes = db.codes
      /\ db'.mails = db.mails
  BY <1>1, <1>2, UsersChange DEF Inv, Control
<1>4. Row(id, v)
  BY <1>3, Typed, ZenonT(60) DEF Row, Tables, User
<1>5. ghost' \in Ghost /\ ghost'.lost = ghost.lost
      /\ ghost'.unmarked = ghost.unmarked
  <2>1. frames[i].n \in Draws
    BY <1>1, Typed DEF FrameOK, OnDraw
  <2> QED  BY <1>1, <2>1, Typed, GhostFields DEF Ghost
<1>6. id \in DOMAIN db.users =>
           /\ v.verify = None /\ v.reset = db.users[id].reset /\ v.verified
           /\ v.must = db.users[id].must
           /\ v.password = db.users[id].password
  BY Typed DEF Tables, User
<1>7. /\ Idle \in Frame /\ FrameOK(Idle, ids) /\ Idle.pc = "idle" /\ Idle.id = 0
      /\ jwt' \in BOOLEAN /\ draws' \in 0..MaxDraws
  BY <1>1, IdleFrame, Typed
<1>8. id \in DOMAIN db.users =>
        /\ v.must <=> v.password # Own
        /\ v.reset # None => <<"reset", v.reset>> \in db'.mails
  BY <1>3, <1>6 DEF Inv, Passwords, LinksAreMailed
<1> HIDE DEF id, v, w
<1> QED  BY <1>1, <1>3, <1>4, <1>5, <1>6, <1>7, <1>8, RowStep

LEMMA ChangePasswordStep ==
  ASSUME Inv, NEW i \in Handlers, ChangePassword(i)  PROVE  Inv'
<1> DEFINE id == frames[i].id
           v == [db.users[id] EXCEPT !.password = Own, !.must = FALSE]
           w == [x \in DOMAIN db.users |->
                   IF x = id THEN [db.users[x] EXCEPT !.password = Own,
                                                      !.must = FALSE]
                   ELSE db.users[x]]
<1>1. db' = [db EXCEPT !.users = w] /\ frames[i].pc = "change" /\ Goto(i, Idle)
      /\ UNCHANGED <<jwt, ids, draws, mix, ghost>>
  BY DEF ChangePassword, Update, Done, Is
<1>2. w \in [DOMAIN w -> User] /\ DOMAIN w \subseteq Ids
  <2>1. ASSUME NEW u \in User
        PROVE  [u EXCEPT !.password = Own, !.must = FALSE] \in User
    BY DEF User, Own, Password
  <2> QED  BY <2>1, Typed DEF Tables
<1>3. /\ db' \in Tables(db') /\ db'.users = w /\ db'.profiles = db.profiles
      /\ db'.preferred = db.preferred /\ db'.codes = db.codes
      /\ db'.mails = db.mails
  BY <1>1, <1>2, UsersChange DEF Inv, Control
<1>4. Row(id, v)
  BY <1>2, <1>3 DEF Row
<1>5. id \in DOMAIN db.users =>
           /\ v.verify = db.users[id].verify /\ v.reset = db.users[id].reset
           /\ v.verified = db.users[id].verified
           /\ v.must = FALSE /\ v.password = Own
  BY Typed DEF Tables, User
<1>6. /\ Idle \in Frame /\ FrameOK(Idle, ids) /\ Idle.pc = "idle" /\ Idle.id = 0
      /\ jwt' \in BOOLEAN /\ draws' \in 0..MaxDraws /\ ghost' \in Ghost
  BY <1>1, IdleFrame, Typed
<1>7. id \in DOMAIN db.users =>
        /\ v.verify # None => <<"verify", v.verify>> \in db'.mails
        /\ v.reset # None => <<"reset", v.reset>> \in db'.mails
        /\ v.verified \/ v.verify # None \/ id \in ghost'.unmarked
  BY <1>1, <1>3, <1>5 DEF Inv, LinksAreMailed
<1>8. Own[1] # "drawn" /\ Own[1] # "given"
  BY DEF Own
<1> HIDE DEF id, v, w
<1> QED  BY <1>1, <1>3, <1>4, <1>5, <1>6, <1>7, <1>8, RowStep

LEMMA ResetUpdateStep ==
  ASSUME Inv, NEW i \in Handlers, ResetUpdate(i)  PROVE  Inv'
<1> DEFINE id == frames[i].id
           v == AfterReset(db.users[id])
           w == [x \in DOMAIN db.users |->
                   IF x = id THEN AfterReset(db.users[x]) ELSE db.users[x]]
<1>1. db' = [db EXCEPT !.users = w] /\ frames[i].pc = "reset" /\ Goto(i, Idle)
      /\ ghost' = [ghost EXCEPT !.uses[frames[i].n] = @ + 1]
      /\ UNCHANGED <<ids, draws, mix>> /\ jwt' = TRUE
  BY DEF ResetUpdate, Update, Done, Is, Used
<1>2. w \in [DOMAIN w -> User] /\ DOMAIN w \subseteq Ids
  <2>1. ASSUME NEW u \in User  PROVE  AfterReset(u) \in User
    BY DEF AfterReset, User, Own, Password
  <2> QED  BY <2>1, Typed DEF Tables
<1>3. /\ db' \in Tables(db') /\ db'.users = w /\ db'.profiles = db.profiles
      /\ db'.preferred = db.preferred /\ db'.codes = db.codes
      /\ db'.mails = db.mails
  BY <1>1, <1>2, UsersChange DEF Inv, Control
<1>4. Row(id, v)
  BY <1>2, <1>3 DEF Row
<1>5. id \in DOMAIN db.users =>
           /\ v.verify = db.users[id].verify /\ v.reset = None
           /\ v.verified = db.users[id].verified
           /\ v.must = FALSE /\ v.password = Own
  BY Typed DEF Tables, User, AfterReset
<1>6. ghost' \in Ghost /\ ghost'.lost = ghost.lost
      /\ ghost'.unmarked = ghost.unmarked
  <2>1. frames[i].n \in Draws
    BY <1>1, Typed DEF FrameOK, OnDraw
  <2> QED  BY <1>1, <2>1, Typed, GhostFields DEF Ghost
<1>7. /\ Idle \in Frame /\ FrameOK(Idle, ids) /\ Idle.pc = "idle" /\ Idle.id = 0
      /\ jwt' \in BOOLEAN /\ draws' \in 0..MaxDraws
  BY <1>1, IdleFrame, Typed
<1>8. id \in DOMAIN db.users =>
        /\ v.verify # None => <<"verify", v.verify>> \in db'.mails
        /\ v.verified \/ v.verify # None \/ id \in ghost'.unmarked
  BY <1>3, <1>5, <1>6 DEF Inv, LinksAreMailed
<1>9. Own[1] # "drawn" /\ Own[1] # "given"
  BY DEF Own
<1> HIDE DEF id, v, w
<1> QED  BY <1>1, <1>3, <1>4, <1>5, <1>6, <1>7, <1>8, <1>9, RowStep

LEMMA GenerateUpdateStep ==
  ASSUME Inv, NEW i \in Handlers, GenerateUpdate(i)  PROVE  Inv'
<1>1. PICK n : n = draws'
  OBVIOUS
<1> DEFINE id == frames[i].id
           v == [db.users[id] EXCEPT !.password = <<"drawn", n>>, !.must = TRUE]
           w == [x \in DOMAIN db.users |->
                   IF x = id THEN [db.users[x] EXCEPT
                                     !.password = <<"drawn", n>>, !.must = TRUE]
                   ELSE db.users[x]]
           f == At("mail password", id, n)
<1>2. db' = [db EXCEPT !.users = w] /\ frames[i].pc = "generate" /\ Goto(i, f)
      /\ UNCHANGED <<jwt, ids, mix, ghost>>
  BY <1>1 DEF GenerateUpdate, Update, Is
<1>3. n \in Draws /\ n \in 0..MaxDraws
  BY <1>1, Drawing DEF GenerateUpdate, Inv
<1>4. w \in [DOMAIN w -> User] /\ DOMAIN w \subseteq Ids
  <2>1. ASSUME NEW u \in User
        PROVE  [u EXCEPT !.password = <<"drawn", n>>, !.must = TRUE] \in User
    BY <1>3 DEF User, Password
  <2> QED  BY <2>1, Typed DEF Tables
<1>5. /\ db' \in Tables(db') /\ db'.users = w /\ db'.profiles = db.profiles
      /\ db'.preferred = db.preferred /\ db'.codes = db.codes
      /\ db'.mails = db.mails
  BY <1>2, <1>4, UsersChange DEF Inv, Control
<1>6. Row(id, v)
  BY <1>4, <1>5 DEF Row
<1>7. id \in DOMAIN db.users =>
           /\ v.verify = db.users[id].verify /\ v.reset = db.users[id].reset
           /\ v.verified = db.users[id].verified
           /\ v.must = TRUE /\ v.password = <<"drawn", n>>
  BY Typed DEF Tables, User
<1>8. id \in DOMAIN db.users =>
        /\ v.verify # None => <<"verify", v.verify>> \in db'.mails
        /\ v.reset # None => <<"reset", v.reset>> \in db'.mails
        /\ v.verified \/ v.verify # None \/ id \in ghost'.unmarked
  BY <1>2, <1>5, <1>7 DEF Inv, LinksAreMailed
<1>9. id \in Ids /\ id <= ids /\ ids \in Nat
  BY <1>2, OnAccountFacts DEF Inv, OnAccount, Pcs
<1>10. f \in Frame /\ FrameOK(f, ids)
  BY <1>3, <1>9, AtOK DEF Pcs, OnToken
<1>11. f.pc = "mail password" /\ f.id = frames[i].id /\ f.n = n
  BY DEF At, Idle
<1>12. /\ <<"drawn", n>> # Own /\ <<"drawn", n>>[2] = n
       /\ <<"drawn", n>>[1] # "given"
  BY DEF Own
<1>13. jwt' \in BOOLEAN /\ draws' \in 0..MaxDraws /\ ghost' \in Ghost
  BY <1>1, <1>2, <1>3, Typed
<1>14. id \in DOMAIN db.users =>
         /\ v.must <=> v.password # Own
         /\ f.pc = "mail password" /\ f.n = v.password[2]
  BY <1>7, <1>11, <1>12
<1>15. id \in DOMAIN db.users => v.password[1] # "given"
  BY <1>7, <1>12, Zenon
<1>16. id \in DOMAIN db.users =>
         (db.users[id].verified => v.verified \/ id \in ghost'.unmarked)
  BY <1>7, Zenon
<1> HIDE DEF id, v, w, f
<1> QED  BY <1>2, <1>5, <1>6, <1>8, <1>10, <1>11, <1>13, <1>14, <1>15, <1>16,
            RowStep

\* The link and its mail become visible together.
LEMMA CommitLinkStep ==
  ASSUME Inv, NEW i \in Handlers, CommitLink(i)  PROVE  Inv'
<1> DEFINE g == frames[i]
           id == g.id
           r(u) == IF g.pc = "commit link" THEN [u EXCEPT !.verify = g.n]
                   ELSE [u EXCEPT !.reset = g.n, !.expired = FALSE]
           v == r(db.users[id])
           w == [x \in DOMAIN db.users |->
                   IF x = id THEN r(db.users[x]) ELSE db.users[x]]
           kind == IF g.pc = "commit link" THEN "verify" ELSE "reset"
<1>1. /\ db' = [[db EXCEPT !.users = w]
                  EXCEPT !.mails = @ \cup {<<kind, g.n>>}]
      /\ g.pc \in {"commit link", "commit reset"} /\ Goto(i, Idle)
      /\ UNCHANGED <<jwt, ids, draws, mix, ghost>>
  BY DEF CommitLink, Sent, Relink, Update, Done
<1>2. g.n \in Draws
  BY <1>1, Typed DEF FrameOK, OnDraw, Committing
<1>3. ASSUME NEW u \in User
      PROVE  /\ r(u) \in User /\ r(u).must = u.must
             /\ r(u).password = u.password /\ r(u).verified = u.verified
             /\ \/ /\ kind = "verify" /\ r(u).verify = g.n
                   /\ r(u).reset = u.reset
                \/ /\ kind = "reset" /\ r(u).reset = g.n
                   /\ r(u).verify = u.verify
  <2>1. CASE g.pc = "commit link"
    BY <1>2, <2>1 DEF User
  <2>2. CASE g.pc # "commit link"
    BY <1>2, <2>2 DEF User
  <2> QED  BY <2>1, <2>2
<1>4. kind \in {"verify", "reset"}
  OBVIOUS
<1> HIDE DEF r, kind
<1>5. w \in [DOMAIN w -> User] /\ DOMAIN w \subseteq Ids
  BY <1>3, Typed DEF Tables
<1>6. /\ db' \in Tables(db') /\ db'.users = w /\ db'.profiles = db.profiles
      /\ db'.preferred = db.preferred /\ db'.codes = db.codes
      /\ db'.mails = db.mails \cup {<<kind, g.n>>}
  <2>1. <<kind, g.n>> \in Mail
    BY <1>2, <1>4 DEF Mail
  <2> HIDE DEF w, g
  <2> QED  BY <1>1, <1>5, <2>1, UsersAndMailsChange DEF Inv, Control
<1>7. Row(id, v)
  BY <1>5, <1>6 DEF Row
<1>8. /\ Idle \in Frame /\ FrameOK(Idle, ids) /\ Idle.pc = "idle" /\ Idle.id = 0
      /\ jwt' \in BOOLEAN /\ draws' \in 0..MaxDraws /\ ghost' \in Ghost
  BY <1>1, IdleFrame, Typed
<1>9. ASSUME id \in DOMAIN db.users
      PROVE  /\ v.verify # None => <<"verify", v.verify>> \in db'.mails
             /\ v.reset # None => <<"reset", v.reset>> \in db'.mails
             /\ v.verified \/ v.verify # None \/ id \in ghost'.unmarked
             /\ v.must <=> v.password # Own
             /\ v.password = db.users[id].password
             /\ v.verified = db.users[id].verified
  <2>1. db.users[id] \in User
    BY <1>9, Typed DEF Tables
  <2>2. g.n # None
    BY <1>2, NoneIsNothing
  <2>3. LET u == db.users[id]
        IN  /\ u.verify # None => <<"verify", u.verify>> \in db.mails
            /\ u.reset # None => <<"reset", u.reset>> \in db.mails
            /\ u.verified \/ u.verify # None \/ id \in ghost.unmarked
            /\ u.must <=> u.password # Own
    BY <1>9 DEF Inv, LinksAreMailed, Passwords
  <2> HIDE DEF id, g
  <2> QED  BY <1>1, <1>3, <1>6, <2>1, <2>2, <2>3
<1> HIDE DEF id, v, w
<1> QED  BY <1>1, <1>6, <1>7, <1>8, <1>9, RowStep

-----------------------------------------------------------------------------
(***************************************************************************)
(* Statements on the other tables, and a handler that is cut short.        *)
(***************************************************************************)
\* The accounts, and the code of each login, stay as they are.
LEMMA QuietStep ==
  ASSUME Inv, NEW i \in Handlers, NEW f \in Frame, Goto(i, f),
         FrameOK(f, ids), f.pc \notin {"commit signup", "prefer"},
         f.id \in {frames[i].id, 0}, UNCHANGED <<ids, mix>>,
         frames[i].pc \notin {"mail password", "send"},
         jwt' \in BOOLEAN, draws' \in 0..MaxDraws, ghost' \in Ghost,
         ghost.lost \subseteq ghost'.lost,
         ghost.unmarked \subseteq ghost'.unmarked,
         db' \in Tables(db'), db'.users = db.users, db'.profiles = db.profiles,
         db'.preferred = db.preferred, db.mails \subseteq db'.mails,
         \A t \in DOMAIN db'.codes : /\ t \in DOMAIN db.codes
                                     /\ db'.codes[t].code = db.codes[t].code
                                     /\ db'.codes[t].user = db.codes[t].user
  PROVE  Inv'
<1>1. Control' /\ PassedGates' /\ GatesHold'
  <2>1. /\ DOMAIN db'.users = DOMAIN db.users /\ DOMAIN db'.codes \subseteq Draws
        /\ \A t \in DOMAIN db'.codes : db'.codes[t].user \in DOMAIN db.users
    BY DEF Inv, Control, TypeOK, CodesOwned
  <2>2. StillPassed
    BY PassedKept
  <2> QED  BY <2>1, <2>2, TablesStep
<1>2. LinksAreMailed' /\ Passwords' /\ CurrentCodeIsSent'
  BY LinksKept, PasswordsKept, CodesKept DEF Inv
<1> QED  BY <1>1, <1>2 DEF Inv

\* A handler ends, and what it was to send is in a mail, or lost with it.
LEMMA LastStep ==
  ASSUME Inv, NEW i \in Handlers, Goto(i, Idle),
         UNCHANGED <<jwt, ids, draws, mix>>, ghost' \in Ghost,
         ghost.lost \subseteq ghost'.lost, ghost'.unmarked = ghost.unmarked,
         db' \in Tables(db'), db'.users = db.users, db'.profiles = db.profiles,
         db'.preferred = db.preferred, db'.codes = db.codes,
         db.mails \subseteq db'.mails,
         Mailing(frames[i]) \subseteq db'.mails \cup ghost'.lost
  PROVE  Inv'
<1>1. Control' /\ PassedGates' /\ GatesHold'
  <2>1. /\ DOMAIN db'.users = DOMAIN db.users /\ DOMAIN db'.codes \subseteq Draws
        /\ \A t \in DOMAIN db'.codes : db'.codes[t].user \in DOMAIN db.users
        /\ jwt' \in BOOLEAN /\ draws' \in 0..MaxDraws
    BY Typed DEF Inv, Control, TypeOK, CodesOwned
  <2>2. /\ Idle \in Frame /\ FrameOK(Idle, ids) /\ Idle.id = 0
        /\ Idle.pc = "idle"
    BY IdleFrame, Typed
  <2>3. StillPassed
    BY PassedKept
  <2> QED  BY <2>1, <2>2, <2>3, TablesStep
<1>2. LinksAreMailed'
  BY LinksKept DEF Inv
<1>3. ASSUME NEW n, InFlight("mail password", n)
      PROVE  \/ <<"password", n>> \in db'.mails \cup ghost'.lost
             \/ InFlight("mail password", n)'
  <2>1. PICK k \in Handlers : frames[k].pc = "mail password" /\ frames[k].n = n
    BY <1>3 DEF InFlight, Is
  <2>2. CASE k = i
    BY <2>1, <2>2 DEF Mailing
  <2>3. CASE k # i
    BY <2>1, <2>3, Typed DEF InFlight, Is, Goto
  <2> QED  BY <2>2, <2>3
<1>4. ASSUME NEW n, InFlight("send", n)
      PROVE  \/ <<"code", n>> \in db'.mails \cup ghost'.lost
             \/ InFlight("send", n)'
  <2>1. PICK k \in Handlers : frames[k].pc = "send" /\ frames[k].n = n
    BY <1>4 DEF InFlight, Is
  <2>2. CASE k = i
    BY <2>1, <2>2 DEF Mailing
  <2>3. CASE k # i
    BY <2>1, <2>3, Typed DEF InFlight, Is, Goto
  <2> QED  BY <2>2, <2>3
<1>5. Passwords'
  <2> SUFFICES ASSUME NEW id \in DOMAIN db.users, NEW u, u = db.users[id],
                      NEW n, n = u.password[2]
               PROVE  /\ u.must <=> u.password # Own
                      /\ u.password[1] = "drawn" =>
                           \/ <<"password", n>> \in db'.mails \cup ghost'.lost
                           \/ InFlight("mail password", n)'
    BY DEF Passwords
  <2>1. /\ u.must <=> u.password # Own
        /\ u.password[1] = "drawn" =>
             \/ <<"password", n>> \in db.mails \cup ghost.lost
             \/ InFlight("mail password", n)
    BY DEF Inv, Passwords
  <2> QED  BY <1>3, <2>1
<1>6. CurrentCodeIsSent'
  <2> SUFFICES ASSUME NEW t \in DOMAIN db.codes, NEW n, n = db.codes[t].code
               PROVE  \/ <<"code", n>> \in db'.mails \cup ghost'.lost
                      \/ InFlight("send", n)'
    BY DEF CurrentCodeIsSent
  <2>1. <<"code", n>> \in db.mails \cup ghost.lost \/ InFlight("send", n)
    BY DEF Inv, CurrentCodeIsSent
  <2> QED  BY <1>4, <2>1
<1> QED  BY <1>1, <1>2, <1>5, <1>6 DEF Inv

LEMMA MailingStep ==
  ASSUME Inv, NEW i \in Handlers, MailPassword(i) \/ SendCode(i)  PROVE  Inv'
<1>1. PICK kind \in {"password", "code"} :
        /\ db' = Sent(db, kind, frames[i].n) /\ Goto(i, Idle)
        /\ UNCHANGED <<jwt, ids, draws, mix, ghost>>
        /\ \/ kind = "password" /\ frames[i].pc = "mail password"
           \/ kind = "code" /\ frames[i].pc = "send"
  BY DEF MailPassword, SendCode, Done, Is
<1>2. frames[i].n \in Draws
  BY <1>1, Typed DEF FrameOK, OnDraw
<1>3. /\ db' \in Tables(db') /\ db'.users = db.users
      /\ db'.profiles = db.profiles /\ db'.preferred = db.preferred
      /\ db'.codes = db.codes
      /\ db'.mails = db.mails \cup {<<kind, frames[i].n>>}
  BY <1>1, <1>2, MailsChange DEF Inv, Control
<1>4. Mailing(frames[i]) = {<<kind, frames[i].n>>}
  BY <1>1 DEF Mailing
<1>5. ghost' \in Ghost
  BY <1>1, Typed
<1> QED  BY <1>1, <1>3, <1>4, <1>5, LastStep

\* An open transaction is rolled back; the tables stay as they are.
LEMMA AbortStep ==
  ASSUME Inv, NEW i \in Handlers, Abort(i)  PROVE  Inv'
<1>1. /\ ghost' = [ghost EXCEPT !.lost = ghost.lost \cup Mailing(frames[i])]
      /\ Goto(i, Idle) /\ UNCHANGED <<db, jwt, ids, draws, mix>>
  BY DEF Abort, Done
<1>2. Mailing(frames[i]) \subseteq Mail
  <2>1. frames[i].pc \in {"mail password", "send"} => frames[i].n \in Draws
    BY Typed DEF FrameOK, OnDraw
  <2>2. ASSUME NEW n \in Draws
        PROVE  {<<"password", n>>} \subseteq Mail /\ {<<"code", n>>} \subseteq Mail
    BY DEF Mail
  <2>3. CASE frames[i].pc = "mail password"
    BY <2>1, <2>2, <2>3 DEF Mailing
  <2>4. CASE frames[i].pc = "send"
    BY <2>1, <2>2, <2>4 DEF Mailing
  <2>5. CASE frames[i].pc \notin {"mail password", "send"}
    BY <2>5 DEF Mailing
  <2> QED  BY <2>3, <2>4, <2>5
<1>3. /\ ghost' \in Ghost /\ ghost'.unmarked = ghost.unmarked
      /\ ghost'.lost = ghost.lost \cup Mailing(frames[i])
  BY <1>1, <1>2, Typed DEF Ghost
<1> QED  BY <1>1, <1>3, Typed, LastStep

LEMMA WrongCodeStep ==
  ASSUME Inv, NEW i \in Handlers, WrongCode(i)  PROVE  Inv'
<1> DEFINE w == [x \in DOMAIN db.codes |->
                   IF x = frames[i].token
                   THEN [db.codes[x] EXCEPT !.tries = @ + 1]
                   ELSE db.codes[x]]
<1>1. /\ db' = [db EXCEPT !.codes = w] /\ Goto(i, Idle)
      /\ frames[i].pc = "wrong" /\ UNCHANGED <<jwt, ids, draws, mix, ghost>>
  BY DEF WrongCode, UpdateCode, Done, Is
<1>2. ASSUME NEW c \in Login
      PROVE  /\ [c EXCEPT !.tries = @ + 1] \in Login
             /\ [c EXCEPT !.tries = @ + 1].code = c.code
             /\ [c EXCEPT !.tries = @ + 1].user = c.user
  BY DEF Login
<1>3. /\ w \in [DOMAIN w -> Login] /\ DOMAIN w \subseteq Draws
      /\ \A t \in DOMAIN w : /\ t \in DOMAIN db.codes
                             /\ w[t].code = db.codes[t].code
                             /\ w[t].user = db.codes[t].user
  BY <1>2, Typed DEF Tables
<1> HIDE DEF w
<1>4. /\ db' \in Tables(db') /\ db'.users = db.users
      /\ db'.profiles = db.profiles /\ db'.preferred = db.preferred
      /\ db'.codes = w /\ db'.mails = db.mails
  BY <1>1, <1>3, CodesChange DEF Inv, Control
<1>5. /\ Idle \in Frame /\ FrameOK(Idle, ids) /\ Idle.id = 0 /\ Idle.pc = "idle"
      /\ jwt' \in BOOLEAN /\ draws' \in 0..MaxDraws /\ ghost' \in Ghost
  BY <1>1, IdleFrame, Typed
<1> QED  BY <1>1, <1>3, <1>4, <1>5, QuietStep

LEMMA UseCodeStep ==
  ASSUME Inv, NEW i \in Handlers, UseCode(i)  PROVE  Inv'
<1> DEFINE w == [x \in DOMAIN db.codes |->
                   IF x = frames[i].token
                   THEN [db.codes[x] EXCEPT !.used = TRUE]
                   ELSE db.codes[x]]
<1>1. /\ db' = [db EXCEPT !.codes = w] /\ frames[i].pc = "use"
      /\ ghost' = [ghost EXCEPT !.uses[frames[i].n] = @ + 1]
      /\ UNCHANGED <<ids, draws, mix>>
  BY DEF UseCode, UpdateCode, Is, Used
<1>2. \/ Goto(i, Idle) /\ jwt' = TRUE
      \/ /\ Goto(i, [frames[i] EXCEPT !.pc = "trust"]) /\ jwt' = jwt
         /\ frames[i].device # None
  BY DEF UseCode, Done
<1> SUFFICES ASSUME NEW f, Goto(i, f),
                    \/ f = Idle
                    \/ /\ f = [frames[i] EXCEPT !.pc = "trust"]
                       /\ frames[i].device # None
             PROVE  Inv'
  BY <1>2
<1>3. ASSUME NEW c \in Login
      PROVE  /\ [c EXCEPT !.used = TRUE] \in Login
             /\ [c EXCEPT !.used = TRUE].code = c.code
             /\ [c EXCEPT !.used = TRUE].user = c.user
  BY DEF Login
<1>4. /\ w \in [DOMAIN w -> Login] /\ DOMAIN w \subseteq Draws
      /\ \A t \in DOMAIN w : /\ t \in DOMAIN db.codes
                             /\ w[t].code = db.codes[t].code
                             /\ w[t].user = db.codes[t].user
  BY <1>3, Typed DEF Tables
<1> HIDE DEF w
<1>5. /\ db' \in Tables(db') /\ db'.users = db.users
      /\ db'.profiles = db.profiles /\ db'.preferred = db.preferred
      /\ db'.codes = w /\ db'.mails = db.mails
  BY <1>1, <1>4, CodesChange DEF Inv, Control
<1>6. /\ frames[i] \in Frame /\ FrameOK(frames[i], ids) /\ ids \in Nat
      /\ jwt' \in BOOLEAN /\ draws' \in 0..MaxDraws
  BY <1>1, <1>2, Typed
<1>7. f \in Frame
  BY <1>6, IdleFrame, FrameFields DEF Pcs
<1>8. FrameOK(f, ids) /\ f.id \in {frames[i].id, 0} /\ f.pc \in {"idle", "trust"}
  <2>1. CASE f = Idle
    BY <2>1, <1>6, IdleFrame
  <2>2. CASE /\ f = [frames[i] EXCEPT !.pc = "trust"]
             /\ frames[i].device # None
    BY <2>2, <1>1, <1>6 DEF FrameOK, OnDraw, OnToken, Committing, Frame,
                            OnAccount, Pcs
  <2> QED  BY <2>1, <2>2
<1>9. /\ ghost' \in Ghost /\ ghost'.lost = ghost.lost
      /\ ghost'.unmarked = ghost.unmarked
  <2>1. frames[i].n \in Draws
    BY <1>1, <1>6 DEF FrameOK, OnDraw
  <2> QED  BY <1>1, <2>1, Typed, GhostFields DEF Ghost
<1> QED  BY <1>1, <1>4, <1>5, <1>6, <1>7, <1>8, <1>9, QuietStep, ZenonT(60)

LEMMA LoginCountStep ==
  ASSUME Inv, NEW i \in Handlers, LoginCount(i)  PROVE  Inv'
<1> DEFINE k == frames[i].id
           row == db.attempts[k]
           new == [n |-> row.n + 1,
                   lock |-> IF row.n > 0 /\ row.n + 1 >= LoginMaxAttempts
                            THEN "on" ELSE row.lock]
<1>1. /\ db' = [db EXCEPT !.attempts[k] = new] /\ Goto(i, Idle)
      /\ frames[i].pc = "count" /\ UNCHANGED <<jwt, ids, draws, mix>>
      /\ \E x \in Nat : ghost' = [ghost EXCEPT !.overrun[k] = x]
  <2>1. /\ k \in Keys /\ ghost.overrun[k] + 1 \in Nat
    BY Typed DEF Frame, Ghost
  <2>2. ghost' = [ghost EXCEPT !.overrun[k] = IF row.lock = "on"
                                              THEN ghost.overrun[k] + 1 ELSE 0]
    BY DEF LoginCount
  <2>3. \E x \in Nat : ghost' = [ghost EXCEPT !.overrun[k] = x]
    BY <2>1, <2>2
  <2> QED  BY <2>3 DEF LoginCount, Done, Is
<1>2. k \in Keys
  BY Typed DEF Frame
<1>3. new \in [n : Nat, lock : {"none", "on", "past"}]
  BY <1>2, Typed DEF Tables
<1> HIDE DEF new
<1>4. /\ db' \in Tables(db') /\ db'.users = db.users
      /\ db'.profiles = db.profiles /\ db'.preferred = db.preferred
      /\ db'.codes = db.codes /\ db'.mails = db.mails
  BY <1>1, <1>2, <1>3, Typed DEF Tables
<1>5. /\ Idle \in Frame /\ FrameOK(Idle, ids) /\ Idle.id = 0 /\ Idle.pc = "idle"
      /\ jwt' \in BOOLEAN /\ draws' \in 0..MaxDraws
  BY <1>1, IdleFrame, Typed
<1>6. /\ ghost' \in Ghost /\ ghost'.lost = ghost.lost
      /\ ghost'.unmarked = ghost.unmarked
  <2>1. ghost' \in Ghost
    BY <1>1, <1>2, Typed, GhostFields
  <2>2. ghost'.lost = ghost.lost /\ ghost'.unmarked = ghost.unmarked
    BY <1>1, Typed DEF Ghost
  <2> QED  BY <2>1, <2>2
<1> HIDE DEF k
<1> QED  BY <1>1, <1>4, <1>5, <1>6, QuietStep

LEMMA LoginClearStep ==
  ASSUME Inv, NEW i \in Handlers, LoginClear(i)  PROVE  Inv'
<1> DEFINE k == frames[i].id
           new == [n |-> 0, lock |-> "none"]
<1>1. /\ db' = [db EXCEPT !.attempts[k] = new]
      /\ ghost' = [ghost EXCEPT !.overrun[k] = 0]
      /\ frames[i].pc = "clear" /\ UNCHANGED <<jwt, ids, draws, mix>>
  BY DEF LoginClear, Is
<1>2. Goto(i, Idle) \/ Goto(i, [frames[i] EXCEPT !.pc = "device"])
  BY DEF LoginClear, Done
<1> SUFFICES ASSUME NEW f, Goto(i, f),
                    f = Idle \/ f = [frames[i] EXCEPT !.pc = "device"]
             PROVE  Inv'
  BY <1>2
<1>3. k \in Keys /\ 0 \in Nat
  BY Typed DEF Frame
<1>4. new \in [n : Nat, lock : {"none", "on", "past"}]
  OBVIOUS
<1> HIDE DEF new
<1>5. /\ db' \in Tables(db') /\ db'.users = db.users
      /\ db'.profiles = db.profiles /\ db'.preferred = db.preferred
      /\ db'.codes = db.codes /\ db'.mails = db.mails
  BY <1>1, <1>3, <1>4, Typed DEF Tables
<1>6. /\ frames[i] \in Frame /\ FrameOK(frames[i], ids) /\ ids \in Nat
      /\ jwt' \in BOOLEAN /\ draws' \in 0..MaxDraws
  BY <1>1, Typed
<1>7. f \in Frame
  BY <1>6, IdleFrame, FrameFields DEF Pcs
<1>8. FrameOK(f, ids) /\ f.id \in {frames[i].id, 0}
      /\ f.pc \in {"idle", "device"}
  <2>1. CASE f = Idle
    BY <2>1, <1>6, IdleFrame
  <2>2. CASE f = [frames[i] EXCEPT !.pc = "device"]
    BY <2>2, <1>1, <1>6 DEF FrameOK, OnDraw, OnToken, Committing, Frame,
                            OnAccount, Pcs
  <2> QED  BY <2>1, <2>2
<1>9. /\ ghost' \in Ghost /\ ghost'.lost = ghost.lost
      /\ ghost'.unmarked = ghost.unmarked
  <2>1. ghost' \in Ghost
    BY <1>1, <1>3, Typed, GhostFields
  <2>2. ghost'.lost = ghost.lost /\ ghost'.unmarked = ghost.unmarked
    BY <1>1, Typed DEF Ghost
  <2> QED  BY <2>1, <2>2
<1> HIDE DEF k
<1> QED  BY <1>1, <1>5, <1>6, <1>7, <1>8, <1>9, QuietStep

LEMMA TrustDeviceStep ==
  ASSUME Inv, NEW i \in Handlers, TrustDevice(i)  PROVE  Inv'
<1> DEFINE p == <<frames[i].id, frames[i].device>>
<1>1. /\ db' = db \/ /\ db' = [db EXCEPT !.devices = @ \cup {p}]
                     /\ frames[i].id \in DOMAIN db.users
      /\ Goto(i, Idle) /\ frames[i].pc = "trust" /\ jwt' = TRUE
      /\ UNCHANGED <<ids, draws, mix, ghost>>
  BY DEF TrustDevice, Done, Is
<1>2. /\ db' \in Tables(db') /\ db'.users = db.users
      /\ db'.profiles = db.profiles /\ db'.preferred = db.preferred
      /\ db'.codes = db.codes /\ db'.mails = db.mails
  <2>1. CASE db' = db
    BY <2>1, Typed
  <2>2. CASE /\ db' = [db EXCEPT !.devices = @ \cup {p}]
             /\ frames[i].id \in DOMAIN db.users
    <3>1. frames[i].id \in Ids
      BY <2>2, AccountIds DEF Inv
    <3>2. frames[i].device \in Devices
      BY <1>1, Typed DEF FrameOK, Frame
    <3>3. db.devices \cup {p} \subseteq Ids \X Devices
      BY <3>1, <3>2, Typed DEF Tables
    <3> QED  BY <2>2, <3>3, Typed DEF Tables
  <2> QED  BY <1>1, <2>1, <2>2
<1>3. /\ Idle \in Frame /\ FrameOK(Idle, ids) /\ Idle.id = 0 /\ Idle.pc = "idle"
      /\ jwt' \in BOOLEAN /\ draws' \in 0..MaxDraws /\ ghost' \in Ghost
  BY <1>1, IdleFrame, Typed
<1> QED  BY <1>1, <1>2, <1>3, QuietStep

\* A code is stored under t, and the handler goes on to send it.
LEMMA StoreStep ==
  ASSUME Inv, NEW i \in Handlers, NEW f \in Frame, Goto(i, f), FrameOK(f, ids),
         f.pc = "send", f.id = frames[i].id, UNCHANGED <<jwt, ids, mix, ghost>>,
         draws' \in 0..MaxDraws, frames[i].pc \notin {"mail password", "send"},
         db' \in Tables(db'), db'.users = db.users, db'.profiles = db.profiles,
         db'.preferred = db.preferred, db'.mails = db.mails,
         DOMAIN db'.codes \subseteq Draws, NEW t,
         \A x \in DOMAIN db'.codes \ {t} : x \in DOMAIN db.codes
                                           /\ db'.codes[x] = db.codes[x],
         t \in DOMAIN db'.codes => /\ db'.codes[t].user \in DOMAIN db.users
                                   /\ db'.codes[t].code = f.n
  PROVE  Inv'
<1>1. Control' /\ PassedGates' /\ GatesHold'
  <2>1. /\ DOMAIN db'.users = DOMAIN db.users
        /\ \A x \in DOMAIN db'.codes : db'.codes[x].user \in DOMAIN db.users
        /\ jwt' \in BOOLEAN /\ ghost' \in Ghost
    BY Typed DEF Inv, Control, CodesOwned
  <2>2. StillPassed
    BY PassedKept
  <2> QED  BY <2>1, <2>2, TablesStep
<1>2. LinksAreMailed' /\ Passwords'
  BY LinksKept, PasswordsKept DEF Inv
<1>3. CurrentCodeIsSent'
  <2> SUFFICES ASSUME NEW x \in DOMAIN db'.codes, NEW n, n = db'.codes[x].code
               PROVE  \/ <<"code", n>> \in db'.mails \cup ghost'.lost
                      \/ InFlight("send", n)'
    BY DEF CurrentCodeIsSent
  <2>1. CASE x = t
    <3>1. frames'[i] = f /\ f.n = n
      BY <2>1, Typed DEF Goto
    <3> QED  BY <3>1 DEF InFlight, Is
  <2>2. CASE x # t
    <3>1. <<"code", n>> \in db.mails \cup ghost.lost \/ InFlight("send", n)
      BY <2>2 DEF Inv, CurrentCodeIsSent
    <3>2. InFlight("send", n) => InFlight("send", n)'
      BY FlightKept DEF Inv
    <3> QED  BY <3>1, <3>2
  <2> QED  BY <2>1, <2>2
<1> QED  BY <1>1, <1>2, <1>3 DEF Inv

LEMMA LoginCodeStep ==
  ASSUME Inv, NEW i \in Handlers, LoginCode(i)  PROVE  Inv'
<1>1. PICK n : n = draws'
  OBVIOUS
<1>2. n \in Draws /\ n \in 0..MaxDraws /\ draws' \in 0..MaxDraws
  BY <1>1, Drawing DEF LoginCode, Inv
<1>3. frames[i].pc = "code" /\ UNCHANGED <<jwt, ids, mix, ghost>>
  BY DEF LoginCode, Is
<1>4. CASE frames[i].id \notin DOMAIN db.users
  <2>1. Goto(i, Idle) /\ UNCHANGED db
    BY <1>4 DEF LoginCode, Done
  <2>2. /\ Idle \in Frame /\ FrameOK(Idle, ids) /\ Idle.id = 0
        /\ Idle.pc = "idle" /\ jwt' \in BOOLEAN
    BY <1>3, IdleFrame, Typed
  <2> QED  BY <1>2, <1>3, <2>1, <2>2, MoveStep
<1>5. CASE frames[i].id \in DOMAIN db.users
  <2> DEFINE row == [user |-> frames[i].id, code |-> n, expired |-> FALSE,
                     used |-> FALSE, tries |-> 0, resends |-> 0]
             w == [x \in DOMAIN db.codes \cup {n} |->
                     IF x = n THEN row ELSE db.codes[x]]
             f == At("send", frames[i].id, n)
  <2>1. db' = [db EXCEPT !.codes = w] /\ Goto(i, f)
    BY <1>1, <1>5 DEF LoginCode, Insert
  <2>2. frames[i].id \in Ids /\ frames[i].id <= ids /\ ids \in Nat
    BY <1>5, AccountIds DEF Inv
  <2>3. row \in Login
    BY <1>2, <2>2 DEF Login
  <2>4. /\ row.user = frames[i].id /\ row.code = n
    OBVIOUS
  <2> HIDE DEF row
  <2>5. /\ w \in [DOMAIN w -> Login] /\ DOMAIN w \subseteq Draws /\ w[n] = row
        /\ \A x \in DOMAIN w \ {n} : x \in DOMAIN db.codes /\ w[x] = db.codes[x]
    BY <1>2, <2>3, Typed DEF Tables
  <2> HIDE DEF w
  <2>6. /\ db' \in Tables(db') /\ db'.users = db.users
        /\ db'.profiles = db.profiles /\ db'.preferred = db.preferred
        /\ db'.codes = w /\ db'.mails = db.mails
    BY <2>1, <2>5, CodesChange DEF Inv, Control
  <2>7. f \in Frame /\ FrameOK(f, ids)
    BY <1>2, <2>2, AtOK DEF Pcs, OnToken
  <2>8. f.pc = "send" /\ f.id = frames[i].id /\ f.n = n
    BY DEF At, Idle
  <2> HIDE DEF f
  <2>9. /\ DOMAIN db'.codes \subseteq Draws
        /\ \A x \in DOMAIN db'.codes \ {n} : /\ x \in DOMAIN db.codes
                                            /\ db'.codes[x] = db.codes[x]
        /\ n \in DOMAIN db'.codes => /\ db'.codes[n].user \in DOMAIN db.users
                                    /\ db'.codes[n].code = f.n
    BY <1>5, <2>4, <2>5, <2>6, <2>8
  <2>10. frames[i].pc \notin {"mail password", "send"}
    BY <1>3
  <2>11. Goto(i, f) /\ UNCHANGED <<jwt, ids, mix, ghost>>
    BY <1>3, <2>1
  <2> QED  BY <1>2, <2>6, <2>7, <2>8, <2>9, <2>10, <2>11, StoreStep
<1> QED  BY <1>4, <1>5

LEMMA RecodeUpdateStep ==
  ASSUME Inv, NEW i \in Handlers, RecodeUpdate(i)  PROVE  Inv'
<1>1. PICK n, t : n = draws' /\ t = frames[i].token
  OBVIOUS
<1>2. n \in Draws /\ n \in 0..MaxDraws /\ draws' \in 0..MaxDraws
  BY <1>1, Drawing DEF RecodeUpdate, Inv
<1> DEFINE w == [x \in DOMAIN db.codes |->
                   IF x = t THEN Recoded(db.codes[x], n) ELSE db.codes[x]]
           f == At("send", frames[i].id, n)
<1>3. /\ db' = [db EXCEPT !.codes = w] /\ Goto(i, f) /\ frames[i].pc = "recode"
      /\ UNCHANGED <<jwt, ids, mix, ghost>>
  BY <1>1 DEF RecodeUpdate, UpdateCode, ToSend, Is
<1>4. ASSUME NEW c \in Login
      PROVE  /\ Recoded(c, n) \in Login /\ Recoded(c, n).code = n
             /\ Recoded(c, n).user = c.user
  <2>1. c.resends + 1 \in Nat
    BY DEF Login
  <2>2. Recoded(c, n) = [c EXCEPT !.code = n, !.resends = c.resends + 1,
                                  !.expired = FALSE]
    BY DEF Recoded
  <2> QED  BY <1>2, <2>1, <2>2 DEF Login
<1>5. /\ w \in [DOMAIN w -> Login] /\ DOMAIN w \subseteq Draws
      /\ DOMAIN w = DOMAIN db.codes
      /\ \A x \in DOMAIN w : x # t => w[x] = db.codes[x]
      /\ t \in DOMAIN w => w[t].code = n /\ w[t].user = db.codes[t].user
  BY <1>4, Typed DEF Tables
<1> HIDE DEF w
<1>6. /\ db' \in Tables(db') /\ db'.users = db.users
      /\ db'.profiles = db.profiles /\ db'.preferred = db.preferred
      /\ db'.codes = w /\ db'.mails = db.mails
  BY <1>3, <1>5, CodesChange DEF Inv, Control
<1>7. frames[i].id \in Ids /\ frames[i].id <= ids /\ ids \in Nat
  BY <1>3, OnAccountFacts DEF Inv, OnAccount, Pcs
<1>8. f \in Frame /\ FrameOK(f, ids)
  BY <1>2, <1>7, AtOK DEF Pcs, OnToken
<1>9. f.pc = "send" /\ f.id = frames[i].id /\ f.n = n
  BY DEF At, Idle
<1>10. t \in DOMAIN w => w[t].user \in DOMAIN db.users
  BY <1>5 DEF Inv, Control, CodesOwned
<1> HIDE DEF f
<1>11. /\ DOMAIN db'.codes \subseteq Draws
       /\ \A x \in DOMAIN db'.codes \ {t} : /\ x \in DOMAIN db.codes
                                           /\ db'.codes[x] = db.codes[x]
       /\ t \in DOMAIN db'.codes => /\ db'.codes[t].user \in DOMAIN db.users
                                   /\ db'.codes[t].code = f.n
  BY <1>5, <1>6, <1>9, <1>10
<1>12. frames[i].pc \notin {"mail password", "send"}
  BY <1>3
<1> QED  BY <1>2, <1>3, <1>6, <1>8, <1>9, <1>11, <1>12, StoreStep

-----------------------------------------------------------------------------
(***************************************************************************)
(* Profiles and preferences.                                               *)
(***************************************************************************)
LEMMA SaveProfileStep ==
  ASSUME Inv, NEW i \in Handlers, SaveProfile(i)  PROVE  Inv'
<1> DEFINE v == db.profiles \cup ({frames[i].id} \cap DOMAIN db.users)
<1>1. /\ db' = [db EXCEPT !.profiles = v] /\ Goto(i, Idle)
      /\ frames[i].pc = "profile" /\ UNCHANGED <<jwt, ids, draws, mix, ghost>>
  BY DEF SaveProfile, Done, Is
<1>2. v \subseteq Ids
  BY Typed DEF Tables
<1>3. db.profiles \subseteq v /\ v \subseteq db.profiles \cup DOMAIN db.users
  OBVIOUS
<1> HIDE DEF v
<1>4. /\ db' \in Tables(db') /\ db'.users = db.users /\ db'.profiles = v
      /\ db'.preferred = db.preferred /\ db'.codes = db.codes
      /\ db'.mails = db.mails
  BY <1>1, <1>2, Typed DEF Tables
<1>5. /\ Idle \in Frame /\ FrameOK(Idle, ids) /\ Idle.id = 0 /\ Idle.pc = "idle"
      /\ jwt' \in BOOLEAN /\ draws' \in 0..MaxDraws /\ ghost' \in Ghost
  BY <1>1, IdleFrame, Typed
<1>6. Control'
  <2>1. /\ DOMAIN db'.users = DOMAIN db.users /\ DOMAIN db'.codes \subseteq Draws
        /\ \A t \in DOMAIN db'.codes : db'.codes[t].user \in DOMAIN db.users
    BY <1>4, Typed DEF Inv, Control, CodesOwned
  <2>2. db'.profiles \cup db'.preferred \subseteq
          db.profiles \cup db.preferred \cup DOMAIN db.users
    BY <1>3, <1>4
  <2> QED  BY <1>1, <1>4, <1>5, <2>1, <2>2, ControlStep DEF Inv
<1>7. PassedGates' /\ GatesHold'
  <2>1. StillPassed
    BY <1>1, <1>3, <1>4, PassedKept
  <2> QED  BY <1>1, <1>4, <1>5, <2>1, GatesStep DEF Inv
<1>8. LinksAreMailed' /\ Passwords'
  BY <1>1, <1>4, LinksKept, PasswordsKept DEF Inv
<1>9. CurrentCodeIsSent'
  BY <1>1, <1>4, CodesKept DEF Inv
<1> QED  BY <1>6, <1>7, <1>8, <1>9 DEF Inv

\* The rows the gates looked at may have changed since, but not so that the
\* account would be behind a gate it had passed.
LEMMA AddPreferenceStep ==
  ASSUME Inv, NEW i \in Handlers, AddPreference(i)  PROVE  Inv'
<1> DEFINE v == db.preferred \cup ({frames[i].id} \cap DOMAIN db.users)
<1>1. /\ db' = [db EXCEPT !.preferred = v] /\ Goto(i, Idle)
      /\ frames[i].pc = "prefer" /\ UNCHANGED <<jwt, ids, draws, mix, ghost>>
  BY DEF AddPreference, Done, Is
<1>2. v \subseteq Ids
  BY Typed DEF Tables
<1>3. v \subseteq db.preferred \cup DOMAIN db.users
  OBVIOUS
<1>4. v \subseteq DOMAIN db.users /\ \A id \in v : Passed(id)
  <2>1. \A id \in db.preferred : Passed(id)
    BY DEF Inv, GatesHold, Passed
  <2> QED  BY <1>1, <2>1 DEF Inv, PassedGates, Is
<1> HIDE DEF v
<1>5. /\ db' \in Tables(db') /\ db'.users = db.users
      /\ db'.profiles = db.profiles /\ db'.preferred = v
      /\ db'.codes = db.codes /\ db'.mails = db.mails
  BY <1>1, <1>2, Typed DEF Tables
<1>6. /\ Idle \in Frame /\ FrameOK(Idle, ids) /\ Idle.id = 0 /\ Idle.pc = "idle"
      /\ jwt' \in BOOLEAN /\ draws' \in 0..MaxDraws /\ ghost' \in Ghost
  BY <1>1, IdleFrame, Typed
<1>7. Control'
  <2>1. /\ DOMAIN db'.users = DOMAIN db.users /\ DOMAIN db'.codes \subseteq Draws
        /\ \A t \in DOMAIN db'.codes : db'.codes[t].user \in DOMAIN db.users
    BY <1>5, Typed DEF Inv, Control, CodesOwned
  <2>2. db'.profiles \cup db'.preferred \subseteq
          db.profiles \cup db.preferred \cup DOMAIN db.users
    BY <1>3, <1>5
  <2> QED  BY <1>1, <1>5, <1>6, <2>1, <2>2, ControlStep DEF Inv
<1>8. GatesHold'
  BY <1>1, <1>4, <1>5 DEF GatesHold, Passed
<1>9. PassedGates'
  <2>1. \A k \in Handlers : frames'[k].pc = "prefer" => frames'[k] = frames[k]
    BY <1>1, <1>6, Typed DEF Goto
  <2>2. \A id : Passed(id) => Passed(id)'
    BY <1>1, <1>5 DEF Passed
  <2> QED  BY <1>4, <1>5, <2>1, <2>2 DEF Inv, PassedGates, Is
<1>10. LinksAreMailed' /\ Passwords'
  BY <1>1, <1>5, LinksKept, PasswordsKept DEF Inv
<1>11. CurrentCodeIsSent'
  BY <1>1, <1>5, CodesKept DEF Inv
<1> QED  BY <1>7, <1>8, <1>9, <1>10, <1>11 DEF Inv

-----------------------------------------------------------------------------
(***************************************************************************)
(* Accounts that come and go.                                              *)
(***************************************************************************)
\* The id a signup takes is above every other.
LEMMA SignupStep ==
  ASSUME Inv, NEW i \in Handlers, Signup(i)  PROVE  Inv'
<1>1. PICK n, id : n = draws' /\ id = ids + 1
  OBVIOUS
<1> DEFINE f == At("commit signup", id, n)
<1>2. /\ frames[i].pc = "idle" /\ Goto(i, f) /\ ids' = id /\ ids < MaxIds
      /\ DOMAIN db.users = {} /\ ~Inserting
      /\ UNCHANGED <<db, jwt, mix, ghost>>
  BY <1>1, IdleFrame DEF Signup, Enter
<1>3. n \in Draws /\ n \in 0..MaxDraws /\ draws' \in 0..MaxDraws
  BY <1>1, Drawing DEF Signup, Inv
<1>4. ids \in Nat /\ id \in Ids /\ id \in Nat /\ id > ids /\ id \in 0..MaxIds
  <2>1. ids \in Nat /\ MaxIds \in Nat /\ id = ids + 1 /\ ids < MaxIds
    BY <1>1, <1>2, Typed, Bounds
  <2> QED  BY <2>1 DEF Ids
<1>5. f \in Frame /\ FrameOK(f, id)
  <2>1. "commit signup" \in Pcs /\ "commit signup" \notin OnToken /\ id <= id
    BY <1>4 DEF Pcs, OnToken
  <2> QED  BY <1>3, <1>4, <2>1, AtOK
<1>6. f.pc = "commit signup" /\ f.id = id
  BY DEF At, Idle
<1> HIDE DEF f
<1>7. /\ frames' \in [Handlers -> Frame] /\ frames'[i] = f
      /\ \A k \in Handlers \ {i} : frames'[k] = frames[k]
  BY <1>2, <1>5, Typed DEF Goto
<1>8. \A k \in Handlers : frames[k].id <= ids /\ frames[k].id \in Int
  BY Typed, Bounds DEF FrameOK, Frame, Keys
<1>9. TypeOK'
  BY <1>2, <1>3, <1>4, <1>7 DEF Inv, Control, TypeOK
<1>10. FramesOK'
  <2>1. \A k \in Handlers : FrameOK(frames[k], ids) => FrameOK(frames[k], id)
    BY <1>4, <1>8 DEF FrameOK
  <2> QED  BY <1>2, <1>5, <1>7, <2>1, Typed DEF FramesOK
<1>11. IdsOK' /\ CodesOwned'
  BY <1>2, <1>4, Typed DEF Inv, Control, IdsOK, CodesOwned, Tables, Ids
<1>12. SignupOK'
  <2>1. \A k \in Handlers \ {i} : /\ frames'[k].pc # "commit signup"
                                  /\ frames'[k].id # id
    <3> SUFFICES ASSUME NEW k \in Handlers \ {i}
                 PROVE  frames[k].pc # "commit signup" /\ frames[k].id # id
      BY <1>7
    <3>1. frames[k].pc # "commit signup"
      BY <1>2 DEF Inserting, Is
    <3>2. frames[k].id # id
      BY <1>4, <1>8
    <3> QED  BY <3>1, <3>2
  <2> QED  BY <1>2, <1>6, <1>7, <2>1 DEF SignupOK, Is
<1>13. PassedGates' /\ GatesHold'
  BY <1>2, <1>6, <1>7 DEF Inv, PassedGates, Passed, GatesHold, Is
<1>14. LinksAreMailed' /\ Passwords' /\ CurrentCodeIsSent'
  BY <1>2, LinksKept, PasswordsKept, CodesKept DEF Inv
<1> QED  BY <1>9, <1>10, <1>11, <1>12, <1>13, <1>14 DEF Inv, Control

LEMMA CommitSignupStep ==
  ASSUME Inv, NEW i \in Handlers, CommitSignup(i)  PROVE  Inv'
<1>1. PICK id, n : id = frames[i].id /\ n = frames[i].n
  OBVIOUS
<1> DEFINE u == NewUser(Own, FALSE, FALSE, n)
           v == [x \in DOMAIN db.users \cup {id} |->
                   IF x = id THEN u ELSE db.users[x]]
<1>2. /\ db' = [Sent(db, "verify", n) EXCEPT !.users = Insert(@, id, u)]
      /\ frames[i].pc = "commit signup" /\ Goto(i, Idle)
      /\ UNCHANGED <<jwt, ids, draws, mix, ghost>>
  BY <1>1 DEF CommitSignup, Done, Is
<1>3. n \in Draws /\ id \in Ids /\ id <= ids /\ n # None
  BY <1>1, <1>2, Typed, NoneIsNothing
     DEF FrameOK, OnDraw, Committing, OnAccount, Pcs
<1>4. /\ DOMAIN db.users = {}
      /\ \A k \in Handlers \ {i} : /\ frames[k].pc # "commit signup"
                                   /\ frames[k].id # id
  BY <1>1, <1>2 DEF Inv, Control, SignupOK, Is
<1>5. /\ u \in User /\ u.verify = n /\ u.reset = None /\ ~u.must
      /\ u.password = Own
  BY <1>3 DEF User, NewUser, Own, Password
<1>6. Sent(db, "verify", n).users = db.users
  BY Typed DEF Tables, Sent
<1> HIDE DEF u
<1>7. v \in [DOMAIN v -> User] /\ DOMAIN v = {id} /\ v[id] = u
  BY <1>4, <1>5
<1>8. db' = [Sent(db, "verify", n) EXCEPT !.users = v]
  BY <1>2, <1>6 DEF Insert
<1> HIDE DEF v
<1>9. /\ db' \in Tables(db') /\ db'.users = v /\ db'.profiles = db.profiles
      /\ db'.preferred = db.preferred /\ db'.codes = db.codes
      /\ db'.mails = db.mails \cup {<<"verify", n>>}
  <2>1. <<"verify", n>> \in Mail
    BY <1>3 DEF Mail
  <2>2. /\ Sent(db, "verify", n) \in [users : [DOMAIN db.users -> User],
             profiles : SUBSET Ids, preferred : SUBSET Ids,
             codes : [DOMAIN db.codes -> Login],
             devices : SUBSET (Ids \X Devices),
             attempts : [Keys -> [n : Nat, lock : {"none", "on", "past"}]],
             mails : SUBSET Mail]
        /\ Sent(db, "verify", n).profiles = db.profiles
        /\ Sent(db, "verify", n).preferred = db.preferred
        /\ Sent(db, "verify", n).codes = db.codes
        /\ Sent(db, "verify", n).mails = db.mails \cup {<<"verify", n>>}
    BY <2>1, Typed DEF Tables, Sent
  <2> QED  BY <1>7, <1>8, <2>2 DEF Tables
<1>10. /\ frames' \in [Handlers -> Frame] /\ frames'[i] = Idle
       /\ \A k \in Handlers \ {i} : frames'[k] = frames[k]
  BY <1>2, IdleFrame, Typed DEF Goto
<1>11. Idle.pc = "idle" /\ FrameOK(Idle, ids)
  BY IdleFrame, Typed
<1>12. TypeOK'
  <2>1. /\ DOMAIN db'.users \subseteq Ids /\ DOMAIN db'.codes \subseteq Draws
        /\ \A x, y \in DOMAIN db'.users : x = y
    BY <1>3, <1>7, <1>9, Typed
  <2> QED  BY <1>2, <1>9, <1>10, <2>1 DEF Inv, Control, TypeOK
<1>13. FramesOK' /\ SignupOK'
  BY <1>2, <1>4, <1>10, <1>11, Typed DEF FramesOK, SignupOK, Is
<1>14. IdsOK' /\ CodesOwned'
  BY <1>2, <1>3, <1>4, <1>7, <1>9 DEF Inv, Control, IdsOK, CodesOwned
<1>15. PassedGates' /\ GatesHold'
  <2>1. \A k \in Handlers : ~(/\ frames'[k].pc = "prefer"
                              /\ frames'[k].id \in DOMAIN db'.users)
    BY <1>4, <1>7, <1>9, <1>10, <1>11
  <2>2. db'.preferred = {}
    BY <1>4, <1>9 DEF Inv, PassedGates
  <2> QED  BY <2>1, <2>2 DEF PassedGates, GatesHold, Is
<1>16. LinksAreMailed' /\ Passwords'
  <2>1. Own[1] # "drawn"
    BY DEF Own
  <2> QED  BY <1>3, <1>5, <1>7, <1>9, <2>1 DEF LinksAreMailed, Passwords
<1>17. CurrentCodeIsSent'
  BY <1>2, <1>9, CodesKept DEF Inv
<1> QED  BY <1>12, <1>13, <1>14, <1>15, <1>16, <1>17 DEF Inv, Control

-----------------------------------------------------------------------------
(***************************************************************************)
(* What admins and time do, beside the handlers.                           *)
(***************************************************************************)
LEMMA BesideControl ==
  ASSUME Control, UNCHANGED <<frames, jwt, ids, draws, mix>>, ghost' \in Ghost,
         db' \in Tables(db'), DOMAIN db'.users \subseteq DOMAIN db.users,
         DOMAIN db'.codes \subseteq Draws,
         \A t \in DOMAIN db'.codes : db'.codes[t].user \in DOMAIN db'.users,
         db'.profiles \cup db'.preferred \subseteq
           db.profiles \cup db.preferred \cup DOMAIN db.users
  PROVE  Control'
<1>1. TypeOK'
  BY DEF Control, TypeOK
<1>2. FramesOK'
  BY DEF Control, FramesOK
<1>3. IdsOK' /\ CodesOwned'
  BY DEF Control, IdsOK, CodesOwned
<1>4. SignupOK'
  BY DEF Control, SignupOK, Is
<1> QED  BY <1>1, <1>2, <1>3, <1>4 DEF Control

LEMMA BesideGates ==
  ASSUME PassedGates, GatesHold, UNCHANGED frames,
         DOMAIN db'.users = DOMAIN db.users, StillPassed,
         db'.preferred = db.preferred
  PROVE  PassedGates' /\ GatesHold'
<1>1. \A id \in db.preferred : Passed(id)'
  BY DEF GatesHold, PassedGates, StillPassed, Passed
<1>2. \A i \in Handlers : Is(i, "prefer") /\ frames[i].id \in DOMAIN db.users =>
        Passed(frames[i].id)'
  BY DEF PassedGates, StillPassed, Passed
<1> QED  BY <1>1, <1>2 DEF PassedGates, GatesHold, Passed, Is

LEMMA BesideFlight ==
  ASSUME UNCHANGED frames
  PROVE  \A pc, n : InFlight(pc, n) => InFlight(pc, n)'
BY DEF InFlight, Is

LEMMA BesidePasswords ==
  ASSUME Passwords, UNCHANGED <<frames, ghost>>, db.mails \subseteq db'.mails,
         \A id \in DOMAIN db'.users : /\ id \in DOMAIN db.users
                                      /\ db'.users[id] = db.users[id]
  PROVE  Passwords'
<1> SUFFICES ASSUME NEW id \in DOMAIN db'.users, NEW u, u = db.users[id],
                    NEW n, n = u.password[2]
             PROVE  /\ u.must <=> u.password # Own
                    /\ u.password[1] = "drawn" =>
                         \/ <<"password", n>> \in db'.mails \cup ghost'.lost
                         \/ InFlight("mail password", n)'
  BY DEF Passwords
<1>1. /\ u.must <=> u.password # Own
      /\ u.password[1] = "drawn" =>
           \/ <<"password", n>> \in db.mails \cup ghost.lost
           \/ InFlight("mail password", n)
  BY DEF Passwords
<1> QED  BY <1>1, BesideFlight

LEMMA BesideCodes ==
  ASSUME CurrentCodeIsSent, UNCHANGED frames, db.mails \subseteq db'.mails,
         ghost.lost \subseteq ghost'.lost,
         \A t \in DOMAIN db'.codes : /\ t \in DOMAIN db.codes
                                     /\ db'.codes[t].code = db.codes[t].code
  PROVE  CurrentCodeIsSent'
<1> SUFFICES ASSUME NEW t \in DOMAIN db'.codes, NEW n, n = db'.codes[t].code
             PROVE  \/ <<"code", n>> \in db'.mails \cup ghost'.lost
                    \/ InFlight("send", n)'
  BY DEF CurrentCodeIsSent
<1>1. <<"code", n>> \in db.mails \cup ghost.lost \/ InFlight("send", n)
  BY DEF CurrentCodeIsSent
<1> QED  BY <1>1, BesideFlight

\* A row of users is updated by no handler.
LEMMA BesideRow ==
  ASSUME Inv, UNCHANGED <<frames, jwt, ids, draws, mix>>, ghost' \in Ghost,
         ghost.lost \subseteq ghost'.lost,
         ghost.unmarked \subseteq ghost'.unmarked, db' \in Tables(db'),
         db'.profiles = db.profiles, db'.preferred = db.preferred,
         db'.codes = db.codes, db'.mails = db.mails,
         NEW id, NEW v, Row(id, v),
         id \in DOMAIN db.users =>
           /\ v.verify \in {None, db.users[id].verify}
           /\ v.reset = db.users[id].reset
           /\ v.verified \/ v.verify # None \/ id \in ghost'.unmarked
           /\ db.users[id].verified => v.verified \/ id \in ghost'.unmarked
           /\ v.must = db.users[id].must
           /\ v.password = db.users[id].password
  PROVE  Inv'
<1>1. Control'
  <2>1. /\ DOMAIN db'.users = DOMAIN db.users /\ DOMAIN db'.codes \subseteq Draws
        /\ \A t \in DOMAIN db'.codes : db'.codes[t].user \in DOMAIN db.users
    BY Typed DEF Row, Inv, Control, CodesOwned
  <2> QED  BY <2>1, BesideControl DEF Inv
<1>2. PassedGates' /\ GatesHold'
  <2>1. StillPassed /\ DOMAIN db'.users = DOMAIN db.users
    BY RowPassed DEF Row
  <2> QED  BY <2>1, BesideGates DEF Inv
<1>3. LinksAreMailed'
  <2>1. id \in DOMAIN db.users =>
          /\ v.verify # None => <<"verify", v.verify>> \in db'.mails
          /\ v.reset # None => <<"reset", v.reset>> \in db'.mails
    BY DEF Inv, LinksAreMailed
  <2> QED  BY <2>1, RowLinks DEF Inv
<1>4. Passwords'
  <2>1. id \in DOMAIN db.users => (v.must <=> v.password # Own)
    BY DEF Inv, Passwords
  <2> QED  BY <2>1, BesideFlight, RowPasswords DEF Inv
<1>5. CurrentCodeIsSent'
  BY BesideCodes DEF Inv
<1> QED  BY <1>1, <1>2, <1>3, <1>4, <1>5 DEF Inv

LEMMA PatchVerificationStep ==
  ASSUME Inv, NEW id \in Ids, NEW mark \in BOOLEAN, PatchVerification(id, mark)
  PROVE  Inv'
<1> DEFINE v == [db.users[id] EXCEPT !.verified = mark, !.verify = None]
           w == [x \in DOMAIN db.users |->
                   IF x = id THEN [db.users[x] EXCEPT !.verified = mark,
                                                      !.verify = None]
                   ELSE db.users[x]]
<1>1. db' = [db EXCEPT !.users = w] /\ UNCHANGED <<frames, jwt, ids, draws, mix>>
  BY DEF PatchVerification, Update
<1>2. w \in [DOMAIN w -> User] /\ DOMAIN w \subseteq Ids
  <2>1. ASSUME NEW u \in User
        PROVE  [u EXCEPT !.verified = mark, !.verify = None] \in User
    BY DEF User
  <2> QED  BY <2>1, Typed DEF Tables
<1>3. /\ db' \in Tables(db') /\ db'.users = w /\ db'.profiles = db.profiles
      /\ db'.preferred = db.preferred /\ db'.codes = db.codes
      /\ db'.mails = db.mails
  BY <1>1, <1>2, UsersChange DEF Inv, Control
<1>4. Row(id, v)
  BY <1>2, <1>3 DEF Row
<1>5. /\ ghost' \in Ghost /\ ghost'.lost = ghost.lost
      /\ ghost.unmarked \subseteq ghost'.unmarked
      /\ mark \/ id \in ghost'.unmarked
  <2>1. CASE mark
    BY <2>1, Typed DEF PatchVerification
  <2>2. CASE ~mark
    <3>1. ghost' = [ghost EXCEPT !.unmarked = ghost.unmarked \cup {id}]
      BY <2>2 DEF PatchVerification
    <3> QED  BY <3>1, Typed DEF Ghost
  <2> QED  BY <2>1, <2>2
<1>6. id \in DOMAIN db.users =>
           /\ v.verify = None /\ v.reset = db.users[id].reset
           /\ v.verified = mark /\ v.must = db.users[id].must
           /\ v.password = db.users[id].password
  BY Typed DEF Tables, User
<1> HIDE DEF v, w
<1> QED  BY <1>1, <1>3, <1>4, <1>5, <1>6, BesideRow

LEMMA ExpireLinkStep ==
  ASSUME Inv, NEW id \in Ids, ExpireLink(id)  PROVE  Inv'
<1> DEFINE v == [db.users[id] EXCEPT !.expired = TRUE]
           w == [db.users EXCEPT ![id] = v]
<1>1. /\ db' = [db EXCEPT !.users = w]
      /\ UNCHANGED <<frames, jwt, ids, draws, mix, ghost>>
      /\ id \in DOMAIN db.users
  BY DEF ExpireLink
<1>2. db.users[id] \in User
  BY <1>1, AccountIds DEF Inv
<1>3. /\ v \in User /\ v.verify = db.users[id].verify
      /\ v.reset = db.users[id].reset /\ v.verified = db.users[id].verified
      /\ v.must = db.users[id].must /\ v.password = db.users[id].password
  BY <1>2 DEF User
<1> HIDE DEF v
<1>4. /\ w \in [DOMAIN w -> User] /\ DOMAIN w = DOMAIN db.users
      /\ w[id] = v /\ \A x \in DOMAIN w : x # id => w[x] = db.users[x]
  BY <1>1, <1>3, Typed DEF Tables
<1> HIDE DEF w
<1>5. /\ db' \in Tables(db') /\ db'.users = w /\ db'.profiles = db.profiles
      /\ db'.preferred = db.preferred /\ db'.codes = db.codes
      /\ db'.mails = db.mails
  BY <1>1, <1>4, Typed, UsersChange DEF Inv, Control
<1>6. Row(id, v)
  BY <1>3, <1>4, <1>5 DEF Row
<1>7. db.users[id].verified \/ db.users[id].verify # None \/ id \in ghost.unmarked
  BY <1>1 DEF Inv, LinksAreMailed
<1> QED  BY <1>1, <1>3, <1>5, <1>6, <1>7, Typed, BesideRow

LEMMA AdminProfileStep ==
  ASSUME Inv, NEW id \in Ids, AdminProfile(id)  PROVE  Inv'
<1>1. /\ db' = [db EXCEPT !.profiles = db.profiles \cup {id}]
      /\ UNCHANGED <<frames, jwt, ids, draws, mix, ghost>>
      /\ id \in DOMAIN db.users
  BY DEF AdminProfile
<1>2. /\ db' \in Tables(db') /\ db'.users = db.users
      /\ db'.profiles = db.profiles \cup {id}
      /\ db'.preferred = db.preferred /\ db'.codes = db.codes
      /\ db'.mails = db.mails
  BY <1>1, Typed DEF Tables
<1>3. Control'
  <2>1. /\ DOMAIN db'.codes \subseteq Draws /\ ghost' \in Ghost
        /\ \A t \in DOMAIN db'.codes : db'.codes[t].user \in DOMAIN db'.users
        /\ db'.profiles \cup db'.preferred \subseteq
             db.profiles \cup db.preferred \cup DOMAIN db.users
    BY <1>1, <1>2, Typed DEF Inv, Control, CodesOwned
  <2> QED  BY <1>1, <1>2, <2>1, BesideControl DEF Inv
<1>4. PassedGates' /\ GatesHold'
  BY <1>1, <1>2, PassedKept, BesideGates DEF Inv
<1>5. LinksAreMailed' /\ Passwords' /\ CurrentCodeIsSent'
  BY <1>1, <1>2, LinksKept, BesidePasswords, BesideCodes DEF Inv
<1> QED  BY <1>3, <1>4, <1>5 DEF Inv

LEMMA ExpireCodeStep ==
  ASSUME Inv, NEW t \in Draws, ExpireCode(t)  PROVE  Inv'
<1> DEFINE v == [db.codes[t] EXCEPT !.expired = TRUE]
           w == [db.codes EXCEPT ![t] = v]
<1>1. /\ db' = [db EXCEPT !.codes = w]
      /\ UNCHANGED <<frames, jwt, ids, draws, mix, ghost>>
      /\ t \in DOMAIN db.codes
  BY DEF ExpireCode
<1>2. db.codes[t] \in Login
  BY <1>1, CodeFacts
<1>3. v \in Login /\ v.code = db.codes[t].code /\ v.user = db.codes[t].user
  BY <1>2 DEF Login
<1> HIDE DEF v
<1>4. /\ w \in [DOMAIN w -> Login] /\ DOMAIN w = DOMAIN db.codes
      /\ \A x \in DOMAIN w : /\ w[x].code = db.codes[x].code
                             /\ w[x].user = db.codes[x].user
  BY <1>1, <1>3, Typed DEF Tables
<1> HIDE DEF w
<1>5. /\ db' \in Tables(db') /\ db'.users = db.users
      /\ db'.profiles = db.profiles /\ db'.preferred = db.preferred
      /\ db'.codes = w /\ db'.mails = db.mails
  BY <1>1, <1>4, Typed, CodesChange DEF Inv, Control
<1>6. Control'
  <2>1. /\ DOMAIN db'.codes \subseteq Draws /\ ghost' \in Ghost
        /\ \A x \in DOMAIN db'.codes : db'.codes[x].user \in DOMAIN db'.users
        /\ db'.profiles \cup db'.preferred \subseteq
             db.profiles \cup db.preferred \cup DOMAIN db.users
    BY <1>1, <1>4, <1>5, Typed DEF Inv, Control, CodesOwned
  <2> QED  BY <1>1, <1>5, <2>1, BesideControl DEF Inv
<1>7. PassedGates' /\ GatesHold'
  BY <1>1, <1>5, PassedKept, BesideGates DEF Inv
<1>8. LinksAreMailed' /\ Passwords'
  BY <1>1, <1>5, LinksKept, BesidePasswords DEF Inv
<1>9. CurrentCodeIsSent'
  BY <1>1, <1>4, <1>5, BesideCodes DEF Inv
<1> QED  BY <1>6, <1>7, <1>8, <1>9 DEF Inv

LEMMA UnlockStep ==
  ASSUME Inv, NEW k \in Keys, Unlock(k)  PROVE  Inv'
<1>1. /\ db' = [db EXCEPT !.attempts[k].lock = "past"]
      /\ UNCHANGED <<frames, jwt, ids, draws, mix, ghost>>
  BY DEF Unlock
<1>2. /\ db' \in Tables(db') /\ db'.users = db.users
      /\ db'.profiles = db.profiles /\ db'.preferred = db.preferred
      /\ db'.codes = db.codes /\ db'.mails = db.mails
  BY <1>1, Typed DEF Tables
<1>3. Control'
  <2>1. /\ DOMAIN db'.codes \subseteq Draws /\ ghost' \in Ghost
        /\ \A x \in DOMAIN db'.codes : db'.codes[x].user \in DOMAIN db'.users
    BY <1>1, <1>2, Typed DEF Inv, Control, CodesOwned
  <2> QED  BY <1>1, <1>2, <2>1, BesideControl DEF Inv
<1>4. PassedGates' /\ GatesHold'
  BY <1>1, <1>2, PassedKept, BesideGates DEF Inv
<1>5. LinksAreMailed' /\ Passwords' /\ CurrentCodeIsSent'
  BY <1>1, <1>2, LinksKept, BesidePasswords, BesideCodes DEF Inv
<1> QED  BY <1>3, <1>4, <1>5 DEF Inv

\* The row goes, and what follows by ON DELETE CASCADE.
LEMMA DeleteStep ==
  ASSUME Inv, NEW id \in Ids, Delete(id)  PROVE  Inv'
<1>1. /\ UNCHANGED <<frames, jwt, ids, draws, mix, ghost>>
      /\ db'.users = [x \in DOMAIN db.users \ {id} |-> db.users[x]]
      /\ db'.profiles = db.profiles \ {id}
      /\ db'.preferred = db.preferred \ {id}
      /\ db'.codes = [t \in {t \in DOMAIN db.codes : db.codes[t].user # id} |->
                        db.codes[t]]
      /\ db'.devices = {x \in db.devices : x[1] # id}
      /\ db'.attempts = db.attempts /\ db'.mails = db.mails
      /\ db' = [users |-> db'.users, profiles |-> db'.profiles,
                preferred |-> db'.preferred, codes |-> db'.codes,
                devices |-> db'.devices, attempts |-> db'.attempts,
                mails |-> db'.mails]
  BY Typed DEF Delete, Restrict, Tables
<1>2. /\ DOMAIN db'.users = DOMAIN db.users \ {id}
      /\ \A x \in DOMAIN db'.users : db'.users[x] = db.users[x]
      /\ \A t \in DOMAIN db'.codes : /\ t \in DOMAIN db.codes
                                     /\ db.codes[t].user # id
                                     /\ db'.codes[t] = db.codes[t]
  BY <1>1
<1>3. db' \in Tables(db')
  <2>1. db'.users \in [DOMAIN db'.users -> User]
    BY <1>1, Typed DEF Tables
  <2>2. db'.codes \in [DOMAIN db'.codes -> Login]
    BY <1>1, Typed DEF Tables
  <2>3. /\ db'.profiles \in SUBSET Ids /\ db'.preferred \in SUBSET Ids
        /\ db'.devices \in SUBSET (Ids \X Devices)
        /\ db'.attempts \in [Keys -> [n : Nat, lock : {"none", "on", "past"}]]
        /\ db'.mails \in SUBSET Mail
    BY <1>1, Typed DEF Tables
  <2> QED  BY <1>1, <2>1, <2>2, <2>3 DEF Tables
<1>4. Control'
  <2>1. /\ DOMAIN db'.users \subseteq DOMAIN db.users /\ ghost' \in Ghost
        /\ DOMAIN db'.codes \subseteq Draws
        /\ \A t \in DOMAIN db'.codes : db'.codes[t].user \in DOMAIN db'.users
        /\ db'.profiles \cup db'.preferred \subseteq
             db.profiles \cup db.preferred \cup DOMAIN db.users
    BY <1>1, <1>2, Typed DEF Inv, Control, CodesOwned
  <2> QED  BY <1>1, <1>3, <2>1, BesideControl DEF Inv
<1>9. \A x \in DOMAIN db'.users : x # id /\ (Passed(x) => Passed(x)')
  BY <1>1, <1>2 DEF Passed
<1>5. PassedGates'
  BY <1>1, <1>2, <1>9 DEF Inv, PassedGates, Is
<1>6. GatesHold'
  <2>1. \A x \in db'.preferred : x \in DOMAIN db'.users /\ Passed(x)
    BY <1>1, <1>2 DEF Inv, GatesHold, PassedGates, Passed
  <2> QED  BY <1>9, <2>1 DEF GatesHold, Passed
<1>7. LinksAreMailed'
  BY <1>1, <1>2 DEF Inv, LinksAreMailed
<1>8. Passwords' /\ CurrentCodeIsSent'
  BY <1>1, <1>2, BesidePasswords, BesideCodes DEF Inv
<1> QED  BY <1>4, <1>5, <1>6, <1>7, <1>8 DEF Inv

LEMMA AdminCreateStep ==
  ASSUME Inv, AdminCreate  PROVE  Inv'
<1>1. PICK id : id = ids + 1
  OBVIOUS
<1> DEFINE u == NewUser(<<"given", 0>>, TRUE, TRUE, None)
           v == [x \in DOMAIN db.users \cup {id} |->
                   IF x = id THEN u ELSE db.users[x]]
<1>2. /\ db' = [db EXCEPT !.users = v] /\ ids' = id /\ ids < MaxIds
      /\ DOMAIN db.users = {} /\ ~Inserting
      /\ UNCHANGED <<frames, jwt, draws, mix, ghost>>
  BY <1>1 DEF AdminCreate, Insert
<1>3. ids \in Nat /\ id \in Ids /\ id > ids /\ id \in 0..MaxIds
  <2>1. ids \in Nat /\ MaxIds \in Nat /\ id = ids + 1 /\ ids < MaxIds
    BY <1>1, <1>2, Typed, Bounds
  <2> QED  BY <2>1 DEF Ids
<1>4. /\ u \in User /\ u.verify = None /\ u.reset = None /\ u.must /\ u.verified
      /\ u.password = <<"given", 0>>
  BY DEF User, NewUser, Password
<1> HIDE DEF u
<1>5. v \in [DOMAIN v -> User] /\ DOMAIN v = {id} /\ v[id] = u
  BY <1>2, <1>4
<1> HIDE DEF v
<1>6. /\ db' \in Tables(db') /\ db'.users = v /\ db'.profiles = db.profiles
      /\ db'.preferred = db.preferred /\ db'.codes = db.codes
      /\ db'.mails = db.mails
  BY <1>2, <1>3, <1>5, UsersChange DEF Inv, Control
<1>7. TypeOK'
  <2>1. /\ DOMAIN db'.users \subseteq Ids /\ DOMAIN db'.codes \subseteq Draws
        /\ \A x, y \in DOMAIN db'.users : x = y
    BY <1>3, <1>5, <1>6, Typed
  <2> QED  BY <1>2, <1>3, <1>6, <2>1 DEF Inv, Control, TypeOK
<1>8. \A k \in Handlers : frames[k].id <= ids /\ frames[k].id \in Int
  BY Typed, Bounds DEF FrameOK, Frame, Keys
<1>9. FramesOK'
  <2>1. \A k \in Handlers : FrameOK(frames[k], ids) => FrameOK(frames[k], id)
    BY <1>3, <1>8 DEF FrameOK
  <2> QED  BY <1>2, <2>1, Typed DEF FramesOK
<1>10. IdsOK' /\ CodesOwned'
  <2>1. \A x \in db.profiles \cup db.preferred : x <= id
    BY <1>3, Typed, Bounds DEF Inv, Control, IdsOK, Tables, Ids
  <2>2. id <= id
    BY <1>3
  <2>3. IdsOK'
    BY <1>2, <1>5, <1>6, <2>1, <2>2 DEF IdsOK
  <2>4. CodesOwned'
    BY <1>2, <1>6 DEF Inv, Control, CodesOwned
  <2> QED  BY <2>3, <2>4
<1>11. SignupOK'
  BY <1>2 DEF SignupOK, Inserting, Is
<1>12. PassedGates' /\ GatesHold'
  <2>1. \A k \in Handlers : frames[k].id # id
    BY <1>3, <1>8
  <2>2. db'.preferred = {}
    BY <1>2, <1>6 DEF Inv, PassedGates
  <2> QED  BY <1>2, <1>5, <1>6, <2>1, <2>2 DEF PassedGates, GatesHold, Is
<1>13. LinksAreMailed'
  BY <1>4, <1>5, <1>6 DEF LinksAreMailed
<1>14. Passwords'
  <2>1. <<"given", 0>> # Own /\ <<"given", 0>>[1] # "drawn"
    BY DEF Own
  <2> QED  BY <1>4, <1>5, <1>6, <2>1 DEF Passwords
<1>15. CurrentCodeIsSent'
  BY <1>2, <1>6, BesideCodes DEF Inv
<1> QED  BY <1>7, <1>9, <1>10, <1>11, <1>12, <1>13, <1>14, <1>15
         DEF Inv, Control

-----------------------------------------------------------------------------
(***************************************************************************)
(* The theorems.                                                           *)
(***************************************************************************)
LEMMA InitInv == Init => Inv
<1> SUFFICES ASSUME Init  PROVE  Inv
  OBVIOUS
<1>1. /\ DOMAIN db.users = {} /\ DOMAIN db.codes = {} /\ db.profiles = {}
      /\ db.preferred = {}
  BY DEF Init
<1>2. db \in Tables(db)
  BY DEF Init, Tables
<1>3. \A i \in Handlers : frames[i] = Idle
  BY DEF Init
<1>4. ghost \in Ghost
  BY DEF Init, Ghost
<1>5. ids = 0 /\ 0 \in 0..MaxIds /\ 0 \in 0..MaxDraws /\ draws = 0
  BY Bounds DEF Init
<1>6. TypeOK
  BY <1>1, <1>2, <1>4, <1>5, IdleFrame DEF Init, TypeOK
<1>7. FramesOK /\ SignupOK /\ PassedGates
  <2>1. FrameOK(Idle, ids) /\ Idle.pc = "idle"
    BY <1>5, IdleFrame
  <2> QED  BY <1>1, <1>3, <2>1 DEF FramesOK, SignupOK, PassedGates, Is
<1>8. IdsOK /\ CodesOwned /\ GatesHold /\ LinksAreMailed /\ Passwords
      /\ CurrentCodeIsSent
  BY <1>1 DEF IdsOK, CodesOwned, GatesHold, LinksAreMailed, Passwords,
              CurrentCodeIsSent
<1> QED  BY <1>6, <1>7, <1>8 DEF Inv, Control

LEMMA HandleStep ==
  ASSUME Inv, NEW i \in Handlers, Handle(i)  PROVE  Inv'
<1>1. CASE \/ Signup(i) \/ CommitSignup(i) \/ Verify(i) \/ VerifyUpdate(i)
           \/ Resend(i) \/ LinkUpdate(i) \/ ResetLink(i) \/ CommitLink(i)
  BY <1>1, SignupStep, CommitSignupStep, VerifyStep, VerifyUpdateStep,
     ResendStep, LinkUpdateStep, ResetLinkStep, CommitLinkStep
<1>2. CASE \/ Reset(i) \/ ResetUpdate(i) \/ Generate(i) \/ GenerateUpdate(i)
           \/ MailPassword(i)
  BY <1>2, ResetStep, ResetUpdateStep, GenerateStep, GenerateUpdateStep,
     MailingStep
<1>3. CASE \/ Ask(i, "change", "change") \/ ChangePassword(i)
           \/ Ask(i, "profile", "profile") \/ SaveProfile(i)
           \/ Ask(i, "preference", "prefer") \/ AddPreference(i)
  BY <1>3, AskStep, ChangePasswordStep, SaveProfileStep, AddPreferenceStep
<1>4. CASE \/ EnterLogin(i) \/ LoginLock(i) \/ LoginCount(i) \/ LoginClear(i)
           \/ LoginDevice(i) \/ LoginCode(i) \/ SendCode(i)
  BY <1>4, EnterLoginStep, LoginLockStep, LoginCountStep, LoginClearStep,
     LoginDeviceStep, LoginCodeStep, MailingStep
<1>5. CASE \/ VerifyLogin(i) \/ WrongCode(i) \/ UseCode(i) \/ TrustDevice(i)
           \/ ResendCode(i) \/ RecodeUpdate(i) \/ Abort(i)
  BY <1>5, VerifyLoginStep, WrongCodeStep, UseCodeStep, TrustDeviceStep,
     ResendCodeStep, RecodeUpdateStep, AbortStep
<1> QED  BY <1>1, <1>2, <1>3, <1>4, <1>5 DEF Handle

LEMMA NextInv == Inv /\ [Next]_vars => Inv'
<1> SUFFICES ASSUME Inv, [Next]_vars  PROVE  Inv'
  OBVIOUS
<1>1. CASE UNCHANGED vars
  BY <1>1, ZenonT(60) DEF vars, Inv, Control, TypeOK, FramesOK, IdsOK,
     CodesOwned, SignupOK, Is, PassedGates, Passed, GatesHold, LinksAreMailed,
     Passwords, CurrentCodeIsSent, InFlight
<1>2. CASE Next
  <2>1. ASSUME NEW i \in Handlers, Handle(i)  PROVE  Inv'
    BY <2>1, HandleStep
  <2>2. CASE AdminCreate
    BY <2>2, AdminCreateStep
  <2>3. ASSUME NEW id \in Ids,
               \/ Delete(id) \/ AdminProfile(id) \/ ExpireLink(id)
               \/ \E mark \in BOOLEAN : PatchVerification(id, mark)
        PROVE  Inv'
    BY <2>3, DeleteStep, AdminProfileStep, ExpireLinkStep,
       PatchVerificationStep
  <2>4. ASSUME NEW t \in Draws, ExpireCode(t)  PROVE  Inv'
    BY <2>4, ExpireCodeStep
  <2>5. ASSUME NEW k \in Keys, Unlock(k)  PROVE  Inv'
    BY <2>5, UnlockStep
  <2> QED  BY <1>2, <2>1, <2>2, <2>3, <2>4, <2>5 DEF Next
<1> QED  BY <1>1, <1>2

\* The inductive invariant holds in every state of every behaviour.
THEOREM AlwaysInv == Spec => []Inv
BY InitInv, NextInv, PTL DEF Spec

\* The tables, the local variables of the handlers and the counters keep their
\* types, and there is never a second account for the email.
THEOREM AlwaysTyped == Spec => []TypeOK
<1>1. Inv => TypeOK
  BY DEF Inv, Control
<1> QED  BY <1>1, AlwaysInv, PTL

\* Whatever requests for links interleave, fail or are cut short: a link stored
\* in an account has been mailed, and an account that is not verified has one
\* unless an admin took its mark back.
THEOREM LinksAlwaysMailed == Spec => []LinksAreMailed
<1>1. Inv => LinksAreMailed
  BY DEF Inv
<1> QED  BY <1>1, AlwaysInv, PTL

\* No preferred time is stored for an account that has not been through each of
\* the gates (profile, password of an admin's choice replaced, email verified),
\* though the gates look at rows read some statements earlier.
THEOREM GatesAlwaysHold == Spec => []GatesHold
<1>1. Inv => GatesHold
  BY DEF Inv
<1> QED  BY <1>1, AlwaysInv, PTL

\* A user with a temporary password, or without a profile, knows the password
\* and is let through to the route that clears what stops them, even when both
\* gates do.
THEOREM OnboardingAlwaysPossible == Spec => []OnboardingIsPossible
<1>1. Inv => OnboardingIsPossible
  BY DEF Inv, Passwords, OnboardingIsPossible, Admitted, Exempt
<1> QED  BY <1>1, AlwaysInv, PTL

\* The code a pending login is compared with has gone out, or is about to, in
\* every order of concurrent logins and resends.
THEOREM CurrentCodeAlwaysSent == Spec => []CurrentCodeIsSent
<1>1. Inv => CurrentCodeIsSent
  BY DEF Inv
<1> QED  BY <1>1, AlwaysInv, PTL
-----------------------------------------------------------------------------
(***************************************************************************)
(* Theorems about Accounts that count: how often a link or a code is used, *)
(* how many failures are counted under a lock and how often a code is      *)
(* tried and sent.  All three have the same shape: what is done already    *)
(* plus the handlers that have read the row and will still do it is below  *)
(* a bound, because whoever comes later reads that it was done.            *)
(***************************************************************************)

(***************************************************************************)
(* Where a link or a code is.                                              *)
(***************************************************************************)
\* The columns that hold one: verification_token and reset_token of an
\* account, the code of a login.
Places == ({"verify", "reset"} \X Ids) \cup ({"code"} \X Draws)

Holds(p, n) ==
  \/ /\ p[1] = "verify" /\ p[2] \in DOMAIN db.users
     /\ db.users[p[2]].verify = n
  \/ /\ p[1] = "reset" /\ p[2] \in DOMAIN db.users
     /\ db.users[p[2]].reset = n
  \/ /\ p[1] = "code" /\ p[2] \in DOMAIN db.codes
     /\ db.codes[p[2]].code = n

\* A request would still be let in with n.
Spendable(p, n) == Holds(p, n) /\ (p[1] = "code" => ~db.codes[p[2]].used)

\* The column that handler state f will write its n to, or has read it from.
Place(f, p) ==
  \/ f.pc \in {"commit signup", "commit link", "verify"} /\ p = <<"verify", f.id>>
  \/ f.pc \in {"commit reset", "reset"} /\ p = <<"reset", f.id>>
  \/ f.pc = "use" /\ p = <<"code", f.token>>

Reading == {"verify", "reset", "use"}

Wants(i, p, n) == Place(frames[i], p) /\ frames[i].n = n
Claims(p, n) == Holds(p, n) \/ \E i \in Handlers : Wants(i, p, n)

\* A value drawn is for one column.
OnePlace ==
  \A n \in Draws : \A p, q \in Places : Claims(p, n) /\ Claims(q, n) => p = q

\* A value not drawn yet is nowhere.
Drawn ==
  \A n \in Draws :
    (\E p \in Places : Claims(p, n)) \/ ghost.uses[n] > 0 => n <= draws

\* What would still be let in was never used.
Unused == \A n \in Draws : \A p \in Places :
             Spendable(p, n) => ghost.uses[n] = 0

\* What a transaction is about to store is known to nobody else.
Private ==
  \A i \in Handlers : frames[i].pc \in Committing =>
    /\ ghost.uses[frames[i].n] = 0
    /\ \A p \in Places : ~Holds(p, frames[i].n)
    /\ \A k \in Handlers \ {i} : \A p \in Places : ~Wants(k, p, frames[i].n)

\* The handlers that have read n and will use it.
Readers(n) == {i \in Handlers : frames[i].pc \in Reading /\ frames[i].n = n}

UsesOK == \A n \in Draws :
            ghost.uses[n] + Cardinality(Readers(n)) <= Cardinality(Handlers)

UseInv == OnePlace /\ Drawn /\ Unused /\ Private /\ UsesOK

-----------------------------------------------------------------------------
(***************************************************************************)
(* The handlers behind a lock and behind the limits of a code.             *)
(***************************************************************************)
Counting(k) == {i \in Handlers : frames[i].pc = "count" /\ frames[i].id = k}

\* The first failure locks nothing, whatever the limit.
LimitReached(n) == n >= LoginMaxAttempts /\ n >= 2

LockInv ==
  \A k \in Keys :
    /\ LimitReached(db.attempts[k].n) => db.attempts[k].lock # "none"
    /\ db.attempts[k].lock = "on" =>
         ghost.overrun[k] + Cardinality(Counting(k)) < Cardinality(Handlers)

On(pc, t) == {i \in Handlers : frames[i].pc = pc /\ frames[i].token = t}

TriesInv ==
  \A t \in DOMAIN db.codes :
    /\ db.codes[t].tries + Cardinality(On("wrong", t)) <
         CodeTries + Cardinality(Handlers)
    /\ db.codes[t].resends + Cardinality(On("recode", t)) <
         CodeResends + Cardinality(Handlers)

-----------------------------------------------------------------------------
(***************************************************************************)
(* Lemmas about numbers of handlers.                                       *)
(***************************************************************************)
LEMMA HandlersFinite ==
  /\ Cardinality(Handlers) \in Nat
  /\ \A S \in SUBSET Handlers : /\ Cardinality(S) \in Nat
                                /\ Cardinality(S) <= Cardinality(Handlers)
BY AccountAssumption, FS_Subset, FS_CardinalityType

\* Fewer handlers, and one handler less.
LEMMA Fewer ==
  ASSUME NEW S \in SUBSET Handlers, NEW T \in SUBSET S
  PROVE  Cardinality(T) \in Nat /\ Cardinality(T) <= Cardinality(S)
BY AccountAssumption, FS_Subset, FS_CardinalityType

LEMMA OneLess ==
  ASSUME NEW S \in SUBSET Handlers, NEW i \in S, NEW T \in SUBSET S \ {i}
  PROVE  /\ Cardinality(T) \in Nat /\ Cardinality(S) \in Nat
         /\ Cardinality(T) + 1 <= Cardinality(S)
<1>1. IsFiniteSet(S)
  BY AccountAssumption, FS_Subset
<1>2. IsFiniteSet(S \ {i}) /\ Cardinality(S \ {i}) = Cardinality(S) - 1
  BY <1>1, FS_RemoveElement
<1>3. T \in SUBSET (S \ {i})
  OBVIOUS
<1>4. Cardinality(T) <= Cardinality(S \ {i})
  BY <1>2, <1>3, FS_Subset
<1>5. IsFiniteSet(T)
  BY <1>2, <1>3, FS_Subset
<1>6. Cardinality(T) \in Nat /\ Cardinality(S) \in Nat
  BY <1>1, <1>5, FS_CardinalityType
<1> QED  BY <1>2, <1>4, <1>6

-----------------------------------------------------------------------------
(***************************************************************************)
(* What a step can do to a link or a code.                                 *)
(***************************************************************************)
LEMMA Moved ==
  ASSUME Inv, NEW i \in Handlers, NEW f, Goto(i, f)
  PROVE  frames'[i] = f /\ \A k \in Handlers \ {i} : frames'[k] = frames[k]
BY Typed DEF Goto

LEMMA PlaceOne ==
  ASSUME NEW f, NEW p, NEW q, Place(f, p), Place(f, q)
  PROVE  p = q
<1>1. CASE f.pc \in {"commit signup", "commit link", "verify"}
  BY <1>1 DEF Place
<1>2. CASE f.pc \in {"commit reset", "reset"}
  BY <1>2 DEF Place
<1>3. CASE f.pc = "use"
  BY <1>3 DEF Place
<1> QED  BY <1>1, <1>2, <1>3 DEF Place

LEMMA PlaceOfFrame ==
  ASSUME Inv, NEW i \in Handlers,
         frames[i].pc \in Committing \cup Reading
  PROVE  /\ frames[i].n \in Draws
         /\ \E p \in Places : Place(frames[i], p)
<1>1. frames[i].n \in Draws
  BY Typed DEF FrameOK, OnDraw, Committing, Reading
<1>2. frames[i].pc # "use" => frames[i].id \in Ids
  BY Typed DEF FrameOK, OnAccount, Pcs, Committing, Reading
<1>3. frames[i].pc = "use" => frames[i].token \in Draws
  BY Typed DEF FrameOK, OnToken
<1> DEFINE v == <<"verify", frames[i].id>>
           r == <<"reset", frames[i].id>>
           c == <<"code", frames[i].token>>
<1>4. CASE frames[i].pc \in {"commit signup", "commit link", "verify"}
  <2>1. v \in Places
    BY <1>2, <1>4 DEF Places
  <2>2. Place(frames[i], v)
    BY <1>4 DEF Place
  <2> QED  BY <1>1, <2>1, <2>2
<1>5. CASE frames[i].pc \in {"commit reset", "reset"}
  <2>1. r \in Places
    BY <1>2, <1>5 DEF Places
  <2>2. Place(frames[i], r)
    BY <1>5 DEF Place
  <2> QED  BY <1>1, <2>1, <2>2
<1>6. CASE frames[i].pc = "use"
  <2>1. c \in Places
    BY <1>3, <1>6 DEF Places
  <2>2. Place(frames[i], c)
    BY <1>6 DEF Place
  <2> QED  BY <1>1, <2>1, <2>2
<1> QED  BY <1>4, <1>5, <1>6 DEF Committing, Reading

\* The invariant in terms of what may be claimed: fewer claims and no use.
LEMMA FewerClaims ==
  ASSUME Inv, UseInv, ghost'.uses = ghost.uses, draws' \in Nat,
         draws <= draws',
         \A n \in Draws : \A p \in Places : Claims(p, n)' => Claims(p, n),
         \A n \in Draws : \A p \in Places : Spendable(p, n)' => Spendable(p, n)
  PROVE  OnePlace' /\ Drawn' /\ Unused'
<1>1. OnePlace'
  BY DEF UseInv, OnePlace
<1>2. Drawn'
  <2> SUFFICES ASSUME NEW n \in Draws,
                      (\E p \in Places : Claims(p, n)') \/ ghost.uses[n] > 0
               PROVE  n <= draws'
    BY DEF Drawn
  <2>1. n <= draws
    BY DEF UseInv, Drawn
  <2>2. n \in Int /\ draws \in Int
    BY Typed, Bounds DEF Draws
  <2> QED  BY <2>1, <2>2
<1>3. Unused'
  BY DEF UseInv, Unused
<1> QED  BY <1>1, <1>2, <1>3

\* A handler reads what would be let in, or moves to where it holds nothing.
LEMMA ReadClaims ==
  ASSUME Inv, UseInv, NEW i \in Handlers, NEW f, Goto(i, f),
         ghost'.uses = ghost.uses, draws' \in Nat, draws <= draws',
         \A n \in Draws : \A p \in Places : Holds(p, n)' => Holds(p, n),
         \A n \in Draws : \A p \in Places : Spendable(p, n)' => Spendable(p, n),
         f.pc \notin Committing,
         f.pc \in Reading =>
           /\ f.n \in Draws
           /\ \E p \in Places : Place(f, p) /\ Spendable(p, f.n)
  PROVE  UseInv'
<1>1. /\ frames'[i] = f
      /\ \A k \in Handlers \ {i} : frames'[k] = frames[k]
  BY Moved
<1>2. ASSUME NEW p \in Places, NEW n, Place(f, p), f.n = n
      PROVE  n \in Draws /\ Spendable(p, n) /\ Holds(p, n)
  <2>1. f.pc \in Reading
    BY <1>2 DEF Place, Reading, Committing
  <2> QED  BY <1>2, <2>1, PlaceOne DEF Spendable
<1>3. ASSUME NEW n \in Draws, NEW p \in Places, Claims(p, n)'
      PROVE  Claims(p, n)
  <2>1. CASE Holds(p, n)'
    BY <2>1 DEF Claims
  <2>2. ASSUME NEW k \in Handlers, Wants(k, p, n)'  PROVE  Claims(p, n)
    <3>1. CASE k = i
      BY <1>1, <1>2, <2>2, <3>1 DEF Wants, Claims
    <3>2. CASE k # i
      BY <1>1, <2>2, <3>2 DEF Wants, Claims
    <3> QED  BY <3>1, <3>2
  <2> QED  BY <1>3, <2>1, <2>2 DEF Claims
<1>4. OnePlace' /\ Drawn' /\ Unused'
  BY <1>3, FewerClaims
<1>5. Private'
  <2> SUFFICES ASSUME NEW k \in Handlers, frames'[k].pc \in Committing,
                      NEW n, n = frames'[k].n
               PROVE  /\ ghost'.uses[n] = 0
                      /\ \A p \in Places : ~Holds(p, n)'
                      /\ \A j \in Handlers \ {k} : \A p \in Places : ~Wants(j, p, n)'
    BY DEF Private
  <2>1. k # i /\ frames'[k] = frames[k]
    BY <1>1
  <2>2. n \in Draws
    BY <2>1, PlaceOfFrame
  <2>3. /\ ghost.uses[n] = 0 /\ \A p \in Places : ~Holds(p, n)
        /\ \A j \in Handlers \ {k} : \A p \in Places : ~Wants(j, p, n)
    BY <2>1 DEF UseInv, Private
  <2>4. ASSUME NEW j \in Handlers \ {k}, NEW p \in Places, Wants(j, p, n)'
        PROVE  FALSE
    <3>1. CASE j = i
      BY <1>1, <1>2, <2>3, <2>4, <3>1 DEF Wants
    <3>2. CASE j # i
      BY <1>1, <2>3, <2>4, <3>2 DEF Wants
    <3> QED  BY <3>1, <3>2
  <2> QED  BY <2>2, <2>3, <2>4
<1>6. UsesOK'
  <2> SUFFICES ASSUME NEW n \in Draws
               PROVE  ghost.uses[n] + Cardinality(Readers(n)') <=
                        Cardinality(Handlers)
    BY DEF UsesOK
  <2>1. ghost.uses[n] \in Nat
    BY Typed DEF Ghost
  <2>2. CASE f.pc \in Reading /\ f.n = n
    <3>1. ghost.uses[n] = 0
      BY <2>2 DEF UseInv, Unused
    <3>2. Readers(n)' \in SUBSET Handlers
      BY DEF Readers
    <3> QED  BY <3>1, <3>2, HandlersFinite
  <2>3. CASE ~(f.pc \in Reading /\ f.n = n)
    <3>1. Readers(n)' \in SUBSET Readers(n) /\ Readers(n) \in SUBSET Handlers
      BY <1>1, <2>3 DEF Readers
    <3>2. /\ Cardinality(Readers(n)') \in Nat /\ Cardinality(Readers(n)) \in Nat
          /\ Cardinality(Readers(n)') <= Cardinality(Readers(n))
      BY <3>1, Fewer, HandlersFinite
    <3>3. ghost.uses[n] + Cardinality(Readers(n)) <= Cardinality(Handlers)
      BY DEF UseInv, UsesOK
    <3> QED  BY <2>1, <3>2, <3>3, HandlersFinite
  <2> QED  BY <2>2, <2>3
<1> QED  BY <1>4, <1>5, <1>6 DEF UseInv

\* A transaction begins with a value drawn for it.
LEMMA DrawClaims ==
  ASSUME Inv, UseInv, NEW i \in Handlers, NEW f, Goto(i, f), Draw,
         UNCHANGED ghost, f.pc \in Committing, f.n = draws',
         \A n \in Draws : \A p \in Places : Holds(p, n)' <=> Holds(p, n),
         \A n \in Draws : \A p \in Places : Spendable(p, n)' => Spendable(p, n)
  PROVE  UseInv'
<1>1. /\ frames'[i] = f
      /\ \A k \in Handlers \ {i} : frames'[k] = frames[k]
  BY Moved
<1>2. draws' \in Draws /\ draws < draws' /\ draws \in Int /\ draws' \in Int
  BY Drawing, Typed, Bounds DEF Inv, Draws
<1>3. ghost.uses[draws'] = 0 /\ \A p \in Places : ~Claims(p, draws')
  <2>1. ~(draws' <= draws)
    BY <1>2
  <2>2. ghost.uses[draws'] \in Nat
    BY <1>2, Typed DEF Ghost
  <2> QED  BY <1>2, <2>1, <2>2 DEF UseInv, Drawn
<1>4. ASSUME NEW n \in Draws, NEW p \in Places, Claims(p, n)'
      PROVE  Claims(p, n) \/ (n = draws' /\ Place(f, p))
  BY <1>1, <1>4 DEF Claims, Wants
<1>5. OnePlace'
  <2> SUFFICES ASSUME NEW n \in Draws, NEW p \in Places, NEW q \in Places,
                      Claims(p, n)', Claims(q, n)'
               PROVE  p = q
    BY DEF OnePlace
  <2>1. CASE n = draws'
    BY <1>3, <1>4, <2>1, PlaceOne
  <2>2. CASE n # draws'
    BY <1>4, <2>2 DEF UseInv, OnePlace
  <2> QED  BY <2>1, <2>2
<1>6. Drawn'
  <2> SUFFICES ASSUME NEW n \in Draws,
                      (\E p \in Places : Claims(p, n)') \/ ghost.uses[n] > 0
               PROVE  n <= draws'
    BY DEF Drawn
  <2>1. n = draws' \/ n <= draws
    BY <1>4 DEF UseInv, Drawn
  <2>2. n \in Int
    BY Bounds DEF Draws
  <2> QED  BY <1>2, <2>1, <2>2
<1>7. Unused'
  BY DEF UseInv, Unused
<1>8. Private'
  <2> SUFFICES ASSUME NEW k \in Handlers, frames'[k].pc \in Committing,
                      NEW n, n = frames'[k].n
               PROVE  /\ ghost.uses[n] = 0
                      /\ \A p \in Places : ~Holds(p, n)'
                      /\ \A j \in Handlers \ {k} : \A p \in Places : ~Wants(j, p, n)'
    BY DEF Private
  <2>1. CASE k = i
    <3>1. n = draws'
      BY <1>1, <2>1
    <3>2. \A p \in Places : ~Holds(p, n)'
      BY <1>2, <1>3, <3>1 DEF Claims
    <3>3. \A j \in Handlers \ {k} : \A p \in Places : ~Wants(j, p, n)'
      BY <1>1, <1>3, <2>1, <3>1 DEF Claims, Wants
    <3> QED  BY <1>3, <3>1, <3>2, <3>3
  <2>2. CASE k # i
    <3>1. frames'[k] = frames[k]
      BY <1>1, <2>2
    <3>2. n \in Draws /\ \E p \in Places : Place(frames[k], p)
      BY <3>1, PlaceOfFrame
    <3>3. n # draws'
      BY <1>3, <3>1, <3>2 DEF Claims, Wants
    <3>4. /\ ghost.uses[n] = 0 /\ \A p \in Places : ~Holds(p, n)
          /\ \A j \in Handlers \ {k} : \A p \in Places : ~Wants(j, p, n)
      BY <3>1 DEF UseInv, Private
    <3> QED  BY <1>1, <3>2, <3>3, <3>4 DEF Wants
  <2> QED  BY <2>1, <2>2
<1>9. UsesOK'
  <2> SUFFICES ASSUME NEW n \in Draws
               PROVE  ghost.uses[n] + Cardinality(Readers(n)') <=
                        Cardinality(Handlers)
    BY DEF UsesOK
  <2>1. Readers(n)' \in SUBSET Readers(n) /\ Readers(n) \in SUBSET Handlers
    BY <1>1 DEF Readers, Reading, Committing
  <2>2. /\ Cardinality(Readers(n)') \in Nat /\ Cardinality(Readers(n)) \in Nat
        /\ Cardinality(Readers(n)') <= Cardinality(Readers(n))
    BY <2>1, Fewer, HandlersFinite
  <2>3. ghost.uses[n] + Cardinality(Readers(n)) <= Cardinality(Handlers)
    BY DEF UseInv, UsesOK
  <2>4. ghost.uses[n] \in Nat
    BY Typed DEF Ghost
  <2> QED  BY <2>2, <2>3, <2>4, HandlersFinite
<1> QED  BY <1>5, <1>6, <1>7, <1>8, <1>9 DEF UseInv

\* A code is drawn and stored in one statement.
LEMMA StoreClaims ==
  ASSUME Inv, UseInv, NEW i \in Handlers, NEW f, Goto(i, f), Draw,
         UNCHANGED ghost, f.pc \notin Committing \cup Reading,
         NEW t,
         \A n \in Draws : \A p \in Places :
           Holds(p, n)' => Holds(p, n) \/ (n = draws' /\ p = t),
         \A n \in Draws : \A p \in Places :
           Spendable(p, n)' => Spendable(p, n) \/ n = draws'
  PROVE  UseInv'
<1>1. /\ frames'[i] = f
      /\ \A k \in Handlers \ {i} : frames'[k] = frames[k]
  BY Moved
<1>2. draws' \in Draws /\ draws < draws' /\ draws \in Int /\ draws' \in Int
  BY Drawing, Typed, Bounds DEF Inv, Draws
<1>3. ghost.uses[draws'] = 0 /\ \A p \in Places : ~Claims(p, draws')
  <2>1. ~(draws' <= draws)
    BY <1>2
  <2>2. ghost.uses[draws'] \in Nat
    BY <1>2, Typed DEF Ghost
  <2> QED  BY <1>2, <2>1, <2>2 DEF UseInv, Drawn
<1>4. \A k \in Handlers : \A p, n : Wants(k, p, n)' => Wants(k, p, n)
  BY <1>1 DEF Wants, Place, Reading, Committing
<1>5. ASSUME NEW n \in Draws, NEW p \in Places, Claims(p, n)'
      PROVE  Claims(p, n) \/ (n = draws' /\ p = t)
  BY <1>4, <1>5 DEF Claims
<1>6. OnePlace'
  <2> SUFFICES ASSUME NEW n \in Draws, NEW p \in Places, NEW q \in Places,
                      Claims(p, n)', Claims(q, n)'
               PROVE  p = q
    BY DEF OnePlace
  <2>1. CASE n = draws'
    BY <1>3, <1>5, <2>1
  <2>2. CASE n # draws'
    BY <1>5, <2>2 DEF UseInv, OnePlace
  <2> QED  BY <2>1, <2>2
<1>7. Drawn'
  <2> SUFFICES ASSUME NEW n \in Draws,
                      (\E p \in Places : Claims(p, n)') \/ ghost.uses[n] > 0
               PROVE  n <= draws'
    BY DEF Drawn
  <2>1. n = draws' \/ n <= draws
    BY <1>5 DEF UseInv, Drawn
  <2>2. n \in Int
    BY Bounds DEF Draws
  <2> QED  BY <1>2, <2>1, <2>2
<1>8. Unused'
  BY <1>3 DEF UseInv, Unused
<1>9. Private'
  <2> SUFFICES ASSUME NEW k \in Handlers, frames'[k].pc \in Committing,
                      NEW n, n = frames'[k].n
               PROVE  /\ ghost.uses[n] = 0
                      /\ \A p \in Places : ~Holds(p, n)'
                      /\ \A j \in Handlers \ {k} : \A p \in Places : ~Wants(j, p, n)'
    BY DEF Private
  <2>1. k # i /\ frames'[k] = frames[k]
    BY <1>1
  <2>2. n \in Draws /\ \E p \in Places : Place(frames[k], p)
    BY <2>1, PlaceOfFrame
  <2>3. n # draws'
    BY <1>3, <2>1, <2>2 DEF Claims, Wants
  <2>4. /\ ghost.uses[n] = 0 /\ \A p \in Places : ~Holds(p, n)
        /\ \A j \in Handlers \ {k} : \A p \in Places : ~Wants(j, p, n)
    BY <2>1 DEF UseInv, Private
  <2> QED  BY <1>4, <2>2, <2>3, <2>4
<1>10. UsesOK'
  <2> SUFFICES ASSUME NEW n \in Draws
               PROVE  ghost.uses[n] + Cardinality(Readers(n)') <=
                        Cardinality(Handlers)
    BY DEF UsesOK
  <2>1. Readers(n)' \in SUBSET Readers(n) /\ Readers(n) \in SUBSET Handlers
    BY <1>1 DEF Readers
  <2>2. /\ Cardinality(Readers(n)') \in Nat /\ Cardinality(Readers(n)) \in Nat
        /\ Cardinality(Readers(n)') <= Cardinality(Readers(n))
    BY <2>1, Fewer, HandlersFinite
  <2>3. ghost.uses[n] + Cardinality(Readers(n)) <= Cardinality(Handlers)
    BY DEF UseInv, UsesOK
  <2>4. ghost.uses[n] \in Nat
    BY Typed DEF Ghost
  <2> QED  BY <2>2, <2>3, <2>4, HandlersFinite
<1> QED  BY <1>6, <1>7, <1>8, <1>9, <1>10 DEF UseInv

\* A transaction commits what it drew.
LEMMA CommitClaims ==
  ASSUME Inv, UseInv, NEW i \in Handlers, Goto(i, Idle),
         frames[i].pc \in Committing, UNCHANGED <<draws, ghost>>,
         \A n \in Draws : \A p \in Places :
           Holds(p, n)' => Holds(p, n) \/ Wants(i, p, n),
         \A n \in Draws : \A p \in Places :
           Spendable(p, n)' => Spendable(p, n) \/ Wants(i, p, n)
  PROVE  UseInv'
<1>1. /\ frames'[i] = Idle /\ Idle.pc = "idle"
      /\ \A k \in Handlers \ {i} : frames'[k] = frames[k]
  BY Moved, IdleFrame
<1>2. \A k \in Handlers : \A p, n :
        Wants(k, p, n)' => Wants(k, p, n) /\ k # i
  BY <1>1 DEF Wants, Place
<1>3. ASSUME NEW n \in Draws, NEW p \in Places, Claims(p, n)'
      PROVE  Claims(p, n)
  BY <1>2, <1>3 DEF Claims
<1>4. OnePlace'
  BY <1>3 DEF UseInv, OnePlace
<1>5. Drawn'
  <2> SUFFICES ASSUME NEW n \in Draws,
                      (\E p \in Places : Claims(p, n)') \/ ghost.uses[n] > 0
               PROVE  n <= draws
    BY DEF Drawn
  <2> QED  BY <1>3 DEF UseInv, Drawn
<1>6. Unused'
  <2> SUFFICES ASSUME NEW n \in Draws, NEW p \in Places, Spendable(p, n)'
               PROVE  ghost.uses[n] = 0
    BY DEF Unused
  <2> QED  BY DEF UseInv, Unused, Private, Wants
<1>7. Private'
  <2> SUFFICES ASSUME NEW k \in Handlers, frames'[k].pc \in Committing,
                      NEW n, n = frames'[k].n
               PROVE  /\ ghost.uses[n] = 0
                      /\ \A p \in Places : ~Holds(p, n)'
                      /\ \A j \in Handlers \ {k} : \A p \in Places : ~Wants(j, p, n)'
    BY DEF Private
  <2>1. k # i /\ frames'[k] = frames[k]
    BY <1>1 DEF Committing
  <2>2. n \in Draws
    BY <2>1, PlaceOfFrame
  <2>3. /\ ghost.uses[n] = 0 /\ \A p \in Places : ~Holds(p, n)
        /\ \A j \in Handlers \ {k} : \A p \in Places : ~Wants(j, p, n)
    BY <2>1 DEF UseInv, Private
  <2> QED  BY <1>2, <2>1, <2>2, <2>3
<1>8. UsesOK'
  <2> SUFFICES ASSUME NEW n \in Draws
               PROVE  ghost.uses[n] + Cardinality(Readers(n)') <=
                        Cardinality(Handlers)
    BY DEF UsesOK
  <2>1. Readers(n)' \in SUBSET Readers(n) /\ Readers(n) \in SUBSET Handlers
    BY <1>1 DEF Readers, Reading
  <2>2. /\ Cardinality(Readers(n)') \in Nat /\ Cardinality(Readers(n)) \in Nat
        /\ Cardinality(Readers(n)') <= Cardinality(Readers(n))
    BY <2>1, Fewer, HandlersFinite
  <2>3. ghost.uses[n] + Cardinality(Readers(n)) <= Cardinality(Handlers)
    BY DEF UseInv, UsesOK
  <2>4. ghost.uses[n] \in Nat
    BY Typed DEF Ghost
  <2> QED  BY <2>2, <2>3, <2>4, HandlersFinite
<1> QED  BY <1>4, <1>5, <1>6, <1>7, <1>8 DEF UseInv

\* A link or a code is used, and nobody is let in with it from now on.
LEMMA UseClaims ==
  ASSUME Inv, UseInv, NEW i \in Handlers, NEW f, Goto(i, f),
         frames[i].pc \in Reading, f.pc \notin Committing \cup Reading,
         UNCHANGED draws, NEW n, n = frames[i].n,
         ghost' = [ghost EXCEPT !.uses[n] = @ + 1],
         \A m \in Draws : \A p \in Places : Holds(p, m)' => Holds(p, m),
         \A m \in Draws : \A p \in Places :
           Spendable(p, m)' => Spendable(p, m) /\ ~Wants(i, p, m)
  PROVE  UseInv'
<1>1. /\ frames'[i] = f
      /\ \A k \in Handlers \ {i} : frames'[k] = frames[k]
  BY Moved
<1>2. n \in Draws /\ \E p \in Places : Wants(i, p, n)
  BY PlaceOfFrame DEF Wants
<1>3. /\ ghost'.uses[n] = ghost.uses[n] + 1
      /\ \A m \in Draws \ {n} : ghost'.uses[m] = ghost.uses[m]
      /\ \A m \in Draws : ghost.uses[m] \in Nat
  BY <1>2, Typed DEF Ghost
<1>4. \A k \in Handlers : \A p, m :
        Wants(k, p, m)' => Wants(k, p, m)
  BY <1>1 DEF Wants, Place, Reading, Committing
<1>5. ASSUME NEW m \in Draws, NEW p \in Places, Claims(p, m)'
      PROVE  Claims(p, m)
  BY <1>4, <1>5 DEF Claims
<1>6. OnePlace'
  BY <1>5 DEF UseInv, OnePlace
<1>7. Drawn'
  <2> SUFFICES ASSUME NEW m \in Draws,
                      (\E p \in Places : Claims(p, m)') \/ ghost'.uses[m] > 0
               PROVE  m <= draws
    BY DEF Drawn
  <2>1. (\E p \in Places : Claims(p, m)) \/ ghost.uses[m] > 0
    BY <1>2, <1>3, <1>5 DEF Claims
  <2> QED  BY <2>1 DEF UseInv, Drawn
<1>8. Unused'
  <2> SUFFICES ASSUME NEW m \in Draws, NEW p \in Places, Spendable(p, m)'
               PROVE  ghost'.uses[m] = 0
    BY DEF Unused
  <2>1. Spendable(p, m) /\ ~Wants(i, p, m) /\ ghost.uses[m] = 0
    BY DEF UseInv, Unused
  <2>2. CASE m = n
    <3>1. PICK q \in Places : Wants(i, q, n)
      BY <1>2
    <3>2. Claims(p, m) /\ Claims(q, m)
      BY <2>1, <2>2, <3>1 DEF Spendable, Claims
    <3>3. p = q
      BY <3>2 DEF UseInv, OnePlace
    <3> QED  BY <2>1, <2>2, <3>1, <3>3
  <2> QED  BY <1>3, <2>1, <2>2
<1>9. Private'
  <2> SUFFICES ASSUME NEW k \in Handlers, frames'[k].pc \in Committing,
                      NEW m, m = frames'[k].n
               PROVE  /\ ghost'.uses[m] = 0
                      /\ \A p \in Places : ~Holds(p, m)'
                      /\ \A j \in Handlers \ {k} : \A p \in Places : ~Wants(j, p, m)'
    BY DEF Private
  <2>1. k # i /\ frames'[k] = frames[k]
    BY <1>1
  <2>2. m \in Draws
    BY <2>1, PlaceOfFrame
  <2>3. /\ ghost.uses[m] = 0 /\ \A p \in Places : ~Holds(p, m)
        /\ \A j \in Handlers \ {k} : \A p \in Places : ~Wants(j, p, m)
    BY <2>1 DEF UseInv, Private
  <2>4. m # n
    BY <1>2, <2>1, <2>3
  <2> QED  BY <1>3, <1>4, <2>1, <2>2, <2>3, <2>4
<1>10. UsesOK'
  <2> SUFFICES ASSUME NEW m \in Draws
               PROVE  ghost'.uses[m] + Cardinality(Readers(m)') <=
                        Cardinality(Handlers)
    BY DEF UsesOK
  <2>1. ghost.uses[m] + Cardinality(Readers(m)) <= Cardinality(Handlers)
    BY DEF UseInv, UsesOK
  <2>2. Readers(m)' \in SUBSET Readers(m) /\ Readers(m) \in SUBSET Handlers
    BY <1>1 DEF Readers
  <2>3. CASE m = n
    <3>1. i \in Readers(m) /\ Readers(m)' \in SUBSET Readers(m) \ {i}
      BY <1>1, <2>3 DEF Readers
    <3>2. /\ Cardinality(Readers(m)') \in Nat /\ Cardinality(Readers(m)) \in Nat
          /\ Cardinality(Readers(m)') + 1 <= Cardinality(Readers(m))
      BY <2>2, <3>1, OneLess
    <3> QED  BY <1>3, <2>1, <2>3, <3>2, HandlersFinite
  <2>4. CASE m # n
    <3>1. /\ Cardinality(Readers(m)') \in Nat /\ Cardinality(Readers(m)) \in Nat
          /\ Cardinality(Readers(m)') <= Cardinality(Readers(m))
      BY <2>2, Fewer, HandlersFinite
    <3> QED  BY <1>3, <2>1, <2>4, <3>1, HandlersFinite
  <2> QED  BY <2>3, <2>4
<1> QED  BY <1>6, <1>7, <1>8, <1>9, <1>10 DEF UseInv

\* Admins and time only take links and codes away.
LEMMA BesideClaims ==
  ASSUME Inv, UseInv, UNCHANGED <<frames, draws>>, ghost'.uses = ghost.uses,
         \A n \in Draws : \A p \in Places : Holds(p, n)' => Holds(p, n),
         \A n \in Draws : \A p \in Places : Spendable(p, n)' => Spendable(p, n)
  PROVE  UseInv'
<1>1. \A k \in Handlers : \A p, n : Wants(k, p, n)' => Wants(k, p, n)
  BY DEF Wants
<1>2. \A n \in Draws : \A p \in Places : Claims(p, n)' => Claims(p, n)
  BY <1>1 DEF Claims
<1>3. OnePlace' /\ Drawn' /\ Unused'
  BY <1>2, Typed, FewerClaims
<1>4. Private'
  <2>1. \A k \in Handlers : frames[k].pc \in Committing => frames[k].n \in Draws
    BY PlaceOfFrame
  <2> QED  BY <1>1, <2>1 DEF UseInv, Private
<1>5. UsesOK'
  BY DEF UseInv, UsesOK, Readers
<1> QED  BY <1>3, <1>4, <1>5 DEF UseInv

-----------------------------------------------------------------------------
(***************************************************************************)
(* What a step of the tables means for links, codes and counters.          *)
(***************************************************************************)
CountInv == UseInv /\ LockInv /\ TriesInv

\* Links and codes stay or go; a spent code stays spent.
KeptRows ==
  /\ \A id \in DOMAIN db'.users :
       /\ id \in DOMAIN db.users
       /\ db'.users[id].verify \in {None, db.users[id].verify}
       /\ db'.users[id].reset \in {None, db.users[id].reset}
  /\ \A t \in DOMAIN db'.codes :
       /\ t \in DOMAIN db.codes /\ db'.codes[t].code = db.codes[t].code
       /\ db.codes[t].used => db'.codes[t].used

KeptTries ==
  \A t \in DOMAIN db'.codes : /\ t \in DOMAIN db.codes
                              /\ db'.codes[t].tries = db.codes[t].tries
                              /\ db'.codes[t].resends = db.codes[t].resends

LEMMA KeptHolds ==
  ASSUME KeptRows
  PROVE  /\ \A n \in Draws : \A p \in Places : Holds(p, n)' => Holds(p, n)
         /\ \A n \in Draws : \A p \in Places :
              Spendable(p, n)' => Spendable(p, n)
<1> SUFFICES ASSUME NEW n \in Draws, NEW p \in Places, Holds(p, n)'
             PROVE  Holds(p, n) /\ (Spendable(p, n)' => Spendable(p, n))
  BY DEF Spendable
<1>1. n # None
  BY NoneIsNothing
<1>2. CASE p[1] = "verify"
  BY <1>1, <1>2 DEF Holds, Spendable, KeptRows
<1>3. CASE p[1] = "reset"
  BY <1>1, <1>3 DEF Holds, Spendable, KeptRows
<1>4. CASE p[1] = "code"
  BY <1>4 DEF Holds, Spendable, KeptRows
<1> QED  BY <1>2, <1>3, <1>4 DEF Holds

LEMMA LockKept ==
  ASSUME Inv, LockInv, NEW i \in Handlers, NEW f, Goto(i, f), f.pc # "count",
         db'.attempts = db.attempts, ghost'.overrun = ghost.overrun
  PROVE  LockInv'
<1> SUFFICES ASSUME NEW k \in Keys, db.attempts[k].lock = "on"
             PROVE  ghost.overrun[k] + Cardinality(Counting(k)') <
                      Cardinality(Handlers)
  BY DEF LockInv
<1>1. Counting(k)' \in SUBSET Counting(k) /\ Counting(k) \in SUBSET Handlers
  BY Moved DEF Counting
<1>2. /\ Cardinality(Counting(k)') \in Nat /\ Cardinality(Counting(k)) \in Nat
      /\ Cardinality(Counting(k)') <= Cardinality(Counting(k))
  BY <1>1, Fewer, HandlersFinite
<1>3. ghost.overrun[k] + Cardinality(Counting(k)) < Cardinality(Handlers)
  BY DEF LockInv
<1>4. ghost.overrun[k] \in Nat
  BY Typed DEF Ghost
<1> QED  BY <1>2, <1>3, <1>4, HandlersFinite

LEMMA OnFewer ==
  ASSUME Inv, NEW i \in Handlers, NEW f, Goto(i, f), NEW pc, f.pc # pc, NEW t
  PROVE  /\ Cardinality(On(pc, t)) \in Nat /\ Cardinality(On(pc, t)') \in Nat
         /\ Cardinality(On(pc, t)') <= Cardinality(On(pc, t))
<1>1. On(pc, t)' \in SUBSET On(pc, t) /\ On(pc, t) \in SUBSET Handlers
  BY Moved DEF On
<1> QED  BY <1>1, Fewer, HandlersFinite

LEMMA Limits == CodeTries \in Nat \ {0} /\ CodeResends \in Nat \ {0}
                /\ LoginMaxAttempts \in Nat \ {0}
BY AccountAssumption

LEMMA TriesKept ==
  ASSUME Inv, TriesInv, NEW i \in Handlers, NEW f, Goto(i, f),
         f.pc \notin {"wrong", "recode"}, KeptTries
  PROVE  TriesInv'
<1> SUFFICES ASSUME NEW t \in DOMAIN db'.codes
             PROVE  /\ db'.codes[t].tries + Cardinality(On("wrong", t)') <
                         CodeTries + Cardinality(Handlers)
                    /\ db'.codes[t].resends + Cardinality(On("recode", t)') <
                         CodeResends + Cardinality(Handlers)
  BY DEF TriesInv
<1>1. t \in DOMAIN db.codes /\ db'.codes[t].tries = db.codes[t].tries
      /\ db'.codes[t].resends = db.codes[t].resends
  BY DEF KeptTries
<1>2. db.codes[t].tries \in Nat /\ db.codes[t].resends \in Nat
  BY <1>1, CodeFacts DEF Login
<1>3. /\ db.codes[t].tries + Cardinality(On("wrong", t)) <
           CodeTries + Cardinality(Handlers)
      /\ db.codes[t].resends + Cardinality(On("recode", t)) <
           CodeResends + Cardinality(Handlers)
  BY <1>1 DEF TriesInv
<1>4. /\ Cardinality(On("wrong", t)) \in Nat
      /\ Cardinality(On("wrong", t)') \in Nat
      /\ Cardinality(On("wrong", t)') <= Cardinality(On("wrong", t))
  BY OnFewer
<1>5. /\ Cardinality(On("recode", t)) \in Nat
      /\ Cardinality(On("recode", t)') \in Nat
      /\ Cardinality(On("recode", t)') <= Cardinality(On("recode", t))
  BY OnFewer
<1> QED  BY <1>1, <1>2, <1>3, <1>4, <1>5, HandlersFinite, Limits

\* A handler moves to where it holds nothing and counts nothing.
LEMMA QuietCounts ==
  ASSUME Inv, CountInv, NEW i \in Handlers, NEW f, Goto(i, f),
         f.pc \notin Committing \cup Reading \cup {"count", "wrong", "recode"},
         KeptRows, KeptTries, db'.attempts = db.attempts,
         ghost'.uses = ghost.uses, ghost'.overrun = ghost.overrun,
         draws' \in Nat, draws <= draws'
  PROVE  CountInv'
<1>1. UseInv'
  BY KeptHolds, ReadClaims DEF CountInv
<1>2. LockInv' /\ TriesInv'
  BY LockKept, TriesKept DEF CountInv
<1> QED  BY <1>1, <1>2 DEF CountInv

LEMMA BesideCounts ==
  ASSUME Inv, CountInv, UNCHANGED <<frames, draws>>, KeptRows, KeptTries,
         \A k \in Keys : \/ db'.attempts[k] = db.attempts[k]
                         \/ /\ db'.attempts[k].n = db.attempts[k].n
                            /\ db'.attempts[k].lock = "past",
         ghost'.uses = ghost.uses, ghost'.overrun = ghost.overrun
  PROVE  CountInv'
<1>1. UseInv'
  BY KeptHolds, BesideClaims DEF CountInv
<1>2. LockInv'
  BY DEF CountInv, LockInv, Counting
<1>3. TriesInv'
  BY DEF CountInv, TriesInv, On, KeptTries
<1> QED  BY <1>1, <1>2, <1>3 DEF CountInv

LEMMA SameDb ==
  ASSUME Inv, UNCHANGED db
  PROVE  /\ KeptRows /\ KeptTries /\ db'.attempts = db.attempts
         /\ \A n : \A p \in Places : Holds(p, n)' <=> Holds(p, n)
BY DEF KeptRows, KeptTries, Holds

-----------------------------------------------------------------------------
(***************************************************************************)
(* Steps that hold nothing and count nothing.                              *)
(***************************************************************************)
Quiet == Pcs \ (Committing \cup Reading \cup {"count", "wrong", "recode"})

LEMMA QuietPcs ==
  \A pc \in {"idle", "link", "generate", "mail password", "change", "profile",
             "prefer", "lock", "clear", "device", "code", "send", "trust"} :
    pc \in Quiet
BY DEF Quiet, Pcs, Committing, Reading

LEMMA StillCounts ==
  ASSUME Inv, CountInv, NEW i \in Handlers, NEW f, Goto(i, f), f.pc \in Quiet,
         UNCHANGED db, ghost'.uses = ghost.uses,
         ghost'.overrun = ghost.overrun, draws' \in Nat, draws <= draws'
  PROVE  CountInv'
BY SameDb, QuietCounts DEF Quiet

\* A draw, or none.
LEMMA DrawsGrow ==
  ASSUME Inv, UNCHANGED draws \/ Draw
  PROVE  draws' \in Nat /\ draws <= draws'
<1>1. draws \in Nat
  BY Typed, Bounds
<1>2. CASE Draw
  BY <1>1, <1>2 DEF Draw
<1>3. CASE UNCHANGED draws
  BY <1>1, <1>3
<1> QED  BY <1>2, <1>3

LEMMA QuietAt ==
  ASSUME NEW pc \in {"link", "generate", "mail password", "change", "profile",
                     "prefer", "lock", "send"}, NEW id, NEW n
  PROVE  At(pc, id, n).pc \in Quiet /\ Idle.pc \in Quiet
<1>1. At(pc, id, n).pc = pc /\ Idle.pc = "idle"
  BY DEF At, Idle
<1> QED  BY <1>1, QuietPcs

\* Statements that only read, and the end of a handler that is cut short.
LEMMA ReadsCount ==
  ASSUME Inv, CountInv, NEW i \in Handlers,
         \/ Resend(i) \/ Generate(i) \/ EnterLogin(i) \/ LoginDevice(i)
         \/ Ask(i, "change", "change") \/ Ask(i, "profile", "profile")
         \/ Ask(i, "preference", "prefer") \/ Abort(i)
  PROVE  CountInv'
<1>1. /\ UNCHANGED <<db, draws>> /\ ghost'.uses = ghost.uses
      /\ ghost'.overrun = ghost.overrun /\ draws' \in Nat /\ draws <= draws'
  <2>1. CASE Abort(i)
    BY <2>1, Typed, DrawsGrow DEF Abort, Ghost
  <2>2. CASE ~Abort(i)
    BY <2>2, DrawsGrow DEF Resend, Generate, EnterLogin, LoginDevice, Ask
  <2> QED  BY <2>1, <2>2
<1>2. ASSUME NEW f, Goto(i, f), f.pc \in Quiet  PROVE  CountInv'
  BY <1>1, <1>2, StillCounts
<1>3. \A pc \in {"link", "generate", "change", "profile", "prefer", "lock"} :
        \A id, n : Goto(i, At(pc, id, n)) => CountInv'
  BY <1>2, QuietAt
<1>4. CASE Resend(i) \/ Generate(i)
  BY <1>3, <1>4 DEF Resend, Generate
<1>5. CASE \/ Ask(i, "change", "change") \/ Ask(i, "profile", "profile")
           \/ Ask(i, "preference", "prefer")
  BY <1>3, <1>5 DEF Ask
<1>6. CASE EnterLogin(i)
  <2>1. ASSUME NEW id, NEW right, NEW verified
        PROVE  [At("lock", id, None) EXCEPT
                  !.right = right, !.verified = verified].pc \in Quiet
    <3>1. [At("lock", id, None) EXCEPT
             !.right = right, !.verified = verified].pc = "lock"
      BY DEF At, Idle
    <3> QED  BY <3>1, QuietPcs
  <2>2. CASE Goto(i, At("lock", 0, None))
    BY <1>3, <2>2
  <2>3. ASSUME NEW id, NEW right,
               Goto(i, [At("lock", id, None) EXCEPT
                          !.right = right, !.verified = db.users[id].verified])
        PROVE  CountInv'
    BY <1>2, <2>1, <2>3
  <2> QED  BY <1>6, <2>2, <2>3 DEF EnterLogin
<1>7. CASE LoginDevice(i)
  <2>1. Goto(i, Idle) \/ Goto(i, [frames[i] EXCEPT !.pc = "code"])
    BY <1>7 DEF LoginDevice, Done
  <2>2. [frames[i] EXCEPT !.pc = "code"].pc = "code" /\ Idle.pc = "idle"
    BY IdleFrame, Typed DEF Frame
  <2> QED  BY <1>2, <2>1, <2>2, QuietPcs
<1>8. CASE Abort(i)
  BY <1>2, <1>8, IdleFrame, QuietPcs DEF Abort, Done
<1> QED  BY <1>4, <1>5, <1>6, <1>7, <1>8

\* The lock decides whether a wrong password is counted.
LEMMA LoginLockCounts ==
  ASSUME Inv, CountInv, NEW i \in Handlers, LoginLock(i)  PROVE  CountInv'
<1> DEFINE k == frames[i].id
           f == [frames[i] EXCEPT !.pc = "count"]
<1>1. /\ UNCHANGED <<db, ghost, draws>> /\ k \in Keys /\ frames[i] \in Frame
      /\ draws' \in Nat /\ draws <= draws'
  BY Typed, Bounds DEF LoginLock, Frame
<1>2. CASE Goto(i, Idle) \/ Goto(i, [frames[i] EXCEPT !.pc = "clear"])
  <2>1. [frames[i] EXCEPT !.pc = "clear"].pc = "clear" /\ Idle.pc = "idle"
    BY <1>1, IdleFrame DEF Frame
  <2>2. ASSUME NEW g, Goto(i, g), g.pc \in Quiet  PROVE  CountInv'
    BY <1>1, <2>2, StillCounts
  <2> QED  BY <1>2, <2>1, <2>2, QuietPcs
<1>3. CASE Goto(i, f) /\ db.attempts[k].lock # "on"
  <2>1. f.pc = "count" /\ f.id = k
    BY <1>1 DEF Frame
  <2> HIDE DEF f
  <2>2. KeptRows /\ KeptTries
    BY <1>1, SameDb
  <2>3. UseInv'
    BY <1>1, <1>3, <2>1, <2>2, KeptHolds, ReadClaims
       DEF CountInv, Committing, Reading
  <2>4. TriesInv'
    BY <1>3, <2>1, <2>2, TriesKept DEF CountInv
  <2>5. LockInv'
    <3> SUFFICES ASSUME NEW j \in Keys, db.attempts[j].lock = "on"
                 PROVE  ghost.overrun[j] + Cardinality(Counting(j)') <
                          Cardinality(Handlers)
      BY <1>1 DEF CountInv, LockInv
    <3>1. j # k
      BY <1>3
    <3>2. Counting(j)' = Counting(j)
      <4>1. frames'[i] = f /\ \A h \in Handlers \ {i} : frames'[h] = frames[h]
        BY <1>3, Moved
      <4>2. i \notin Counting(j)' /\ i \notin Counting(j)
        BY <2>1, <3>1, <4>1 DEF Counting
      <4> QED  BY <4>1, <4>2 DEF Counting
    <3> QED  BY <3>2 DEF CountInv, LockInv
  <2> QED  BY <2>3, <2>4, <2>5 DEF CountInv
<1> QED  BY <1>2, <1>3 DEF LoginLock, LockedOut, Done

LEMMA UsersOnly ==
  ASSUME Inv, NEW w, db' = [db EXCEPT !.users = w]
  PROVE  /\ db'.users = w /\ db'.codes = db.codes
         /\ db'.attempts = db.attempts
         /\ \A id \in DOMAIN db.users : db.users[id] \in User
BY Typed DEF Tables

\* Statements on passwords, mails, profiles, preferences and devices.
LEMMA OthersCount ==
  ASSUME Inv, CountInv, NEW i \in Handlers,
         \/ GenerateUpdate(i) \/ MailPassword(i) \/ SendCode(i)
         \/ ChangePassword(i) \/ SaveProfile(i) \/ AddPreference(i)
         \/ TrustDevice(i)
  PROVE  CountInv'
<1>1. /\ UNCHANGED ghost /\ draws' \in Nat /\ draws <= draws'
  BY DrawsGrow DEF GenerateUpdate, MailPassword, SendCode, ChangePassword,
                   SaveProfile, AddPreference, TrustDevice
<1>2. Idle.pc \in Quiet /\ \A id, n : At("mail password", id, n).pc \in Quiet
  BY QuietAt
<1>3. \E f : Goto(i, f) /\ f.pc \in Quiet
  <2>1. CASE GenerateUpdate(i)
    <3>1. PICK n : n = draws'
      OBVIOUS
    <3>2. Goto(i, At("mail password", frames[i].id, n))
      BY <2>1, <3>1 DEF GenerateUpdate
    <3> QED  BY <1>2, <3>2
  <2>2. CASE ~GenerateUpdate(i)
    <3>1. Goto(i, Idle)
      BY <2>2 DEF MailPassword, SendCode, ChangePassword, SaveProfile,
                  AddPreference, TrustDevice, Done
    <3> QED  BY <1>2, <3>1
  <2> QED  BY <2>1, <2>2
<1>4. /\ db'.codes = db.codes /\ db'.attempts = db.attempts
      /\ DOMAIN db'.users = DOMAIN db.users
      /\ \A id \in DOMAIN db.users :
           /\ db'.users[id].verify = db.users[id].verify
           /\ db'.users[id].reset = db.users[id].reset
  <2>1. CASE GenerateUpdate(i)
    <3>1. PICK n : n = draws'
      OBVIOUS
    <3>2. db' = [db EXCEPT !.users = [x \in DOMAIN db.users |->
                   IF x = frames[i].id
                   THEN [db.users[x] EXCEPT !.password = <<"drawn", n>>,
                                            !.must = TRUE]
                   ELSE db.users[x]]]
      BY <2>1, <3>1 DEF GenerateUpdate, Update
    <3>3. \A u \in User :
            LET v == [u EXCEPT !.password = <<"drawn", n>>, !.must = TRUE]
            IN  v.verify = u.verify /\ v.reset = u.reset
      BY DEF User
    <3> QED  BY <3>2, <3>3, UsersOnly
  <2>2. CASE ChangePassword(i)
    <3>1. db' = [db EXCEPT !.users = [x \in DOMAIN db.users |->
                   IF x = frames[i].id
                   THEN [db.users[x] EXCEPT !.password = Own, !.must = FALSE]
                   ELSE db.users[x]]]
      BY <2>2 DEF ChangePassword, Update
    <3>2. \A u \in User :
            LET v == [u EXCEPT !.password = Own, !.must = FALSE]
            IN  v.verify = u.verify /\ v.reset = u.reset
      BY DEF User
    <3> QED  BY <3>1, <3>2, UsersOnly
  <2>3. CASE MailPassword(i) \/ SendCode(i)
    BY <2>3, Typed DEF MailPassword, SendCode, Sent, Tables
  <2>4. CASE SaveProfile(i)
    BY <2>4, Typed DEF SaveProfile, Tables
  <2>5. CASE AddPreference(i)
    BY <2>5, Typed DEF AddPreference, Tables
  <2>6. CASE TrustDevice(i)
    BY <2>6, Typed DEF TrustDevice, Tables
  <2> QED  BY <2>1, <2>2, <2>3, <2>4, <2>5, <2>6
<1>5. KeptRows /\ KeptTries
  BY <1>4 DEF KeptRows, KeptTries
<1> QED  BY <1>1, <1>3, <1>4, <1>5, QuietCounts DEF Quiet

-----------------------------------------------------------------------------
(***************************************************************************)
(* Steps that draw, store, read and use a link.                            *)
(***************************************************************************)
\* The lock and the limits of a code are not touched.
LEMMA LinkCounts ==
  ASSUME Inv, CountInv, NEW i \in Handlers, NEW f, Goto(i, f),
         f.pc \in Committing \cup Reading \cup {"idle"},
         db'.codes = db.codes, db'.attempts = db.attempts,
         ghost'.overrun = ghost.overrun, UseInv'
  PROVE  CountInv'
<1>1. f.pc \notin {"count", "wrong", "recode"}
  BY DEF Committing, Reading
<1>2. KeptTries
  BY DEF KeptTries
<1> QED  BY <1>1, <1>2, LockKept, TriesKept DEF CountInv

LEMMA DrawLinkCounts ==
  ASSUME Inv, CountInv, NEW i \in Handlers,
         Signup(i) \/ LinkUpdate(i) \/ ResetLink(i)
  PROVE  CountInv'
<1>1. PICK n : n = draws'
  OBVIOUS
<1>2. /\ Draw /\ UNCHANGED <<db, ghost>>
      /\ \E pc \in Committing : \E id : Goto(i, At(pc, id, n))
  BY <1>1 DEF Signup, LinkUpdate, ResetLink, BeforeCommit, Committing
<1>3. PICK pc \in Committing : \E id : Goto(i, At(pc, id, n))
  BY <1>2
<1>4. PICK id : Goto(i, At(pc, id, n))
  BY <1>3
<1>5. At(pc, id, n).pc = pc /\ At(pc, id, n).n = n
  BY DEF At, Idle
<1>6. /\ \A m \in Draws : \A p \in Places : Holds(p, m)' <=> Holds(p, m)
      /\ \A m \in Draws : \A p \in Places : Spendable(p, m)' => Spendable(p, m)
  BY <1>2, SameDb, KeptHolds
<1>7. UseInv'
  BY <1>1, <1>2, <1>4, <1>5, <1>6, DrawClaims DEF CountInv
<1> QED  BY <1>2, <1>4, <1>5, <1>7, LinkCounts

LEMMA ReadLinkCounts ==
  ASSUME Inv, CountInv, NEW i \in Handlers, Verify(i) \/ Reset(i)
  PROVE  CountInv'
<1>1. UNCHANGED <<db, ghost, draws>> /\ draws' \in Nat /\ draws <= draws'
  BY DrawsGrow DEF Verify, Reset
<1>2. PICK pc \in {"verify", "reset"} : \E id \in DOMAIN db.users : \E n :
        /\ Goto(i, At(pc, id, n)) /\ n # None
        /\ pc = "verify" => n = db.users[id].verify
        /\ pc = "reset" => n = db.users[id].reset
  BY DEF Verify, Reset
<1>3. PICK id \in DOMAIN db.users : \E n :
        /\ Goto(i, At(pc, id, n)) /\ n # None
        /\ pc = "verify" => n = db.users[id].verify
        /\ pc = "reset" => n = db.users[id].reset
  BY <1>2
<1>4. PICK n : /\ Goto(i, At(pc, id, n)) /\ n # None
               /\ pc = "verify" => n = db.users[id].verify
               /\ pc = "reset" => n = db.users[id].reset
  BY <1>3
<1>5. n \in Draws /\ id \in Ids
  BY <1>4, AccountIds DEF Inv, User
<1> DEFINE f == At(pc, id, n)
           p == <<pc, id>>
<1>6. f.pc = pc /\ f.n = n /\ f.id = id
  BY DEF At, Idle
<1>7. p \in Places /\ p[1] = pc /\ p[2] = id
  BY <1>5 DEF Places
<1>8. Place(f, p)
  BY <1>6 DEF Place
<1>9. Spendable(p, n)
  BY <1>4, <1>7 DEF Spendable, Holds
<1> HIDE DEF f, p
<1>10. /\ \A m \in Draws : \A q \in Places : Holds(q, m)' => Holds(q, m)
       /\ \A m \in Draws : \A q \in Places : Spendable(q, m)' => Spendable(q, m)
  BY <1>1, SameDb, KeptHolds
<1>11. f.pc \notin Committing /\ f.pc \in Reading /\ Goto(i, f)
  BY <1>4, <1>6 DEF Committing, Reading, f
<1>12. UseInv'
  BY <1>1, <1>5, <1>6, <1>7, <1>8, <1>9, <1>10, <1>11, ReadClaims
     DEF CountInv
<1> QED  BY <1>1, <1>11, <1>12, LinkCounts

LEMMA CommitLinksCount ==
  ASSUME Inv, CountInv, NEW i \in Handlers, CommitSignup(i) \/ CommitLink(i)
  PROVE  CountInv'
<1> DEFINE g == frames[i]
<1>1. /\ Goto(i, Idle) /\ UNCHANGED <<draws, ghost>> /\ g.pc \in Committing
      /\ g.n \in Draws /\ g.n # None
  <2>1. Goto(i, Idle) /\ UNCHANGED <<draws, ghost>> /\ g.pc \in Committing
    BY DEF CommitSignup, CommitLink, Done, Is, Committing
  <2> QED  BY <2>1, PlaceOfFrame, NoneIsNothing
<1>2. /\ db'.codes = db.codes /\ db'.attempts = db.attempts
      /\ \A id \in DOMAIN db'.users :
           /\ \/ db'.users[id].verify = None
              \/ id \in DOMAIN db.users /\ db'.users[id].verify = db.users[id].verify
              \/ /\ db'.users[id].verify = g.n /\ g.id = id
                 /\ g.pc \in {"commit signup", "commit link"}
           /\ \/ db'.users[id].reset = None
              \/ id \in DOMAIN db.users /\ db'.users[id].reset = db.users[id].reset
              \/ /\ db'.users[id].reset = g.n /\ g.id = id
                 /\ g.pc = "commit reset"
  <2>1. CASE CommitSignup(i)
    <3>1. PICK u : u = NewUser(Own, FALSE, FALSE, g.n)
      OBVIOUS
    <3>2. g.pc = "commit signup" /\
          db' = [Sent(db, "verify", g.n) EXCEPT !.users = Insert(@, g.id, u)]
      BY <2>1, <3>1 DEF CommitSignup, Is
    <3>3. u.verify = g.n /\ u.reset = None
      BY <3>1 DEF NewUser
    <3>4. PICK d : d = Sent(db, "verify", g.n)
      OBVIOUS
    <3>5. /\ d.users = db.users /\ d.codes = db.codes
          /\ d.attempts = db.attempts
          /\ DOMAIN d = {"users", "profiles", "preferred", "codes", "devices",
                         "attempts", "mails"}
      BY <3>4, Typed DEF Sent, Tables
    <3>6. PICK v : v = [x \in DOMAIN db.users \cup {g.id} |->
                          IF x = g.id THEN u ELSE db.users[x]]
      OBVIOUS
    <3>7. db' = [d EXCEPT !.users = v]
      BY <3>2, <3>4, <3>5, <3>6 DEF Insert
    <3>8. db'.codes = db.codes /\ db'.attempts = db.attempts /\ db'.users = v
      BY <3>5, <3>7
    <3>9. \A x \in DOMAIN v : \/ x = g.id /\ v[x] = u
                              \/ x \in DOMAIN db.users /\ v[x] = db.users[x]
      BY <3>6
    <3>10. g.pc \in {"commit signup", "commit link"}
      BY <3>2
    <3> HIDE DEF g
    <3> QED  BY <3>3, <3>8, <3>9, <3>10
  <2>2. CASE CommitLink(i)
    <3> DEFINE r(u) == IF g.pc = "commit link" THEN [u EXCEPT !.verify = g.n]
                       ELSE [u EXCEPT !.reset = g.n, !.expired = FALSE]
               w == [x \in DOMAIN db.users |->
                       IF x = g.id THEN r(db.users[x]) ELSE db.users[x]]
               kind == IF g.pc = "commit link" THEN "verify" ELSE "reset"
    <3>1. /\ db' = [[db EXCEPT !.users = w]
                      EXCEPT !.mails = @ \cup {<<kind, g.n>>}]
          /\ g.pc \in {"commit link", "commit reset"}
      BY <2>2 DEF CommitLink, Sent, Relink, Update
    <3>2. ASSUME NEW u \in User
          PROVE  \/ /\ g.pc = "commit link" /\ r(u).verify = g.n
                    /\ r(u).reset = u.reset
                 \/ /\ g.pc = "commit reset" /\ r(u).reset = g.n
                    /\ r(u).verify = u.verify
      <4>1. CASE g.pc = "commit link"
        BY <4>1 DEF User
      <4>2. CASE g.pc = "commit reset"
        BY <4>2 DEF User
      <4> QED  BY <3>1, <4>1, <4>2
    <3> HIDE DEF r, kind
    <3>3. db'.codes = db.codes /\ db'.attempts = db.attempts /\ db'.users = w
      <4>1. PICK d : d = [db EXCEPT !.users = w]
        OBVIOUS
      <4>2. d.codes = db.codes /\ d.attempts = db.attempts /\ d.users = w
        BY <4>1, Typed DEF Tables
      <4>3. db' = [d EXCEPT !.mails = @ \cup {<<kind, g.n>>}]
        BY <3>1, <4>1
      <4> QED  BY <4>2, <4>3
    <3>4. \A x \in DOMAIN db.users : db.users[x] \in User
      BY Typed DEF Tables
    <3>5. \A x \in DOMAIN w : /\ x \in DOMAIN db.users
                              /\ \/ x = g.id /\ w[x] = r(db.users[x])
                                 \/ w[x] = db.users[x]
      OBVIOUS
    <3> HIDE DEF g, w
    <3> QED  BY <3>2, <3>3, <3>4, <3>5
  <2> QED  BY <2>1, <2>2
<1>3. ASSUME NEW n \in Draws, NEW p \in Places, Holds(p, n)', ~Holds(p, n)
      PROVE  Wants(i, p, n)
  <2>1. n # None
    BY NoneIsNothing
  <2>2. PICK kind \in {"verify", "reset", "code"}, x \in Ids \cup Draws :
          p = <<kind, x>>
    BY DEF Places
  <2>3. p[1] = kind /\ p[2] = x
    BY <2>2
  <2>4. CASE kind = "verify"
    <3>1. /\ x \in DOMAIN db'.users /\ db'.users[x].verify = n
          /\ ~(x \in DOMAIN db.users /\ db.users[x].verify = n)
      BY <1>3, <2>3, <2>4 DEF Holds
    <3>2. /\ g.n = n /\ g.id = x
          /\ g.pc \in {"commit signup", "commit link"}
      BY <1>2, <2>1, <3>1
    <3> QED  BY <2>2, <2>4, <3>2 DEF Wants, Place
  <2>5. CASE kind = "reset"
    <3>1. /\ x \in DOMAIN db'.users /\ db'.users[x].reset = n
          /\ ~(x \in DOMAIN db.users /\ db.users[x].reset = n)
      BY <1>3, <2>3, <2>5 DEF Holds
    <3>2. /\ g.n = n /\ g.id = x /\ g.pc = "commit reset"
      BY <1>2, <2>1, <3>1
    <3> QED  BY <2>2, <2>5, <3>2 DEF Wants, Place
  <2>6. CASE kind = "code"
    BY <1>2, <1>3, <2>3, <2>6 DEF Holds
  <2> QED  BY <2>4, <2>5, <2>6
<1>4. ASSUME NEW n \in Draws, NEW p \in Places, Spendable(p, n)',
             ~Spendable(p, n)
      PROVE  Wants(i, p, n)
  BY <1>2, <1>3, <1>4 DEF Spendable
<1>5. UseInv'
  BY <1>1, <1>3, <1>4, CommitClaims DEF CountInv
<1> QED  BY <1>1, <1>2, <1>5, IdleFrame, LinkCounts

LEMMA UseLinkCounts ==
  ASSUME Inv, CountInv, NEW i \in Handlers, VerifyUpdate(i) \/ ResetUpdate(i)
  PROVE  CountInv'
<1>1. PICK g, n, id : g = frames[i] /\ n = g.n /\ id = g.id
  OBVIOUS
<1>2. /\ Goto(i, Idle) /\ UNCHANGED draws /\ g.pc \in Reading
      /\ ghost' = [ghost EXCEPT !.uses[n] = @ + 1]
  BY <1>1 DEF VerifyUpdate, ResetUpdate, Done, Is, Used, Reading
<1>3. n \in Draws /\ ghost'.overrun = ghost.overrun
  <2>1. n \in Draws
    BY <1>1, <1>2, PlaceOfFrame
  <2> QED  BY <1>2, <2>1, Typed DEF Ghost
<1>4. /\ db'.codes = db.codes /\ db'.attempts = db.attempts
      /\ DOMAIN db'.users = DOMAIN db.users
      /\ \A x \in DOMAIN db.users : x # id => db'.users[x] = db.users[x]
      /\ id \in DOMAIN db.users =>
           \/ /\ g.pc = "verify" /\ db'.users[id].verify = None
              /\ db'.users[id].reset = db.users[id].reset
           \/ /\ g.pc = "reset" /\ db'.users[id].reset = None
              /\ db'.users[id].verify = db.users[id].verify
  <2>1. CASE VerifyUpdate(i)
    <3>1. /\ db' = [db EXCEPT !.users = [x \in DOMAIN db.users |->
                 IF x = id THEN [db.users[x] EXCEPT !.verified = TRUE,
                                                    !.verify = None]
                 ELSE db.users[x]]]
          /\ g.pc = "verify"
      BY <1>1, <2>1 DEF VerifyUpdate, Update, Is
    <3>2. \A u \in User :
            LET v == [u EXCEPT !.verified = TRUE, !.verify = None]
            IN  v.verify = None /\ v.reset = u.reset
      BY DEF User
    <3> QED  BY <3>1, <3>2, UsersOnly, ZenonT(60)
  <2>2. CASE ResetUpdate(i)
    <3>1. /\ db' = [db EXCEPT !.users = [x \in DOMAIN db.users |->
                 IF x = id THEN AfterReset(db.users[x]) ELSE db.users[x]]]
          /\ g.pc = "reset"
      BY <1>1, <2>2 DEF ResetUpdate, Update, Is
    <3>2. \A u \in User : AfterReset(u).reset = None
                          /\ AfterReset(u).verify = u.verify
      BY DEF User, AfterReset
    <3> QED  BY <3>1, <3>2, UsersOnly
  <2> QED  BY <2>1, <2>2
<1>5. KeptRows
  BY <1>4 DEF KeptRows
<1>6. ASSUME NEW m \in Draws, NEW p \in Places, Holds(p, m)', Wants(i, p, m)
      PROVE  FALSE
  <2>1. m # None
    BY NoneIsNothing
  <2>2. CASE g.pc = "verify"
    <3>1. p[1] = "verify" /\ p[2] = id
      BY <1>1, <1>6, <2>2 DEF Wants, Place
    <3>2. id \in DOMAIN db'.users /\ db'.users[id].verify = m
      BY <1>6, <3>1 DEF Holds
    <3> QED  BY <1>4, <2>1, <2>2, <3>2
  <2>3. CASE g.pc = "reset"
    <3>1. p[1] = "reset" /\ p[2] = id
      BY <1>1, <1>6, <2>3 DEF Wants, Place
    <3>2. id \in DOMAIN db'.users /\ db'.users[id].reset = m
      BY <1>6, <3>1 DEF Holds
    <3> QED  BY <1>4, <2>1, <2>3, <3>2
  <2>4. CASE g.pc = "use"
    <3>1. ~VerifyUpdate(i) /\ ~ResetUpdate(i)
      BY <1>1, <2>4 DEF VerifyUpdate, ResetUpdate, Is
    <3> QED  BY <3>1
  <2> QED  BY <1>2, <2>2, <2>3, <2>4 DEF Reading
<1>7. \A m \in Draws : \A p \in Places :
        Spendable(p, m)' => Spendable(p, m) /\ ~Wants(i, p, m)
  BY <1>5, <1>6, KeptHolds DEF Spendable
<1>8. Idle.pc \notin Committing \cup Reading /\ Idle.pc = "idle"
  BY IdleFrame DEF Committing, Reading
<1>9. UseInv'
  BY <1>1, <1>2, <1>5, <1>7, <1>8, KeptHolds, UseClaims DEF CountInv
<1> QED  BY <1>2, <1>3, <1>4, <1>8, <1>9, LinkCounts

-----------------------------------------------------------------------------
(***************************************************************************)
(* Codes: read, tried, used and sent again.                                *)
(***************************************************************************)
LEMMA CodesOnly ==
  ASSUME Inv, NEW w, db' = [db EXCEPT !.codes = w]
  PROVE  /\ db'.users = db.users /\ db'.codes = w
         /\ db'.attempts = db.attempts
         /\ \A t \in DOMAIN db.codes : db.codes[t] \in Login
BY Typed DEF Tables

LEMMA UseCodeCounts ==
  ASSUME Inv, CountInv, NEW i \in Handlers, UseCode(i)  PROVE  CountInv'
<1>1. PICK g, n, t : g = frames[i] /\ n = g.n /\ t = g.token
  OBVIOUS
<1>2. /\ UNCHANGED draws /\ g.pc = "use" /\ g.pc \in Reading
      /\ ghost' = [ghost EXCEPT !.uses[n] = @ + 1]
      /\ db' = [db EXCEPT !.codes = [x \in DOMAIN db.codes |->
                  IF x = t THEN [db.codes[x] EXCEPT !.used = TRUE]
                  ELSE db.codes[x]]]
  BY <1>1 DEF UseCode, UpdateCode, Is, Used, Reading
<1>3. Goto(i, Idle) \/ Goto(i, [frames[i] EXCEPT !.pc = "trust"])
  BY DEF UseCode, Done
<1>4. Idle.pc = "idle" /\ [frames[i] EXCEPT !.pc = "trust"].pc = "trust"
  BY IdleFrame, Typed DEF Frame
<1>5. PICK f : Goto(i, f) /\ f.pc \in {"idle", "trust"}
  BY <1>3, <1>4
<1>6. f.pc \notin Committing \cup Reading \cup {"count", "wrong", "recode"}
  BY <1>5 DEF Committing, Reading
<1>7. n \in Draws /\ ghost'.overrun = ghost.overrun
  <2>1. n \in Draws
    BY <1>1, <1>2, PlaceOfFrame
  <2> QED  BY <1>2, <2>1, Typed DEF Ghost
<1>8. \A c \in Login :
        LET d == [c EXCEPT !.used = TRUE]
        IN  d.used /\ d.code = c.code /\ d.tries = c.tries /\ d.resends = c.resends
  BY DEF Login
<1>9. /\ db'.users = db.users /\ db'.attempts = db.attempts
      /\ DOMAIN db'.codes = DOMAIN db.codes
      /\ \A x \in DOMAIN db.codes :
           /\ db'.codes[x].code = db.codes[x].code
           /\ db'.codes[x].tries = db.codes[x].tries
           /\ db'.codes[x].resends = db.codes[x].resends
           /\ IF x = t THEN db'.codes[x].used
              ELSE db'.codes[x].used = db.codes[x].used
  BY <1>2, <1>8, CodesOnly
<1>10. KeptRows /\ KeptTries
  BY <1>9 DEF KeptRows, KeptTries
<1>11. ASSUME NEW m \in Draws, NEW p \in Places, Spendable(p, m)',
              Wants(i, p, m)
       PROVE  FALSE
  <2>1. p[1] = "code" /\ p[2] = t
    BY <1>1, <1>2, <1>11 DEF Wants, Place
  <2>2. t \in DOMAIN db'.codes /\ ~db'.codes[t].used
    BY <1>11, <2>1 DEF Spendable, Holds
  <2> QED  BY <1>9, <2>2
<1>12. UseInv'
  BY <1>1, <1>2, <1>5, <1>6, <1>10, <1>11, KeptHolds, UseClaims DEF CountInv
<1>13. LockInv' /\ TriesInv'
  BY <1>5, <1>6, <1>7, <1>9, <1>10, LockKept, TriesKept DEF CountInv
<1> QED  BY <1>12, <1>13 DEF CountInv

LEMMA WrongCodeCounts ==
  ASSUME Inv, CountInv, NEW i \in Handlers, WrongCode(i)  PROVE  CountInv'
<1>1. PICK t : t = frames[i].token
  OBVIOUS
<1>2. /\ UNCHANGED <<draws, ghost>> /\ frames[i].pc = "wrong" /\ Goto(i, Idle)
      /\ db' = [db EXCEPT !.codes = [x \in DOMAIN db.codes |->
                  IF x = t THEN [db.codes[x] EXCEPT !.tries = @ + 1]
                  ELSE db.codes[x]]]
  BY <1>1 DEF WrongCode, UpdateCode, Is, Done
<1>3. \A c \in Login :
        LET d == [c EXCEPT !.tries = @ + 1]
        IN  /\ d.used = c.used /\ d.code = c.code /\ d.tries = c.tries + 1
            /\ d.resends = c.resends
  BY DEF Login
<1>4. /\ db'.users = db.users /\ db'.attempts = db.attempts
      /\ DOMAIN db'.codes = DOMAIN db.codes
      /\ \A x \in DOMAIN db.codes :
           /\ db'.codes[x].code = db.codes[x].code
           /\ db'.codes[x].used = db.codes[x].used
           /\ db'.codes[x].resends = db.codes[x].resends
           /\ db'.codes[x].tries = IF x = t THEN db.codes[x].tries + 1
                                   ELSE db.codes[x].tries
  BY <1>2, <1>3, CodesOnly
<1>5. KeptRows
  BY <1>4 DEF KeptRows
<1>6. Idle.pc \notin Committing \cup Reading \cup {"count", "wrong", "recode"}
  BY IdleFrame DEF Committing, Reading
<1>7. UseInv'
  BY <1>2, <1>5, <1>6, DrawsGrow, KeptHolds, ReadClaims DEF CountInv
<1>8. LockInv'
  BY <1>2, <1>4, <1>6, LockKept DEF CountInv
<1>9. TriesInv'
  <2> SUFFICES ASSUME NEW x \in DOMAIN db.codes
               PROVE  /\ db'.codes[x].tries + Cardinality(On("wrong", x)') <
                           CodeTries + Cardinality(Handlers)
                      /\ db'.codes[x].resends + Cardinality(On("recode", x)') <
                           CodeResends + Cardinality(Handlers)
    BY <1>4 DEF TriesInv
  <2>1. db.codes[x].tries \in Nat /\ db.codes[x].resends \in Nat
    BY CodeFacts DEF Login
  <2>2. /\ db.codes[x].tries + Cardinality(On("wrong", x)) <
             CodeTries + Cardinality(Handlers)
        /\ db.codes[x].resends + Cardinality(On("recode", x)) <
             CodeResends + Cardinality(Handlers)
    BY DEF CountInv, TriesInv
  <2>3. /\ Cardinality(On("wrong", x)) \in Nat
        /\ Cardinality(On("wrong", x)') \in Nat
        /\ Cardinality(On("wrong", x)') <= Cardinality(On("wrong", x))
    BY <1>2, <1>6, OnFewer
  <2>4. /\ Cardinality(On("recode", x)) \in Nat
        /\ Cardinality(On("recode", x)') \in Nat
        /\ Cardinality(On("recode", x)') <= Cardinality(On("recode", x))
    BY <1>2, <1>6, OnFewer
  <2>5. x = t => Cardinality(On("wrong", x)') + 1 <= Cardinality(On("wrong", x))
    <3> SUFFICES ASSUME x = t
                 PROVE  Cardinality(On("wrong", x)') + 1 <=
                          Cardinality(On("wrong", x))
      OBVIOUS
    <3>1. /\ On("wrong", x) \in SUBSET Handlers /\ i \in On("wrong", x)
          /\ On("wrong", x)' \in SUBSET On("wrong", x) \ {i}
      BY <1>1, <1>2, <1>6, Moved DEF On
    <3> QED  BY <3>1, OneLess
  <2> QED  BY <1>4, <2>1, <2>2, <2>3, <2>4, <2>5, HandlersFinite, Limits
<1> QED  BY <1>7, <1>8, <1>9 DEF CountInv

\* A handler that has read a row below its limit.
LEMMA JoinTries ==
  ASSUME Inv, TriesInv, NEW i \in Handlers, NEW f, Goto(i, f), KeptTries,
         NEW t \in DOMAIN db.codes, f.token = t,
         f.pc = "wrong" => db.codes[t].tries < CodeTries,
         f.pc = "recode" => db.codes[t].resends < CodeResends
  PROVE  TriesInv'
<1> SUFFICES ASSUME NEW x \in DOMAIN db'.codes
             PROVE  /\ db'.codes[x].tries + Cardinality(On("wrong", x)') <
                         CodeTries + Cardinality(Handlers)
                    /\ db'.codes[x].resends + Cardinality(On("recode", x)') <
                         CodeResends + Cardinality(Handlers)
  BY DEF TriesInv
<1>1. x \in DOMAIN db.codes /\ db'.codes[x].tries = db.codes[x].tries
      /\ db'.codes[x].resends = db.codes[x].resends
  BY DEF KeptTries
<1>2. db.codes[x].tries \in Nat /\ db.codes[x].resends \in Nat
  BY <1>1, CodeFacts DEF Login
<1>3. /\ db.codes[x].tries + Cardinality(On("wrong", x)) <
           CodeTries + Cardinality(Handlers)
      /\ db.codes[x].resends + Cardinality(On("recode", x)) <
           CodeResends + Cardinality(Handlers)
  BY <1>1 DEF TriesInv
<1>4. \A pc : On(pc, x)' \in SUBSET Handlers /\ On(pc, x) \in SUBSET Handlers
  BY DEF On
<1>5. ASSUME NEW pc, ~(f.pc = pc /\ x = t)
      PROVE  Cardinality(On(pc, x)') <= Cardinality(On(pc, x))
  <2>1. On(pc, x)' \in SUBSET On(pc, x)
    BY <1>5, Moved DEF On
  <2> QED  BY <1>4, <2>1, Fewer
<1>6. db'.codes[x].tries + Cardinality(On("wrong", x)') <
        CodeTries + Cardinality(Handlers)
  <2>1. /\ Cardinality(On("wrong", x)) \in Nat
        /\ Cardinality(On("wrong", x)') \in Nat
        /\ Cardinality(On("wrong", x)') <= Cardinality(Handlers)
    BY <1>4, HandlersFinite
  <2>2. CASE f.pc = "wrong" /\ x = t
    BY <1>1, <1>2, <2>1, <2>2, HandlersFinite, Limits
  <2>3. CASE ~(f.pc = "wrong" /\ x = t)
    <3>1. Cardinality(On("wrong", x)') <= Cardinality(On("wrong", x))
      BY <1>5, <2>3
    <3> QED  BY <1>1, <1>2, <1>3, <2>1, <3>1, HandlersFinite, Limits
  <2> QED  BY <2>2, <2>3
<1>7. db'.codes[x].resends + Cardinality(On("recode", x)') <
        CodeResends + Cardinality(Handlers)
  <2>1. /\ Cardinality(On("recode", x)) \in Nat
        /\ Cardinality(On("recode", x)') \in Nat
        /\ Cardinality(On("recode", x)') <= Cardinality(Handlers)
    BY <1>4, HandlersFinite
  <2>2. CASE f.pc = "recode" /\ x = t
    BY <1>1, <1>2, <2>1, <2>2, HandlersFinite, Limits
  <2>3. CASE ~(f.pc = "recode" /\ x = t)
    <3>1. Cardinality(On("recode", x)') <= Cardinality(On("recode", x))
      BY <1>5, <2>3
    <3> QED  BY <1>1, <1>2, <1>3, <2>1, <3>1, HandlersFinite, Limits
  <2> QED  BY <2>2, <2>3
<1> QED  BY <1>6, <1>7

LEMMA VerifyLoginCounts ==
  ASSUME Inv, CountInv, NEW i \in Handlers, VerifyLogin(i)  PROVE  CountInv'
<1>1. PICK t \in DOMAIN db.codes, device \in Devices \cup {None},
           pc \in {"wrong", "use"} :
        /\ Alive(db.codes[t])
        /\ Goto(i, [At(pc, db.codes[t].user, db.codes[t].code)
                      EXCEPT !.token = t, !.device = device])
  BY DEF VerifyLogin
<1>2. UNCHANGED <<db, ghost, draws>> /\ draws' \in Nat /\ draws <= draws'
  BY DrawsGrow DEF VerifyLogin
<1> DEFINE f == [At(pc, db.codes[t].user, db.codes[t].code)
                   EXCEPT !.token = t, !.device = device]
           p == <<"code", t>>
<1>3. f.pc = pc /\ f.n = db.codes[t].code /\ f.token = t
  BY DEF At, Idle
<1>4. Goto(i, f)
  BY <1>1
<1>5. p \in Places /\ p[1] = "code" /\ p[2] = t
  BY CodeFacts DEF Places
<1>6. f.pc = "use" => Place(f, p)
  BY <1>3 DEF Place
<1> HIDE DEF f, p
<1>7. Spendable(p, f.n) /\ f.n \in Draws
  BY <1>1, <1>3, <1>5, CodeFacts DEF Spendable, Holds, Alive
<1>8. KeptRows /\ KeptTries /\ db'.attempts = db.attempts
  BY <1>2, SameDb
<1>9. /\ f.pc \notin Committing /\ f.pc # "count"
      /\ (f.pc \in Reading => f.pc = "use")
  BY <1>3 DEF Committing, Reading
<1>10. UseInv'
  <2>1. f.pc \in Reading => /\ f.n \in Draws
                            /\ \E q \in Places : Place(f, q) /\ Spendable(q, f.n)
    BY <1>5, <1>6, <1>7, <1>9
  <2>2. /\ \A n \in Draws : \A q \in Places : Holds(q, n)' => Holds(q, n)
        /\ \A n \in Draws : \A q \in Places :
             Spendable(q, n)' => Spendable(q, n)
    BY <1>8, KeptHolds
  <2> QED  BY <1>2, <1>4, <1>9, <2>1, <2>2, ReadClaims DEF CountInv
<1>11. LockInv'
  BY <1>2, <1>4, <1>8, <1>9, LockKept DEF CountInv
<1>12. TriesInv'
  <2>1. f.pc = "wrong" => db.codes[t].tries < CodeTries
    BY <1>1 DEF Alive
  <2>2. f.pc # "recode"
    BY <1>3
  <2> QED  BY <1>3, <1>4, <1>8, <2>1, <2>2, JoinTries DEF CountInv
<1> QED  BY <1>10, <1>11, <1>12 DEF CountInv

LEMMA ResendCodeCounts ==
  ASSUME Inv, CountInv, NEW i \in Handlers, ResendCode(i)  PROVE  CountInv'
<1>1. PICK t \in DOMAIN db.codes :
        /\ db.codes[t].resends < CodeResends
        /\ Goto(i, [At("recode", db.codes[t].user, None) EXCEPT !.token = t])
  BY DEF ResendCode
<1>2. UNCHANGED <<db, ghost, draws>> /\ draws' \in Nat /\ draws <= draws'
  BY DrawsGrow DEF ResendCode
<1> DEFINE f == [At("recode", db.codes[t].user, None) EXCEPT !.token = t]
<1>3. f.pc = "recode" /\ f.token = t
  BY DEF At, Idle
<1>4. Goto(i, f)
  BY <1>1
<1> HIDE DEF f
<1>5. KeptRows /\ KeptTries /\ db'.attempts = db.attempts
  BY <1>2, SameDb
<1>6. f.pc \notin Committing /\ f.pc \notin Reading /\ f.pc # "count"
  BY <1>3 DEF Committing, Reading
<1>7. UseInv'
  BY <1>2, <1>4, <1>5, <1>6, KeptHolds, ReadClaims DEF CountInv
<1>8. LockInv'
  BY <1>2, <1>4, <1>5, <1>6, LockKept DEF CountInv
<1>9. TriesInv'
  <2>1. f.pc # "wrong"
    BY <1>3
  <2> QED  BY <1>1, <1>3, <1>4, <1>5, <2>1, JoinTries DEF CountInv
<1> QED  BY <1>7, <1>8, <1>9 DEF CountInv

\* A new code is stored in row t.
LEMMA StoreHolds ==
  ASSUME NEW t, NEW n, db'.users = db.users,
         \A x \in DOMAIN db'.codes : x # t => /\ x \in DOMAIN db.codes
                                              /\ db'.codes[x].code = db.codes[x].code
                                              /\ db'.codes[x].used = db.codes[x].used,
         t \in DOMAIN db'.codes => db'.codes[t].code = n
  PROVE  /\ \A m \in Draws : \A p \in Places :
              Holds(p, m)' => Holds(p, m) \/ (m = n /\ p = <<"code", t>>)
         /\ \A m \in Draws : \A p \in Places :
              Spendable(p, m)' => Spendable(p, m) \/ m = n
<1> SUFFICES ASSUME NEW m \in Draws, NEW p \in Places, Holds(p, m)'
             PROVE  /\ Holds(p, m) \/ (m = n /\ p = <<"code", t>>)
                    /\ Spendable(p, m)' => Spendable(p, m) \/ m = n
  BY DEF Spendable
<1>1. CASE p[1] \in {"verify", "reset"}
  BY <1>1 DEF Holds, Spendable
<1>2. CASE p[1] = "code" /\ p[2] # t
  BY <1>2 DEF Holds, Spendable
<1>3. CASE p[1] = "code" /\ p[2] = t
  <2>1. p = <<"code", t>>
    BY <1>3 DEF Places
  <2>2. m = n
    BY <1>3 DEF Holds
  <2> QED  BY <2>1, <2>2
<1> QED  BY <1>1, <1>2, <1>3 DEF Holds

LEMMA LoginCodeCounts ==
  ASSUME Inv, CountInv, NEW i \in Handlers, LoginCode(i)  PROVE  CountInv'
<1>1. Draw /\ UNCHANGED ghost /\ draws' \in Nat /\ draws <= draws'
  BY DrawsGrow DEF LoginCode
<1>2. CASE frames[i].id \notin DOMAIN db.users
  <2>1. Goto(i, Idle) /\ UNCHANGED db
    BY <1>2 DEF LoginCode, Done
  <2>2. Idle.pc \in Quiet
    BY QuietAt
  <2> QED  BY <1>1, <2>1, <2>2, StillCounts
<1>3. CASE frames[i].id \in DOMAIN db.users
  <2>1. PICK n : n = draws'
    OBVIOUS
  <2> DEFINE row == [user |-> frames[i].id, code |-> n, expired |-> FALSE,
                     used |-> FALSE, tries |-> 0, resends |-> 0]
             w == [x \in DOMAIN db.codes \cup {n} |->
                     IF x = n THEN row ELSE db.codes[x]]
             f == At("send", frames[i].id, n)
  <2>2. db' = [db EXCEPT !.codes = w] /\ Goto(i, f)
    BY <1>3, <2>1 DEF LoginCode, Insert
  <2>3. f.pc = "send"
    BY DEF At, Idle
  <2>4. w[n] = row /\ \A x \in DOMAIN w : x # n => /\ x \in DOMAIN db.codes
                                                   /\ w[x] = db.codes[x]
    OBVIOUS
  <2>5. row.code = n /\ row.tries = 0 /\ row.resends = 0
    OBVIOUS
  <2> HIDE DEF w, row, f
  <2>6. db'.users = db.users /\ db'.codes = w /\ db'.attempts = db.attempts
    BY <2>2, CodesOnly
  <2>7. f.pc \notin Committing \cup Reading \cup {"count", "wrong", "recode"}
    BY <2>3 DEF Committing, Reading
  <2>8. UseInv'
    BY <1>1, <2>1, <2>2, <2>4, <2>5, <2>6, <2>7, StoreHolds, StoreClaims
       DEF CountInv
  <2>9. LockInv'
    BY <1>1, <2>2, <2>6, <2>7, LockKept DEF CountInv
  <2>10. TriesInv'
    <3> SUFFICES ASSUME NEW x \in DOMAIN w
                 PROVE  /\ w[x].tries + Cardinality(On("wrong", x)') <
                             CodeTries + Cardinality(Handlers)
                        /\ w[x].resends + Cardinality(On("recode", x)') <
                             CodeResends + Cardinality(Handlers)
      BY <2>6 DEF TriesInv
    <3>1. /\ Cardinality(On("wrong", x)) \in Nat
          /\ Cardinality(On("wrong", x)') \in Nat
          /\ Cardinality(On("wrong", x)') <= Cardinality(On("wrong", x))
      BY <2>2, <2>7, OnFewer
    <3>2. /\ Cardinality(On("recode", x)) \in Nat
          /\ Cardinality(On("recode", x)') \in Nat
          /\ Cardinality(On("recode", x)') <= Cardinality(On("recode", x))
      BY <2>2, <2>7, OnFewer
    <3>3. CASE x = n
      <4>1. On("wrong", x)' \in SUBSET Handlers /\ On("recode", x)' \in SUBSET Handlers
        BY DEF On
      <4> QED  BY <2>4, <2>5, <3>1, <3>2, <3>3, <4>1, HandlersFinite, Limits
    <3>4. CASE x # n
      <4>1. x \in DOMAIN db.codes /\ w[x] = db.codes[x]
        BY <2>4, <3>4
      <4>2. db.codes[x].tries \in Nat /\ db.codes[x].resends \in Nat
        BY <4>1, CodeFacts DEF Login
      <4>3. /\ db.codes[x].tries + Cardinality(On("wrong", x)) <
                 CodeTries + Cardinality(Handlers)
            /\ db.codes[x].resends + Cardinality(On("recode", x)) <
                 CodeResends + Cardinality(Handlers)
        BY <4>1 DEF CountInv, TriesInv
      <4> QED  BY <3>1, <3>2, <4>1, <4>2, <4>3, HandlersFinite, Limits
    <3> QED  BY <3>3, <3>4
  <2> QED  BY <2>8, <2>9, <2>10 DEF CountInv
<1> QED  BY <1>2, <1>3

LEMMA RecodeUpdateCounts ==
  ASSUME Inv, CountInv, NEW i \in Handlers, RecodeUpdate(i)  PROVE  CountInv'
<1>1. PICK n, t, id : n = draws' /\ t = frames[i].token /\ id = frames[i].id
  OBVIOUS
<1> DEFINE f == At("send", id, n)
<1>2. /\ Draw /\ UNCHANGED ghost /\ frames[i].pc = "recode" /\ Goto(i, f)
      /\ db' = [db EXCEPT !.codes = [x \in DOMAIN db.codes |->
                  IF x = t THEN Recoded(db.codes[x], n) ELSE db.codes[x]]]
  BY <1>1 DEF RecodeUpdate, UpdateCode, Is, ToSend
<1>3. \A c \in Login :
        LET d == Recoded(c, n)
        IN  /\ d.used = c.used /\ d.code = n /\ d.tries = c.tries
            /\ d.resends = c.resends + 1
  BY DEF Login, Recoded
<1>4. /\ db'.users = db.users /\ db'.attempts = db.attempts
      /\ DOMAIN db'.codes = DOMAIN db.codes
      /\ \A x \in DOMAIN db.codes :
           /\ IF x = t THEN db'.codes[x].code = n
              ELSE db'.codes[x].code = db.codes[x].code
           /\ db'.codes[x].used = db.codes[x].used
           /\ db'.codes[x].tries = db.codes[x].tries
           /\ db'.codes[x].resends = IF x = t THEN db.codes[x].resends + 1
                                     ELSE db.codes[x].resends
  BY <1>2, <1>3, CodesOnly
<1>5. f.pc = "send"
  BY DEF At, Idle
<1> HIDE DEF f
<1>6. f.pc \notin Committing \cup Reading \cup {"count", "wrong", "recode"}
  BY <1>5 DEF Committing, Reading
<1>7. UseInv'
  <2>1. /\ \A m \in Draws : \A p \in Places :
             Holds(p, m)' => Holds(p, m) \/ (m = n /\ p = <<"code", t>>)
        /\ \A m \in Draws : \A p \in Places :
             Spendable(p, m)' => Spendable(p, m) \/ m = n
    BY <1>4, StoreHolds
  <2> QED  BY <1>1, <1>2, <1>6, <2>1, StoreClaims DEF CountInv
<1>8. LockInv'
  BY <1>2, <1>4, <1>6, LockKept DEF CountInv
<1>9. TriesInv'
  <2> SUFFICES ASSUME NEW x \in DOMAIN db.codes
               PROVE  /\ db'.codes[x].tries + Cardinality(On("wrong", x)') <
                           CodeTries + Cardinality(Handlers)
                      /\ db'.codes[x].resends + Cardinality(On("recode", x)') <
                           CodeResends + Cardinality(Handlers)
    BY <1>4 DEF TriesInv
  <2>1. db.codes[x].tries \in Nat /\ db.codes[x].resends \in Nat
    BY CodeFacts DEF Login
  <2>2. /\ db.codes[x].tries + Cardinality(On("wrong", x)) <
             CodeTries + Cardinality(Handlers)
        /\ db.codes[x].resends + Cardinality(On("recode", x)) <
             CodeResends + Cardinality(Handlers)
    BY DEF CountInv, TriesInv
  <2>3. /\ Cardinality(On("wrong", x)) \in Nat
        /\ Cardinality(On("wrong", x)') \in Nat
        /\ Cardinality(On("wrong", x)') <= Cardinality(On("wrong", x))
    BY <1>2, <1>6, OnFewer
  <2>4. /\ Cardinality(On("recode", x)) \in Nat
        /\ Cardinality(On("recode", x)') \in Nat
        /\ Cardinality(On("recode", x)') <= Cardinality(On("recode", x))
    BY <1>2, <1>6, OnFewer
  <2>5. x = t => Cardinality(On("recode", x)') + 1 <= Cardinality(On("recode", x))
    <3> SUFFICES ASSUME x = t
                 PROVE  Cardinality(On("recode", x)') + 1 <=
                          Cardinality(On("recode", x))
      OBVIOUS
    <3>1. /\ On("recode", x) \in SUBSET Handlers /\ i \in On("recode", x)
          /\ On("recode", x)' \in SUBSET On("recode", x) \ {i}
      BY <1>1, <1>2, <1>6, Moved DEF On
    <3> QED  BY <3>1, OneLess
  <2> QED  BY <1>4, <2>1, <2>2, <2>3, <2>4, <2>5, HandlersFinite, Limits
<1> QED  BY <1>7, <1>8, <1>9 DEF CountInv

-----------------------------------------------------------------------------
(***************************************************************************)
(* Failures counted and cleared.                                           *)
(***************************************************************************)
LEMMA AttemptsOnly ==
  ASSUME Inv, NEW k \in Keys, NEW row, db' = [db EXCEPT !.attempts[k] = row]
  PROVE  /\ db'.users = db.users /\ db'.codes = db.codes
         /\ db'.attempts[k] = row
         /\ \A j \in Keys \ {k} : db'.attempts[j] = db.attempts[j]
BY Typed DEF Tables

LEMMA OverrunOnly ==
  ASSUME Inv, NEW k \in Keys, NEW m, ghost' = [ghost EXCEPT !.overrun[k] = m]
  PROVE  /\ ghost'.uses = ghost.uses /\ ghost'.overrun[k] = m
         /\ \A j \in Keys \ {k} : ghost'.overrun[j] = ghost.overrun[j]
BY Typed DEF Ghost

\* The row of one account changes; its lock is argued for on its own.
LEMMA RowCounts ==
  ASSUME Inv, CountInv, NEW i \in Handlers, NEW f, Goto(i, f), f.pc \in Quiet,
         UNCHANGED draws, NEW k \in Keys, NEW row, NEW m,
         db' = [db EXCEPT !.attempts[k] = row],
         ghost' = [ghost EXCEPT !.overrun[k] = m],
         LimitReached(row.n) => row.lock # "none",
         row.lock = "on" =>
           m + Cardinality(Counting(k)') < Cardinality(Handlers)
  PROVE  CountInv'
<1>1. /\ db'.users = db.users /\ db'.codes = db.codes
      /\ db'.attempts[k] = row
      /\ \A j \in Keys \ {k} : db'.attempts[j] = db.attempts[j]
  BY AttemptsOnly
<1>2. /\ ghost'.uses = ghost.uses /\ ghost'.overrun[k] = m
      /\ \A j \in Keys \ {k} : ghost'.overrun[j] = ghost.overrun[j]
  BY OverrunOnly
<1>3. KeptRows /\ KeptTries
  BY <1>1 DEF KeptRows, KeptTries
<1>4. f.pc \notin Committing \cup Reading \cup {"count", "wrong", "recode"}
  BY DEF Quiet
<1>5. UseInv'
  <2>1. /\ \A n \in Draws : \A q \in Places : Holds(q, n)' => Holds(q, n)
        /\ \A n \in Draws : \A q \in Places :
             Spendable(q, n)' => Spendable(q, n)
    BY <1>3, KeptHolds
  <2>2. draws' \in Nat /\ draws <= draws'
    BY DrawsGrow
  <2> QED  BY <1>2, <1>4, <2>1, <2>2, ReadClaims DEF CountInv
<1>6. TriesInv'
  BY <1>3, <1>4, TriesKept DEF CountInv
<1>7. LockInv'
  <2> SUFFICES ASSUME NEW j \in Keys
               PROVE  /\ LimitReached(db'.attempts[j].n) =>
                           db'.attempts[j].lock # "none"
                      /\ db'.attempts[j].lock = "on" =>
                           ghost'.overrun[j] + Cardinality(Counting(j)') <
                             Cardinality(Handlers)
    BY DEF LockInv, LimitReached
  <2>1. CASE j = k
    BY <1>1, <1>2, <2>1
  <2>2. CASE j # k
    <3>1. /\ LimitReached(db.attempts[j].n) =>
               db.attempts[j].lock # "none"
          /\ db.attempts[j].lock = "on" =>
               ghost.overrun[j] + Cardinality(Counting(j)) <
                 Cardinality(Handlers)
      BY DEF CountInv, LockInv
    <3>2. Counting(j)' \in SUBSET Counting(j) /\ Counting(j) \in SUBSET Handlers
      BY <1>4, Moved DEF Counting
    <3>3. /\ Cardinality(Counting(j)') \in Nat
          /\ Cardinality(Counting(j)) \in Nat
          /\ Cardinality(Counting(j)') <= Cardinality(Counting(j))
      BY <3>2, Fewer, HandlersFinite
    <3>4. ghost.overrun[j] \in Nat
      BY Typed DEF Ghost
    <3>5. ghost'.overrun[j] = ghost.overrun[j]
      BY <1>2, <2>2
    <3>6. db'.attempts[j] = db.attempts[j]
      BY <1>1, <2>2
    <3>7. db.attempts[j].lock = "on" =>
            ghost.overrun[j] + Cardinality(Counting(j)') < Cardinality(Handlers)
      BY <3>1, <3>3, <3>4, HandlersFinite
    <3> QED  BY <3>1, <3>5, <3>6, <3>7
  <2> QED  BY <2>1, <2>2
<1> QED  BY <1>5, <1>6, <1>7 DEF CountInv

LEMMA LoginCountCounts ==
  ASSUME Inv, CountInv, NEW i \in Handlers, LoginCount(i)  PROVE  CountInv'
<1>1. PICK k, m, n :
        /\ k = frames[i].id /\ n = db.attempts[k].n + 1
        /\ m = IF db.attempts[k].lock = "on" THEN ghost.overrun[k] + 1 ELSE 0
  OBVIOUS
<1>2. k \in Keys /\ db.attempts[k].n \in Nat /\ ghost.overrun[k] \in Nat
  BY <1>1, Typed DEF Frame, Tables, Ghost
<1> DEFINE row == [n |-> n, lock |-> IF /\ db.attempts[k].n > 0
                                        /\ n >= LoginMaxAttempts THEN "on"
                                     ELSE db.attempts[k].lock]
<1>3. /\ frames[i].pc = "count" /\ Goto(i, Idle) /\ UNCHANGED draws
      /\ db' = [db EXCEPT !.attempts[k] = row]
  BY <1>1 DEF LoginCount, Is, Done
<1>4. ghost' = [ghost EXCEPT !.overrun[k] = m]
  <2>1. ghost' = [ghost EXCEPT !.overrun[k] =
                    IF db.attempts[k].lock = "on" THEN @ + 1 ELSE 0]
    BY <1>1 DEF LoginCount
  <2> QED  BY <1>1, <2>1
<1>5. row.n = n /\ row.lock = IF db.attempts[k].n > 0 /\ n >= LoginMaxAttempts
                              THEN "on" ELSE db.attempts[k].lock
  OBVIOUS
<1> HIDE DEF row
<1>6. LimitReached(row.n) => row.lock # "none"
  BY <1>1, <1>2, <1>5 DEF LimitReached
<1>7. row.lock = "on" => m + Cardinality(Counting(k)') < Cardinality(Handlers)
  <2>1. /\ Counting(k) \in SUBSET Handlers /\ i \in Counting(k)
        /\ Counting(k)' \in SUBSET Counting(k) \ {i}
    <3>1. Idle.pc # "count"
      BY IdleFrame
    <3> QED  BY <1>1, <1>3, <3>1, Moved DEF Counting
  <2>2. /\ Cardinality(Counting(k)') \in Nat
        /\ Cardinality(Counting(k)) \in Nat
        /\ Cardinality(Counting(k)') + 1 <= Cardinality(Counting(k))
        /\ Cardinality(Counting(k)) <= Cardinality(Handlers)
    BY <2>1, OneLess, HandlersFinite
  <2>3. CASE db.attempts[k].lock = "on"
    <3>1. ghost.overrun[k] + Cardinality(Counting(k)) < Cardinality(Handlers)
      BY <1>2, <2>3 DEF CountInv, LockInv
    <3>2. m = ghost.overrun[k] + 1
      BY <1>1, <2>3
    <3> QED  BY <1>2, <2>2, <3>1, <3>2, HandlersFinite
  <2>4. CASE db.attempts[k].lock # "on"
    <3>1. m = 0
      BY <1>1, <2>4
    <3> QED  BY <2>2, <3>1, HandlersFinite
  <2> QED  BY <2>3, <2>4
<1>8. Idle.pc \in Quiet
  BY QuietAt
<1> QED  BY <1>2, <1>3, <1>4, <1>6, <1>7, <1>8, RowCounts

LEMMA LoginClearCounts ==
  ASSUME Inv, CountInv, NEW i \in Handlers, LoginClear(i)  PROVE  CountInv'
<1>1. PICK k : k = frames[i].id
  OBVIOUS
<1> DEFINE row == [n |-> 0, lock |-> "none"]
<1>2. /\ UNCHANGED draws /\ k \in Keys
      /\ db' = [db EXCEPT !.attempts[k] = row]
      /\ ghost' = [ghost EXCEPT !.overrun[k] = 0]
  BY <1>1, Typed DEF LoginClear, Frame
<1>3. row.n = 0 /\ row.lock = "none" /\ ~LimitReached(row.n)
  BY DEF LimitReached
<1> HIDE DEF row
<1>4. Goto(i, Idle) \/ Goto(i, [frames[i] EXCEPT !.pc = "device"])
  BY DEF LoginClear, Done
<1>5. Idle.pc = "idle" /\ [frames[i] EXCEPT !.pc = "device"].pc = "device"
  BY IdleFrame, Typed DEF Frame
<1>6. PICK f : Goto(i, f) /\ f.pc \in Quiet
  BY <1>4, <1>5, QuietPcs
<1> QED  BY <1>2, <1>3, <1>6, RowCounts

-----------------------------------------------------------------------------
(***************************************************************************)
(* Admins and time.                                                        *)
(***************************************************************************)
\* Accounts go, or lose a link.
LEMMA UsersStay ==
  ASSUME Inv, CountInv, NEW w, db' = [db EXCEPT !.users = w],
         \A id \in DOMAIN w :
           /\ id \in DOMAIN db.users
           /\ w[id].verify \in {None, db.users[id].verify}
           /\ w[id].reset = db.users[id].reset,
         UNCHANGED <<frames, draws>>, ghost'.uses = ghost.uses,
         ghost'.overrun = ghost.overrun
  PROVE  CountInv'
<1>1. db'.users = w /\ db'.codes = db.codes /\ db'.attempts = db.attempts
  BY UsersOnly
<1>2. KeptRows /\ KeptTries
  BY <1>1 DEF KeptRows, KeptTries
<1> QED  BY <1>1, <1>2, BesideCounts

LEMMA PatchVerificationCounts ==
  ASSUME Inv, CountInv, NEW id, NEW mark, PatchVerification(id, mark)
  PROVE  CountInv'
<1>1. PICK w : w = [x \in DOMAIN db.users |->
                      IF x = id THEN [db.users[x] EXCEPT !.verified = mark,
                                                         !.verify = None]
                      ELSE db.users[x]]
  OBVIOUS
<1>2. db' = [db EXCEPT !.users = w] /\ UNCHANGED <<frames, draws>>
  BY <1>1 DEF PatchVerification, Update
<1>3. ghost'.uses = ghost.uses /\ ghost'.overrun = ghost.overrun
  BY Typed DEF PatchVerification, Ghost
<1>4. \A u \in User :
        LET v == [u EXCEPT !.verified = mark, !.verify = None]
        IN  v.verify = None /\ v.reset = u.reset
  BY DEF User
<1>5. \A x \in DOMAIN w : /\ x \in DOMAIN db.users
                          /\ w[x].verify \in {None, db.users[x].verify}
                          /\ w[x].reset = db.users[x].reset
  BY <1>1, <1>4, Typed DEF Tables
<1> QED  BY <1>2, <1>3, <1>5, UsersStay

LEMMA ExpireLinkCounts ==
  ASSUME Inv, CountInv, NEW id, ExpireLink(id)  PROVE  CountInv'
<1>1. PICK w : w = [db.users EXCEPT ![id].expired = TRUE]
  OBVIOUS
<1>2. /\ db' = [db EXCEPT !.users = w] /\ UNCHANGED <<frames, draws, ghost>>
  BY <1>1, Typed DEF ExpireLink, Tables
<1>3. \A x \in DOMAIN w : /\ x \in DOMAIN db.users
                          /\ w[x].verify \in {None, db.users[x].verify}
                          /\ w[x].reset = db.users[x].reset
  <2>1. \A u \in User : LET v == [u EXCEPT !.expired = TRUE]
                        IN  v.verify = u.verify /\ v.reset = u.reset
    BY DEF User
  <2> QED  BY <1>1, <2>1, Typed DEF Tables
<1> QED  BY <1>2, <1>3, UsersStay

LEMMA AdminProfileCounts ==
  ASSUME Inv, CountInv, NEW id, AdminProfile(id)  PROVE  CountInv'
<1>1. /\ UNCHANGED <<frames, draws, ghost>> /\ db'.users = db.users
      /\ db'.codes = db.codes /\ db'.attempts = db.attempts
  BY Typed DEF AdminProfile, Tables
<1>2. KeptRows /\ KeptTries
  BY <1>1 DEF KeptRows, KeptTries
<1> QED  BY <1>1, <1>2, BesideCounts

LEMMA DeleteCounts ==
  ASSUME Inv, CountInv, NEW id, Delete(id)  PROVE  CountInv'
<1>1. /\ UNCHANGED <<frames, draws, ghost>>
      /\ db'.users = Restrict(db.users, DOMAIN db.users \ {id})
      /\ db'.codes = Restrict(db.codes, {t \in DOMAIN db.codes :
                                           db.codes[t].user # id})
      /\ db'.attempts = db.attempts
  BY Typed DEF Delete, Tables
<1>2. KeptRows /\ KeptTries
  BY <1>1 DEF KeptRows, KeptTries, Restrict
<1> QED  BY <1>1, <1>2, BesideCounts

LEMMA ExpireCodeCounts ==
  ASSUME Inv, CountInv, NEW t, ExpireCode(t)  PROVE  CountInv'
<1>1. PICK w : w = [db.codes EXCEPT ![t].expired = TRUE]
  OBVIOUS
<1>2. db' = [db EXCEPT !.codes = w] /\ UNCHANGED <<frames, draws, ghost>>
  BY <1>1, Typed DEF ExpireCode, Tables
<1>3. db'.users = db.users /\ db'.codes = w /\ db'.attempts = db.attempts
  BY <1>2, CodesOnly
<1>4. \A c \in Login : LET d == [c EXCEPT !.expired = TRUE]
                       IN  /\ d.code = c.code /\ d.used = c.used
                           /\ d.tries = c.tries /\ d.resends = c.resends
  BY DEF Login
<1>5. \A x \in DOMAIN w : /\ x \in DOMAIN db.codes
                          /\ w[x].code = db.codes[x].code
                          /\ w[x].used = db.codes[x].used
                          /\ w[x].tries = db.codes[x].tries
                          /\ w[x].resends = db.codes[x].resends
  BY <1>1, <1>4, CodeFacts
<1>6. KeptRows /\ KeptTries
  BY <1>3, <1>5 DEF KeptRows, KeptTries
<1> QED  BY <1>2, <1>3, <1>6, BesideCounts

LEMMA UnlockCounts ==
  ASSUME Inv, CountInv, NEW k \in Keys, Unlock(k)  PROVE  CountInv'
<1>1. PICK row : row = [db.attempts[k] EXCEPT !.lock = "past"]
  OBVIOUS
<1>2. db' = [db EXCEPT !.attempts[k] = row] /\ UNCHANGED <<frames, draws, ghost>>
  BY <1>1, Typed DEF Unlock, Tables
<1>3. row.n = db.attempts[k].n /\ row.lock = "past"
  BY <1>1, Typed DEF Tables
<1>4. /\ db'.users = db.users /\ db'.codes = db.codes
      /\ db'.attempts[k] = row
      /\ \A j \in Keys \ {k} : db'.attempts[j] = db.attempts[j]
  BY <1>2, AttemptsOnly
<1>5. KeptRows /\ KeptTries
  BY <1>4 DEF KeptRows, KeptTries
<1> QED  BY <1>2, <1>3, <1>4, <1>5, BesideCounts

LEMMA AdminCreateCounts ==
  ASSUME Inv, CountInv, AdminCreate  PROVE  CountInv'
<1>1. PICK id, u : id = ids' /\ u = NewUser(<<"given", 0>>, TRUE, TRUE, None)
  OBVIOUS
<1>2. PICK w : w = [x \in DOMAIN db.users \cup {id} |->
                      IF x = id THEN u ELSE db.users[x]]
  OBVIOUS
<1>3. db' = [db EXCEPT !.users = w] /\ UNCHANGED <<frames, draws, ghost>>
  BY <1>1, <1>2 DEF AdminCreate, Insert
<1>4. db'.users = w /\ db'.codes = db.codes /\ db'.attempts = db.attempts
  BY <1>3, UsersOnly
<1>5. u.verify = None /\ u.reset = None
  BY <1>1 DEF NewUser
<1>6. ASSUME NEW n \in Draws, NEW p \in Places, Holds(p, n)'
      PROVE  Holds(p, n) /\ (Spendable(p, n)' => Spendable(p, n))
  <2>1. n # None
    BY NoneIsNothing
  <2>2. CASE p[1] \in {"verify", "reset"}
    BY <1>2, <1>4, <1>5, <1>6, <2>1, <2>2 DEF Holds, Spendable
  <2>3. CASE p[1] = "code"
    BY <1>4, <1>6, <2>3 DEF Holds, Spendable
  <2> QED  BY <1>6, <2>2, <2>3 DEF Holds
<1>7. UseInv'
  <2>1. \A n \in Draws : \A p \in Places : Spendable(p, n)' => Spendable(p, n)
    BY <1>6 DEF Spendable
  <2> QED  BY <1>3, <1>6, <2>1, BesideClaims DEF CountInv
<1>8. LockInv' /\ TriesInv'
  BY <1>3, <1>4 DEF CountInv, LockInv, TriesInv, Counting, On
<1> QED  BY <1>7, <1>8 DEF CountInv

-----------------------------------------------------------------------------
(***************************************************************************)
(* The theorems.                                                           *)
(***************************************************************************)
LEMMA InitCounts == Init => CountInv
<1> SUFFICES ASSUME Init  PROVE  CountInv
  OBVIOUS
<1>1. /\ DOMAIN db.users = {} /\ DOMAIN db.codes = {}
      /\ \A k \in Keys : db.attempts[k] = [n |-> 0, lock |-> "none"]
      /\ \A i \in Handlers : frames[i].pc = "idle"
      /\ \A n \in Draws : ghost.uses[n] = 0
  BY IdleFrame DEF Init
<1>2. \A p, n : ~Claims(p, n)
  BY <1>1 DEF Claims, Holds, Wants, Place
<1>3. OnePlace /\ Unused
  BY <1>1, <1>2 DEF OnePlace, Unused
<1>4. Drawn
  BY <1>1, <1>2 DEF Drawn
<1>5. Private
  BY <1>1 DEF Private, Committing
<1>6. UsesOK
  <2> SUFFICES ASSUME NEW n \in Draws
               PROVE  0 + Cardinality(Readers(n)) <= Cardinality(Handlers)
    BY <1>1 DEF UsesOK
  <2>1. Readers(n) \in SUBSET Handlers
    BY DEF Readers
  <2> QED  BY <2>1, HandlersFinite
<1>7. LockInv
  BY <1>1, Limits DEF LockInv, LimitReached
<1>8. TriesInv
  BY <1>1 DEF TriesInv
<1> QED  BY <1>3, <1>4, <1>5, <1>6, <1>7, <1>8 DEF CountInv, UseInv

LEMMA HandleCounts ==
  ASSUME Inv, CountInv, NEW i \in Handlers, Handle(i)  PROVE  CountInv'
<1>1. CASE \/ Signup(i) \/ LinkUpdate(i) \/ ResetLink(i) \/ Verify(i) \/ Reset(i)
           \/ CommitSignup(i) \/ CommitLink(i) \/ VerifyUpdate(i)
           \/ ResetUpdate(i)
  BY <1>1, DrawLinkCounts, ReadLinkCounts, CommitLinksCount, UseLinkCounts
<1>2. CASE \/ Resend(i) \/ Generate(i) \/ EnterLogin(i) \/ LoginDevice(i)
           \/ Ask(i, "change", "change") \/ Ask(i, "profile", "profile")
           \/ Ask(i, "preference", "prefer") \/ Abort(i)
  BY <1>2, ReadsCount
<1>3. CASE \/ GenerateUpdate(i) \/ MailPassword(i) \/ SendCode(i)
           \/ ChangePassword(i) \/ SaveProfile(i) \/ AddPreference(i)
           \/ TrustDevice(i)
  BY <1>3, OthersCount
<1>4. CASE LoginLock(i) \/ LoginCount(i) \/ LoginClear(i) \/ LoginCode(i)
  BY <1>4, LoginLockCounts, LoginCountCounts, LoginClearCounts,
     LoginCodeCounts
<1>5. CASE \/ VerifyLogin(i) \/ WrongCode(i) \/ UseCode(i) \/ ResendCode(i)
           \/ RecodeUpdate(i)
  BY <1>5, VerifyLoginCounts, WrongCodeCounts, UseCodeCounts,
     ResendCodeCounts, RecodeUpdateCounts
<1> QED  BY <1>1, <1>2, <1>3, <1>4, <1>5 DEF Handle

LEMMA NextCounts == Inv /\ CountInv /\ [Next]_vars => CountInv'
<1> SUFFICES ASSUME Inv, CountInv, [Next]_vars  PROVE  CountInv'
  OBVIOUS
<1>1. CASE UNCHANGED vars
  <2>1. UNCHANGED <<db, frames, draws, ghost>>
    BY <1>1 DEF vars
  <2>2. KeptRows /\ KeptTries
    BY <2>1, SameDb
  <2> QED  BY <2>1, <2>2, BesideCounts
<1>2. CASE Next
  <2>1. ASSUME NEW i \in Handlers, Handle(i)  PROVE  CountInv'
    BY <2>1, HandleCounts
  <2>2. CASE AdminCreate
    BY <2>2, AdminCreateCounts
  <2>3. ASSUME NEW id \in Ids,
               \/ Delete(id) \/ AdminProfile(id) \/ ExpireLink(id)
               \/ \E mark \in BOOLEAN : PatchVerification(id, mark)
        PROVE  CountInv'
    BY <2>3, DeleteCounts, AdminProfileCounts, ExpireLinkCounts,
       PatchVerificationCounts
  <2>4. ASSUME NEW t \in Draws, ExpireCode(t)  PROVE  CountInv'
    BY <2>4, ExpireCodeCounts
  <2>5. ASSUME NEW k \in Keys, Unlock(k)  PROVE  CountInv'
    BY <2>5, UnlockCounts
  <2> QED  BY <1>2, <2>1, <2>2, <2>3, <2>4, <2>5 DEF Next
<1> QED  BY <1>1, <1>2

\* Both invariants, since the counts need to know what the handlers hold.
THEOREM AlwaysCounts == Spec => [](Inv /\ CountInv)
<1>1. Init => Inv /\ CountInv
  BY InitInv, InitCounts
<1>2. Inv /\ CountInv /\ [Next]_vars => (Inv /\ CountInv)'
  BY NextInv, NextCounts
<1> QED  BY <1>1, <1>2, PTL DEF Spec

\* A link or a code is used at most once by each request that was already past
\* its read when the first of them used it, and by no later one.
THEOREM AlwaysSpentOnce == Spec => []SpentOnce
<1>1. Inv /\ CountInv => SpentOnce
  <2> SUFFICES ASSUME Inv, CountInv, NEW n \in Draws
               PROVE  ghost.uses[n] <= Cardinality(Handlers)
    BY DEF SpentOnce
  <2>1. Readers(n) \in SUBSET Handlers
    BY DEF Readers
  <2>2. ghost.uses[n] + Cardinality(Readers(n)) <= Cardinality(Handlers)
    BY DEF CountInv, UseInv, UsesOK
  <2>3. ghost.uses[n] \in Nat
    BY Typed DEF Ghost
  <2> QED  BY <2>1, <2>2, <2>3, HandlersFinite
<1> QED  BY <1>1, AlwaysCounts, PTL

\* LoginMaxAttempts failures, and two at least, lock the account, and while it is
\* locked fewer failures are counted than there are requests at a time.
THEOREM LockAlwaysHolds == Spec => []LockHolds
<1>1. Inv /\ CountInv => LockHolds
  <2> SUFFICES ASSUME Inv, CountInv, NEW k \in Keys
               PROVE  /\ LimitReached(db.attempts[k].n) =>
                           db.attempts[k].lock # "none"
                      /\ db.attempts[k].lock = "on" =>
                           ghost.overrun[k] < Cardinality(Handlers)
    BY DEF LockHolds, LimitReached
  <2>1. Counting(k) \in SUBSET Handlers
    BY DEF Counting
  <2>2. ghost.overrun[k] \in Nat
    BY Typed DEF Ghost
  <2> QED  BY <2>1, <2>2, HandlersFinite DEF CountInv, LockInv
<1> QED  BY <1>1, AlwaysCounts, PTL

\* A code is tried fewer than CodeTries + Cardinality(Handlers) times, and sent
\* again fewer than CodeResends + Cardinality(Handlers) times.
THEOREM CodeAlwaysBounded == Spec => []CodeIsBounded
<1>1. Inv /\ CountInv => CodeIsBounded
  <2> SUFFICES ASSUME Inv, CountInv, NEW t \in DOMAIN db.codes
               PROVE  /\ db.codes[t].tries < CodeTries + Cardinality(Handlers)
                      /\ db.codes[t].resends <
                           CodeResends + Cardinality(Handlers)
    BY DEF CodeIsBounded
  <2>1. On("wrong", t) \in SUBSET Handlers /\ On("recode", t) \in SUBSET Handlers
    BY DEF On
  <2>2. db.codes[t].tries \in Nat /\ db.codes[t].resends \in Nat
    BY CodeFacts DEF Login
  <2> QED  BY <2>1, <2>2, HandlersFinite, Limits DEF CountInv, TriesInv
<1> QED  BY <1>1, AlwaysCounts, PTL
=============================================================================
