------------------------------ MODULE Accounts ------------------------------
(***************************************************************************)
(* The account of one email address: signup, verification and reset links, *)
(* passwords, login with lockout and a second factor, the gates a          *)
(* half-registered user meets, and what admins do to the account           *)
(* (backend/auth.go, users.go, profile.go, app.go).  Every handler is the  *)
(* sequence of its SQL statements; those of one transaction become visible *)
(* at its commit and hold their row until then.  A handler may be cut      *)
(* short after any statement.  An early return that changes nothing is not *)
(* a step.                                                                 *)
(***************************************************************************)
EXTENDS Integers, FiniteSets, Functions

CONSTANTS
  Handlers,              \* requests served at the same time
  Mixes,                 \* sets of routes: a behaviour uses those of one set
  Devices,               \* device ids of the clients
  VerificationRequired,  \* REQUIRE_EMAIL_VERIFICATION
  LoginMaxAttempts,      \* LOGIN_MAX_ATTEMPTS
  CodeTries,             \* wrong codes per login, 5 in the source
  CodeResends,           \* resends per login, 3 in the source
  MaxIds,                \* bound on the accounts ever created
  MaxDraws,              \* bound on the random values drawn
  MaxLogins,             \* bound on the rows of login_codes
  MaxFails               \* bound on the failed logins counted in one row

ASSUME AccountAssumption ==
  /\ IsFiniteSet(Handlers) /\ VerificationRequired \in BOOLEAN
  /\ {LoginMaxAttempts, CodeTries, CodeResends, MaxIds, MaxDraws, MaxLogins,
      MaxFails} \subseteq Nat \ {0}

VARIABLES
  db,       \* the tables
  frames,   \* position and local variables of each handler
  jwt,      \* does the user hold a token for the email?
  ids,      \* users.id values taken
  draws,    \* random values drawn so far
  mix,      \* the routes of this behaviour
  ghost     \* what happened, for the properties

vars == <<db, frames, jwt, ids, draws, mix, ghost>>

None == 0                                   \* NULL, and no device
Ids == 1..MaxIds
Keys == 0..MaxIds                           \* "acct:<id>", or the identifier
Draws == 1..MaxDraws

\* A password the user chose, one an admin chose, or one that was generated.
Password == ({"own", "given"} \X {0}) \cup ({"drawn"} \X Draws)
Own == <<"own", 0>>

User == [password : Password, verified : BOOLEAN, must : BOOLEAN,
         verify : Draws \cup {None},        \* verification_token
         reset : Draws \cup {None},         \* reset_token
         expired : BOOLEAN]                 \* reset_token_expiry has passed

\* login_codes: the token of a row is random too, and named by the code it is
\* inserted with.
Login == [user : Ids, code : Draws, expired : BOOLEAN, used : BOOLEAN,
          tries : Nat, resends : Nat]

Mail == {"verify", "reset", "password", "code"} \X Draws

\* The tables d; users and login_codes are functions from the ids there are.
Tables(d) ==
  [users : [DOMAIN d.users -> User],
   profiles : SUBSET Ids,
   preferred : SUBSET Ids,                  \* preferred_times
   codes : [DOMAIN d.codes -> Login],
   devices : SUBSET (Ids \X Devices),       \* user_devices
   attempts : [Keys -> [n : Nat, lock : {"none", "on", "past"}]],
   mails : SUBSET Mail]                     \* email_queue, and texts sent

Pcs == {"idle", "commit signup", "verify", "link", "commit link",
        "commit reset", "reset", "generate", "mail password", "change",
        "profile", "prefer", "lock", "count", "clear", "device", "code",
        "send", "wrong", "use", "trust", "recode"}

Frame == [pc : Pcs, id : Keys, n : 0..MaxDraws, token : 0..MaxDraws,
          right : BOOLEAN, verified : BOOLEAN, device : Devices \cup {None}]

Ghost == [lost : SUBSET Mail,               \* mails cut off with their handler
          uses : [Draws -> Nat],            \* uses of a link or a code
          unmarked : SUBSET Ids,            \* an admin took the mark back
          overrun : [Keys -> Nat]]          \* failures counted under a lock

TypeOK ==
  /\ db \in Tables(db)
  /\ DOMAIN db.users \subseteq Ids /\ DOMAIN db.codes \subseteq Draws
  /\ frames \in [Handlers -> Frame] /\ jwt \in BOOLEAN
  /\ ids \in 0..MaxIds /\ draws \in 0..MaxDraws /\ mix \in Mixes
  /\ ghost \in Ghost
  /\ \A x, y \in DOMAIN db.users : x = y    \* UNIQUE (email)

-----------------------------------------------------------------------------
Idle == [pc |-> "idle", id |-> 0, n |-> 0, token |-> 0, right |-> FALSE,
         verified |-> FALSE, device |-> None]

At(pc, id, n) == [Idle EXCEPT !.pc = pc, !.id = id, !.n = n]

Enter(i, route) == frames[i] = Idle /\ route \in mix
Is(i, pc) == frames[i].pc = pc
Goto(i, f) == frames' = [frames EXCEPT ![i] = f]
Done(i) == Goto(i, Idle)
Draw == draws < MaxDraws /\ draws' = draws + 1

\* Statements of a transaction keep others off the row, or off the email.
Held(id) == \E i \in Handlers : /\ frames[i].pc \in {"commit link",
                                                     "commit reset"}
                                /\ frames[i].id = id
Inserting == \E i \in Handlers : Is(i, "commit signup")

\* A row is inserted into a table.
Insert(table, key, row) ==
  [x \in DOMAIN table \cup {key} |-> IF x = key THEN row ELSE table[x]]

\* UPDATE users ... WHERE id = $n: the row may be gone.
Update(id, f(_)) ==
  [db EXCEPT !.users = [x \in DOMAIN @ |-> IF x = id THEN f(@[x]) ELSE @[x]]]

Sent(d, kind, n) == [d EXCEPT !.mails = @ \cup {<<kind, n>>}]

NewUser(password, verified, must, link) ==
  [password |-> password, verified |-> verified, must |-> must,
   verify |-> link, reset |-> None, expired |-> FALSE]

-----------------------------------------------------------------------------
(***************************************************************************)
(* Accounts and their verification.                                        *)
(***************************************************************************)
\* signup: the transaction inserts the user, the welcome mail and the
\* verification mail.
Signup(i) ==
  /\ Enter(i, "signup") /\ DOMAIN db.users = {} /\ ~Inserting
  /\ ids < MaxIds /\ ids' = ids + 1 /\ Draw
  /\ Goto(i, At("commit signup", ids', draws'))
  /\ UNCHANGED <<db, jwt, mix, ghost>>

CommitSignup(i) ==
  LET f == frames[i]
  IN  /\ Is(i, "commit signup")
      /\ db' = [Sent(db, "verify", f.n) EXCEPT
                  !.users = Insert(@, f.id, NewUser(Own, FALSE, FALSE, f.n))]
      /\ Done(i)
      /\ UNCHANGED <<jwt, ids, draws, mix, ghost>>

\* adminCreateUser, and the user that createWorker inserts.
AdminCreate ==
  /\ "create" \in mix /\ DOMAIN db.users = {} /\ ~Inserting
  /\ ids < MaxIds /\ ids' = ids + 1
  /\ db' = [db EXCEPT !.users =
              Insert(@, ids', NewUser(<<"given", 0>>, TRUE, TRUE, None))]
  /\ UNCHANGED <<frames, jwt, draws, mix, ghost>>

\* deleteUser, and the tables that follow by ON DELETE CASCADE.
Delete(id) ==
  /\ "delete" \in mix /\ id \in DOMAIN db.users /\ ~Held(id)
  /\ db' = [db EXCEPT
              !.users = Restrict(@, DOMAIN @ \ {id}),
              !.profiles = @ \ {id}, !.preferred = @ \ {id},
              !.codes = Restrict(@, {t \in DOMAIN @ : @[t].user # id}),
              !.devices = {x \in @ : x[1] # id}]
  /\ UNCHANGED <<frames, jwt, ids, draws, mix, ghost>>

\* verify: the account of the link, then its UPDATE.
Verify(i) ==
  /\ Enter(i, "verify")
  /\ \E id \in DOMAIN db.users :
       /\ db.users[id].verify # None
       /\ Goto(i, At("verify", id, db.users[id].verify))
  /\ UNCHANGED <<db, jwt, ids, draws, mix, ghost>>

Used(n) == [ghost EXCEPT !.uses[n] = @ + 1]

VerifyUpdate(i) ==
  LET f == frames[i]
  IN  /\ Is(i, "verify") /\ ~Held(f.id)
      /\ db' = Update(f.id, LAMBDA u : [u EXCEPT !.verified = TRUE,
                                                 !.verify = None])
      /\ ghost' = Used(f.n)
      /\ Done(i)
      /\ UNCHANGED <<jwt, ids, draws, mix>>

\* resendVerification and staffResendVerification.
Resend(i) ==
  /\ Enter(i, "resend")
  /\ \E id \in DOMAIN db.users : /\ ~db.users[id].verified
                                 /\ Goto(i, At("link", id, None))
  /\ UNCHANGED <<db, jwt, ids, draws, mix, ghost>>

\* What a transaction's UPDATE shows to others before it commits: nothing.
\* Autocommitted is the mutated form without a transaction.
Relink(f) ==
  Update(f.id, LAMBDA u : IF f.pc = "commit link" THEN [u EXCEPT !.verify = f.n]
                          ELSE [u EXCEPT !.reset = f.n, !.expired = FALSE])
Autocommitted(f) == Relink(f)
BeforeCommit(f) == db

\* queueVerificationEmail.
LinkUpdate(i) ==
  LET f == At("commit link", frames[i].id, draws')
  IN  /\ Is(i, "link") /\ ~Held(frames[i].id) /\ Draw
      /\ db' = BeforeCommit(f)
      /\ Goto(i, f)
      /\ UNCHANGED <<jwt, ids, mix, ghost>>

\* queuePasswordReset, of forgotPassword and adminResetPassword.
ResetLink(i) ==
  /\ Enter(i, "forgot") /\ Draw
  /\ \E id \in DOMAIN db.users :
       LET f == At("commit reset", id, draws')
       IN  /\ ~Held(id)
           /\ db' = BeforeCommit(f)
           /\ Goto(i, f)
  /\ UNCHANGED <<jwt, ids, mix, ghost>>

\* The mail is inserted and the transaction commits.
CommitLink(i) ==
  LET f == frames[i]
  IN  /\ f.pc \in {"commit link", "commit reset"}
      /\ db' = Sent(Relink(f), IF f.pc = "commit link" THEN "verify"
                               ELSE "reset", f.n)
      /\ Done(i)
      /\ UNCHANGED <<jwt, ids, draws, mix, ghost>>

\* patchVerification.
PatchVerification(id, mark) ==
  /\ "patch" \in mix /\ id \in DOMAIN db.users /\ ~Held(id)
  /\ db' = Update(id, LAMBDA u : [u EXCEPT !.verified = mark,
                                           !.verify = None])
  /\ ghost' = IF mark THEN ghost
              ELSE [ghost EXCEPT !.unmarked = @ \cup {id}]
  /\ UNCHANGED <<frames, jwt, ids, draws, mix>>

-----------------------------------------------------------------------------
(***************************************************************************)
(* Passwords, and the routes of a user who holds a token.                  *)
(***************************************************************************)
\* resetPassword: the account of a live link, then its UPDATE.
Reset(i) ==
  /\ Enter(i, "reset")
  /\ \E id \in DOMAIN db.users :
       /\ db.users[id].reset # None /\ ~db.users[id].expired
       /\ Goto(i, At("reset", id, db.users[id].reset))
  /\ UNCHANGED <<db, jwt, ids, draws, mix, ghost>>

\* The row after a reset.  KeepsLink: the link is left in place.
KeepsLink(u) == [u EXCEPT !.password = Own, !.must = FALSE]
AfterReset(u) == [u EXCEPT !.password = Own, !.must = FALSE, !.reset = None,
                           !.expired = FALSE]

ResetUpdate(i) ==
  LET f == frames[i]
  IN  /\ Is(i, "reset") /\ ~Held(f.id)
      /\ db' = Update(f.id, AfterReset)
      /\ jwt' = TRUE
      /\ ghost' = Used(f.n)
      /\ Done(i)
      /\ UNCHANGED <<ids, draws, mix>>

ExpireLink(id) ==
  /\ id \in DOMAIN db.users /\ db.users[id].reset # None
  /\ ~db.users[id].expired
  /\ db' = [db EXCEPT !.users[id].expired = TRUE]
  /\ UNCHANGED <<frames, jwt, ids, draws, mix, ghost>>

\* generateUserPassword: SELECT, UPDATE and INSERT, with no transaction.
Generate(i) ==
  /\ Enter(i, "generate")
  /\ \E id \in DOMAIN db.users : Goto(i, At("generate", id, None))
  /\ UNCHANGED <<db, jwt, ids, draws, mix, ghost>>

GenerateUpdate(i) ==
  LET id == frames[i].id
  IN  /\ Is(i, "generate") /\ ~Held(id) /\ Draw
      /\ db' = Update(id, LAMBDA u :
                 [u EXCEPT !.password = <<"drawn", draws'>>, !.must = TRUE])
      /\ Goto(i, At("mail password", id, draws'))
      /\ UNCHANGED <<jwt, ids, mix, ghost>>

MailPassword(i) ==
  /\ Is(i, "mail password")
  /\ db' = Sent(db, "password", frames[i].n)
  /\ Done(i)
  /\ UNCHANGED <<jwt, ids, draws, mix, ghost>>

\* onboardingExemptRoutes.  Each gate's own route: ExemptOwn, the mutated form
\* that opens a gate's route only to those the other gate lets pass;
\* EveryRoute, the one that exempts all.
ExemptOwn(route, u, profile) ==
  \/ route = "change" /\ profile
  \/ route = "profile" /\ ~u.must
EveryRoute(route, u, profile) == TRUE
Exempt(route, u, profile) == route \in {"change", "profile"}

\* requireAuth and onboardingGates, on the row read for this request.
Admitted(route, id) ==
  LET u == db.users[id]
      profile == id \in db.profiles
  IN  /\ VerificationRequired => u.verified
      /\ Exempt(route, u, profile) \/ (~u.must /\ profile)

\* changePassword, saveProfile and addPreference: requireAuth, then (if the
\* current password is right) the statement.
Ask(i, route, pc) ==
  /\ Enter(i, route) /\ jwt
  /\ \E id \in DOMAIN db.users : /\ Admitted(route, id)
                                 /\ Goto(i, At(pc, id, None))
  /\ UNCHANGED <<db, jwt, ids, draws, mix, ghost>>

ChangePassword(i) ==
  LET id == frames[i].id
  IN  /\ Is(i, "change") /\ ~Held(id)
      /\ db' = Update(id, LAMBDA u : [u EXCEPT !.password = Own,
                                               !.must = FALSE])
      /\ Done(i)
      /\ UNCHANGED <<jwt, ids, draws, mix, ghost>>

\* A second profile violates UNIQUE, one of a deleted user the foreign key.
SaveProfile(i) ==
  /\ Is(i, "profile")
  /\ db' = [db EXCEPT !.profiles = @ \cup ({frames[i].id} \cap
                                           DOMAIN db.users)]
  /\ Done(i)
  /\ UNCHANGED <<jwt, ids, draws, mix, ghost>>

AddPreference(i) ==
  /\ Is(i, "prefer")
  /\ db' = [db EXCEPT !.preferred = @ \cup ({frames[i].id} \cap
                                            DOMAIN db.users)]
  /\ Done(i)
  /\ UNCHANGED <<jwt, ids, draws, mix, ghost>>

\* adminUpdateProfile.
AdminProfile(id) ==
  /\ "admin profile" \in mix /\ id \in DOMAIN db.users
  /\ db' = [db EXCEPT !.profiles = @ \cup {id}]
  /\ UNCHANGED <<frames, jwt, ids, draws, mix, ghost>>

-----------------------------------------------------------------------------
(***************************************************************************)
(* Login.                                                                  *)
(***************************************************************************)
\* The account, its hash and its mark are read first; whether the password of
\* the request is right is settled by that hash.
EnterLogin(i) ==
  /\ Enter(i, "login")
  /\ \/ /\ DOMAIN db.users = {} /\ "wrong password" \in mix
        /\ Goto(i, At("lock", 0, None))
     \/ \E id \in DOMAIN db.users,
           right \in {TRUE} \cup {"wrong password" \notin mix} :
          Goto(i, [At("lock", id, None) EXCEPT
                     !.right = right, !.verified = db.users[id].verified])
  /\ UNCHANGED <<db, jwt, ids, draws, mix, ghost>>

\* Is a login that reads this lock turned away?  NeverLocked is the mutated
\* form.
NeverLocked(lock) == FALSE
LockedOut(lock) == lock = "on"

LoginLock(i) ==
  LET f == frames[i]
  IN  /\ Is(i, "lock")
      /\ IF LockedOut(db.attempts[f.id].lock) THEN Done(i)
         ELSE Goto(i, [f EXCEPT !.pc = IF f.right THEN "clear" ELSE "count"])
      /\ UNCHANGED <<db, jwt, ids, draws, mix, ghost>>

\* The upsert of a failure, one statement: the first one inserts the row, and
\* only an update of it looks at the limit.
LoginCount(i) ==
  LET k == frames[i].id
      row == db.attempts[k]
      n == row.n + 1
  IN  /\ Is(i, "count") /\ n <= MaxFails
      /\ db' = [db EXCEPT !.attempts[k] =
                  [n |-> n, lock |-> IF row.n > 0 /\ n >= LoginMaxAttempts
                                     THEN "on" ELSE row.lock]]
      /\ ghost' = [ghost EXCEPT !.overrun[k] = IF row.lock = "on" THEN @ + 1
                                               ELSE 0]
      /\ Done(i)
      /\ UNCHANGED <<jwt, ids, draws, mix>>

LoginClear(i) ==
  LET f == frames[i]
  IN  /\ Is(i, "clear")
      /\ db' = [db EXCEPT !.attempts[f.id] = [n |-> 0, lock |-> "none"]]
      /\ ghost' = [ghost EXCEPT !.overrun[f.id] = 0]
      /\ IF VerificationRequired /\ ~f.verified THEN Done(i)
         ELSE Goto(i, [f EXCEPT !.pc = "device"])
      /\ UNCHANGED <<jwt, ids, draws, mix>>

\* A known device skips the code.
LoginDevice(i) ==
  LET f == frames[i]
  IN  /\ Is(i, "device")
      /\ \E device \in Devices \cup {None} :
           IF <<f.id, device>> \in db.devices THEN Done(i) /\ jwt' = TRUE
           ELSE Goto(i, [f EXCEPT !.pc = "code"]) /\ UNCHANGED jwt
      /\ UNCHANGED <<db, ids, draws, mix, ghost>>

\* INSERT INTO login_codes; the account may be gone.
LoginCode(i) ==
  LET f == frames[i]
  IN  /\ Is(i, "code") /\ Cardinality(DOMAIN db.codes) < MaxLogins /\ Draw
      /\ IF f.id \in DOMAIN db.users
         THEN /\ db' = [db EXCEPT !.codes = Insert(@, draws',
                          [user |-> f.id, code |-> draws', expired |-> FALSE,
                           used |-> FALSE, tries |-> 0, resends |-> 0])]
              /\ Goto(i, At("send", f.id, draws'))
         ELSE Done(i) /\ UNCHANGED db
      /\ UNCHANGED <<jwt, ids, mix, ghost>>

\* sendLoginCode: a mail, or a text logged.
SendCode(i) ==
  /\ Is(i, "send")
  /\ db' = Sent(db, "code", frames[i].n)
  /\ Done(i)
  /\ UNCHANGED <<jwt, ids, draws, mix, ghost>>

\* UPDATE login_codes ... WHERE token = $n.
UpdateCode(t, f(_)) ==
  [db EXCEPT !.codes = [x \in DOMAIN @ |-> IF x = t THEN f(@[x]) ELSE @[x]]]

\* What verifyLogin takes for a code that may still be tried.  Mutated forms:
\* Untried forgets the limit on tries, Unspent the mark of use.
Untried(c) == ~c.used /\ ~c.expired
Unspent(c) == ~c.expired /\ c.tries < CodeTries
Alive(c) == ~c.used /\ ~c.expired /\ c.tries < CodeTries

VerifyLogin(i) ==
  /\ Enter(i, "verify login")
  /\ \E t \in DOMAIN db.codes, device \in Devices \cup {None},
        pc \in {"wrong", "use"} :
       LET c == db.codes[t]
       IN  /\ Alive(c)
           /\ pc = "use" => <<"code", c.code>> \in db.mails
           /\ Goto(i, [At(pc, c.user, c.code) EXCEPT !.token = t,
                                                     !.device = device])
  /\ UNCHANGED <<db, jwt, ids, draws, mix, ghost>>

WrongCode(i) ==
  /\ Is(i, "wrong")
  /\ db' = UpdateCode(frames[i].token,
                      LAMBDA c : [c EXCEPT !.tries = @ + 1])
  /\ Done(i)
  /\ UNCHANGED <<jwt, ids, draws, mix, ghost>>

UseCode(i) ==
  LET f == frames[i]
  IN  /\ Is(i, "use")
      /\ db' = UpdateCode(f.token, LAMBDA c : [c EXCEPT !.used = TRUE])
      /\ ghost' = Used(f.n)
      /\ IF f.device = None THEN Done(i) /\ jwt' = TRUE
         ELSE Goto(i, [f EXCEPT !.pc = "trust"]) /\ UNCHANGED jwt
      /\ UNCHANGED <<ids, draws, mix>>

\* ON CONFLICT (device_id) DO NOTHING; every error is ignored.
TrustDevice(i) ==
  LET f == frames[i]
  IN  /\ Is(i, "trust")
      /\ db' = IF \/ \E x \in db.devices : x[2] = f.device
                  \/ f.id \notin DOMAIN db.users
               THEN db
               ELSE [db EXCEPT !.devices = @ \cup {<<f.id, f.device>>}]
      /\ jwt' = TRUE
      /\ Done(i)
      /\ UNCHANGED <<ids, draws, mix, ghost>>

ResendCode(i) ==
  /\ Enter(i, "resend code")
  /\ \E t \in DOMAIN db.codes :
       LET c == db.codes[t]
       IN  /\ ~c.used /\ ~c.expired /\ c.resends < CodeResends
           /\ Goto(i, [At("recode", c.user, None) EXCEPT !.token = t])
  /\ UNCHANGED <<db, jwt, ids, draws, mix, ghost>>

\* The row after a resend, with the code drawn.  Blanked is the mutated form
\* that clears the code.
Blanked(c, n) == [c EXCEPT !.code = None, !.resends = @ + 1, !.expired = FALSE]
Recoded(c, n) == [c EXCEPT !.code = n, !.resends = @ + 1, !.expired = FALSE]

\* What is left to do after it.  Silent is the mutated form that does not send.
Silent(id, n) == Idle
ToSend(id, n) == At("send", id, n)

RecodeUpdate(i) ==
  LET f == frames[i]
  IN  /\ Is(i, "recode") /\ Draw
      /\ db' = UpdateCode(f.token, LAMBDA c : Recoded(c, draws'))
      /\ Goto(i, ToSend(f.id, draws'))
      /\ UNCHANGED <<jwt, ids, mix, ghost>>

\* Time passes.
ExpireCode(t) ==
  /\ t \in DOMAIN db.codes /\ ~db.codes[t].expired
  /\ db' = [db EXCEPT !.codes[t].expired = TRUE]
  /\ UNCHANGED <<frames, jwt, ids, draws, mix, ghost>>

Unlock(k) ==
  /\ db.attempts[k].lock = "on"
  /\ db' = [db EXCEPT !.attempts[k].lock = "past"]
  /\ UNCHANGED <<frames, jwt, ids, draws, mix, ghost>>

-----------------------------------------------------------------------------
\* The client goes away, a statement fails or the process is killed: an open
\* transaction is rolled back, what was committed stays.
Mailing(f) == CASE f.pc = "mail password" -> {<<"password", f.n>>}
                [] f.pc = "send"          -> {<<"code", f.n>>}
                [] OTHER                  -> {}

Abort(i) ==
  /\ frames[i] # Idle
  /\ ghost' = [ghost EXCEPT !.lost = @ \cup Mailing(frames[i])]
  /\ Done(i)
  /\ UNCHANGED <<db, jwt, ids, draws, mix>>

Init ==
  /\ db = [users |-> << >>, profiles |-> {}, preferred |-> {},
           codes |-> << >>, devices |-> {},
           attempts |-> [k \in Keys |-> [n |-> 0, lock |-> "none"]],
           mails |-> {}]
  /\ frames = [i \in Handlers |-> Idle]
  /\ jwt = FALSE /\ ids = 0 /\ draws = 0 /\ mix \in Mixes
  /\ ghost = [lost |-> {}, uses |-> [n \in Draws |-> 0], unmarked |-> {},
              overrun |-> [k \in Keys |-> 0]]

Handle(i) ==
  \/ Signup(i) \/ CommitSignup(i) \/ Verify(i) \/ VerifyUpdate(i)
  \/ Resend(i) \/ LinkUpdate(i) \/ ResetLink(i) \/ CommitLink(i)
  \/ Reset(i) \/ ResetUpdate(i)
  \/ Generate(i) \/ GenerateUpdate(i) \/ MailPassword(i)
  \/ Ask(i, "change", "change") \/ ChangePassword(i)
  \/ Ask(i, "profile", "profile") \/ SaveProfile(i)
  \/ Ask(i, "preference", "prefer") \/ AddPreference(i)
  \/ EnterLogin(i) \/ LoginLock(i) \/ LoginCount(i) \/ LoginClear(i)
  \/ LoginDevice(i) \/ LoginCode(i) \/ SendCode(i)
  \/ VerifyLogin(i) \/ WrongCode(i) \/ UseCode(i) \/ TrustDevice(i)
  \/ ResendCode(i) \/ RecodeUpdate(i)
  \/ Abort(i)

Next ==
  \/ \E i \in Handlers : Handle(i)
  \/ AdminCreate
  \/ \E id \in Ids : \/ Delete(id) \/ AdminProfile(id) \/ ExpireLink(id)
                     \/ \E mark \in BOOLEAN : PatchVerification(id, mark)
  \/ \E t \in Draws : ExpireCode(t)
  \/ \E k \in Keys : Unlock(k)

Spec == Init /\ [][Next]_vars

-----------------------------------------------------------------------------
InFlight(pc, n) == \E i \in Handlers : Is(i, pc) /\ frames[i].n = n

\* A link that would work has always been mailed, whatever requests for links
\* interleave, fail or are cut short; and an account that is not verified has
\* such a link unless an admin took its mark back.
LinksAreMailed ==
  \A id \in DOMAIN db.users :
    LET u == db.users[id]
    IN  /\ u.verify # None => <<"verify", u.verify>> \in db.mails
        /\ u.reset # None => <<"reset", u.reset>> \in db.mails
        /\ u.verified \/ u.verify # None \/ id \in ghost.unmarked

\* Two statements read and use a link or a code, so that requests already past
\* the read may use it again; no request that comes later can.
SpentOnce == \A n \in Draws : ghost.uses[n] <= Cardinality(Handlers)

\* A user with a temporary password, or without a profile, has a way in: the
\* password is marked temporary and the user knows it (unless the handler that
\* was to mail it was cut short), and the route that clears a gate is open to
\* whoever that gate stops, even when both do.
OnboardingIsPossible ==
  \A id \in DOMAIN db.users :
    LET u == db.users[id]
        n == u.password[2]
    IN  /\ u.must <=> u.password # Own
        /\ u.password[1] = "drawn" =>
             \/ <<"password", n>> \in db.mails \cup ghost.lost
             \/ InFlight("mail password", n)
        /\ (VerificationRequired => u.verified) =>
             /\ u.must => Admitted("change", id)
             /\ id \notin db.profiles => Admitted("profile", id)

\* A worker's own preferred times are stored only for an account that has passed
\* each of the gates: it has its profile, the password an admin chose for it is
\* replaced, and its email is verified unless an admin took the mark back.  The
\* gates look at rows read some statements before the INSERT.
GatesHold ==
  \A id \in db.preferred :
    LET u == db.users[id]
    IN  /\ id \in db.profiles
        /\ u.password[1] # "given"
        /\ VerificationRequired => u.verified \/ id \in ghost.unmarked

\* LoginMaxAttempts failures, and two at least, lock the account, and while it is
\* locked at most the logins that had read the lock before it was set are still
\* counted.
LockHolds ==
  \A k \in Keys :
    LET row == db.attempts[k]
    IN  /\ row.n >= LoginMaxAttempts /\ row.n >= 2 => row.lock # "none"
        /\ row.lock = "on" => ghost.overrun[k] < Cardinality(Handlers)

\* "After LOGIN_MAX_ATTEMPTS failed logins, that account is locked".
LocksAtMaxAttempts ==
  \A k \in Keys :
    db.attempts[k].n >= LoginMaxAttempts => db.attempts[k].lock # "none"

\* A code may be tried and sent again a bounded number of times: beyond the
\* limits go only requests that had all read the row before one of them wrote.
CodeIsBounded ==
  \A t \in DOMAIN db.codes :
    /\ db.codes[t].tries < CodeTries + Cardinality(Handlers)
    /\ db.codes[t].resends < CodeResends + Cardinality(Handlers)

\* The code that a pending login is compared with has gone out to its user, or
\* is about to: no order of concurrent resends stores one that was never sent.
CurrentCodeIsSent ==
  \A t \in DOMAIN db.codes :
    LET n == db.codes[t].code
    IN  \/ <<"code", n>> \in db.mails \cup ghost.lost
        \/ InFlight("send", n)
=============================================================================
