---------------------------- MODULE WorkerPolicy ----------------------------
(***************************************************************************)
(* The weekly-hour rules of a worker (backend/worker.go): how many hours a *)
(* worker may be scheduled without approval, whether overtime exists, and  *)
(* the hard weekly cap.  `details` is the pair of columns the rules read:  *)
(* users.worker_type and users.hourly_limit, 0 standing for a NULL limit.  *)
(***************************************************************************)
EXTENDS Integers

WorkerTypes == {"student", "fulltime", "hourly"}
Verdicts    == {"allowed", "pending", "blocked"}

\* Every value the two columns can hold: users.hourly_limit is 1..40 or NULL.
AllDetails == [type : WorkerTypes, limit : 0..40]

\* Hours that need nobody's approval.
Regular(details) ==
  CASE details.type = "fulltime" -> 40
    [] details.type = "hourly"   -> IF details.limit \in 1..40
                                    THEN details.limit ELSE 40
    [] OTHER                     -> 20

\* May the worker go past the regular hours with a manager's approval?
Overtime(details) == details.type \in {"fulltime", "hourly"}

\* "hard weekly cap (no assignment beyond this)".
Cap(details) == IF Overtime(details) THEN 60 ELSE 20

\* Mutated form of Allowance: the hours asked for are left out of the total.
AllowanceOfUsed(details, used, hours) ==
  CASE used > Cap(details)      -> "blocked"
    [] used <= Regular(details) -> "allowed"
    [] OTHER                    -> "pending"

\* allowanceFor's decision once the settings and the hours in use are read.
Allowance(details, used, hours) ==
  LET total == used + hours
  IN  CASE total > Cap(details)      -> "blocked"
        [] total <= Regular(details) -> "allowed"
        [] OTHER                     -> IF Overtime(details)
                                        THEN "pending" ELSE "blocked"
=============================================================================
