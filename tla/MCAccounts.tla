----------------------------- MODULE MCAccounts -----------------------------
(***************************************************************************)
(* Two handlers, and four sets of routes: registration with its links,     *)
(* passwords with the gates, logins with wrong passwords, and logins with  *)
(* their codes.                                                            *)
(***************************************************************************)
EXTENDS Accounts, TLC

CONSTANTS h1, h2

MCMixes ==
  {{"signup", "verify", "resend", "patch", "create", "delete"},
   {"create", "forgot", "reset", "generate", "change", "profile",
    "admin profile", "preference", "delete"},
   {"create", "login", "wrong password", "patch", "delete"},
   {"create", "login", "verify login", "resend code", "delete"}}

\* Logins with wrong passwords only.
FailedLogins == {{"create", "login", "wrong password"}}

Swaps == Permutations(Handlers)
=============================================================================
