---------------------------- MODULE MCEmailQueue ----------------------------
(***************************************************************************)
(* Three mails, two of them of one transaction (the welcome and the        *)
(* verification mail of a signup) and an older one, for a worker that      *)
(* takes two per poll.                                                     *)
(***************************************************************************)
EXTENDS EmailQueue, TLC

CONSTANTS older, welcome, verify

MCCreated == (older :> 1) @@ (welcome :> 2) @@ (verify :> 2)
=============================================================================
