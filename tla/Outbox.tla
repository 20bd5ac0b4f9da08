------------------------------- MODULE Outbox -------------------------------
(***************************************************************************)
(* What the email queue promises, without rows, batches, polls or crashes: *)
(* a mail that was handed over is owed until it is settled; it is settled  *)
(* as sent only after at least one copy left, as failed only after         *)
(* MaxAttempts failed tries, and it does not stay owed for ever.  Copies   *)
(* may repeat: delivery is at least once, not exactly once.                *)
(***************************************************************************)
EXTENDS Naturals

CONSTANTS Mails, MaxAttempts

VARIABLES
  phase,     \* what became of each mail
  copies,    \* copies of it the mail server took
  tries      \* tries to send it that reported an error

ovars == <<phase, copies, tries>>

Phases == {"none", "owed", "sent", "failed", "lost"}

OTypeOK == /\ phase \in [Mails -> Phases]
           /\ copies \in [Mails -> Nat]
           /\ tries \in [Mails -> Nat]

OInit == /\ phase = [m \in Mails |-> "none"]
         /\ copies = [m \in Mails |-> 0]
         /\ tries = [m \in Mails |-> 0]

Move(m, from, to) == /\ phase[m] = from
                     /\ phase' = [phase EXCEPT ![m] = to]
                     /\ UNCHANGED <<copies, tries>>

HandOver(m) == Move(m, "none", "owed")
Settle(m)   == copies[m] > 0 /\ Move(m, "owed", "sent")
GiveUp(m)   == tries[m] >= MaxAttempts /\ Move(m, "owed", "failed")

\* A try: a copy leaves, or an error is reported, or both at once.  A mail
\* lost while the sender already held it may still leave.
Try(m) ==
  /\ phase[m] \in {"owed", "lost"}
  /\ \E taken, error \in BOOLEAN :
       /\ taken \/ error
       /\ copies' = [copies EXCEPT ![m] = IF taken THEN @ + 1 ELSE @]
       /\ tries' = [tries EXCEPT ![m] = IF error THEN @ + 1 ELSE @]
  /\ UNCHANGED phase

\* Somebody throws the whole outbox away.
Wipe == /\ phase' = [m \in Mails |->
                       IF phase[m] = "none" THEN "none" ELSE "lost"]
        /\ UNCHANGED <<copies, tries>>

ONext == \/ \E m \in Mails : HandOver(m) \/ Settle(m) \/ GiveUp(m) \/ Try(m)
         \/ Wipe

\* A mail that is owed is tried again and again until it can be settled, and
\* is then settled.
Fair == \A m \in Mails :
          /\ WF_ovars(phase[m] = "owed" /\ Try(m))
          /\ WF_ovars(Settle(m) \/ GiveUp(m))

OSpec == OInit /\ [][ONext]_ovars /\ Fair
=============================================================================
