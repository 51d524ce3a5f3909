---------------------------- MODULE Disbursement ----------------------------
(***************************************************************************)
(* What disbursement promises about a salary batch: HR approves, FINANCE   *)
(* approves, and then the batch is either exported to bank files or sent   *)
(* once to the payment provider.                                           *)
(***************************************************************************)
EXTENDS Naturals

VARIABLES stage, files, tasks

Init == stage = "none" /\ files = 0 /\ tasks = 0

Advance(from, to) ==
  /\ stage = from
  /\ stage' = to
  /\ UNCHANGED <<files, tasks>>

\* A payout, or a report of the provider, on a batch without bank files.
Pay ==
  /\ stage = "approved"
  /\ files = 0
  /\ stage' = "payout"
  /\ UNCHANGED <<files, tasks>>

Export ==
  /\ stage = "approved"
  /\ tasks = 0
  /\ files' = files + 1
  /\ UNCHANGED <<stage, tasks>>

Enqueue ==
  /\ stage \in {"approved", "payout"}
  /\ files = 0 /\ tasks = 0
  /\ tasks' = 1
  /\ UNCHANGED <<stage, files>>

Next ==
  \/ Advance("none", "hr_pending")
  \/ Advance("hr_pending", "finance_pending")
  \/ Advance("finance_pending", "approved")
  \/ Pay \/ Export \/ Enqueue

Spec == Init /\ [][Next]_<<stage, files, tasks>>
=============================================================================
