-------------------------- MODULE PayrollLifecycle --------------------------
(***************************************************************************)
(* What the payroll lifecycle promises (models/payroll_models.py, the      *)
(* header of services/payroll_lifecycle_service.py): a run is computed and *)
(* recomputed as a draft, then verified, approved and locked in that order,*)
(* and from verification on its content never changes.                     *)
(***************************************************************************)
CONSTANTS Runs, Contents, NoContent
VARIABLES stage, content

Init == /\ stage = [r \in Runs |-> "null"]
        /\ content = [r \in Runs |-> NoContent]

\* Create, process or reset a run.
Compute(r) ==
  /\ stage[r] \in {"null", "draft"}
  /\ \E to \in {stage[r], "draft"} : stage' = [stage EXCEPT ![r] = to]
  /\ \E c \in Contents : content' = [content EXCEPT ![r] = c]

Review(r, from, to) ==
  /\ stage[r] = from
  /\ stage' = [stage EXCEPT ![r] = to]
  /\ UNCHANGED content

Next == \E r \in Runs :
  \/ Compute(r)
  \/ Review(r, "draft", "verified")
  \/ Review(r, "verified", "approved")
  \/ Review(r, "approved", "locked")

Spec == Init /\ [][Next]_<<stage, content>>
=============================================================================
