----------------------------- MODULE PeriodLock -----------------------------
(***************************************************************************)
(* What keeps attendance and leave of a period from being changed once pay *)
(* was computed on them: pay_periods.attendance_leave_locked, which        *)
(* processing a run sets and nothing takes back, not even a reset of the   *)
(* run, or an attendance freeze that is applied and released               *)
(* (services/wf_freeze_service.py).  The modules that extend this one say  *)
(* who looks at it, and when.                                              *)
(***************************************************************************)
EXTENDS Naturals

CONSTANT MaxLocks \* bound on locking the period

ASSUME LockAssumption == MaxLocks \in Nat

VARIABLES
  final,  \* is the period locked by a payroll?
  frozen, \* is it frozen?
  locks   \* counts both, for the bound

lockVars == <<final, frozen, locks>>
------------------------------------------------------------------------------
LockInit == final = FALSE /\ frozen = FALSE /\ locks = 0

Finalize ==
  /\ ~final /\ locks < MaxLocks
  /\ final' = TRUE /\ locks' = locks + 1
  /\ UNCHANGED frozen

Freeze ==
  /\ ~frozen /\ locks < MaxLocks
  /\ frozen' = TRUE /\ locks' = locks + 1
  /\ UNCHANGED final

Release ==
  /\ frozen
  /\ frozen' = FALSE
  /\ UNCHANGED <<final, locks>>

LockNext == Finalize \/ Freeze \/ Release

Closed == final \/ frozen

\* Mutant: nobody looks at the lock.
Unlocked_Never == TRUE

\* assert_attendance_range_unlocked, _is_attendance_locked
Unlocked == ~Closed
=============================================================================
