------------------------------- MODULE Leaves -------------------------------
(***************************************************************************)
(* The leave requests of one employee (services/leave_service.py,          *)
(* create_leave in crud/attendance_crud.py): filing, approval against a    *)
(* balance, rejection.  Clerks work at the same time; a request is cut     *)
(* where another may come between its checks and its commit.               *)
(*                                                                         *)
(* CL stands for the three types that have a balance (CL, SL, EL), LOP for *)
(* the others; the months of service an EL needs are left out.  Nothing    *)
(* cancels a leave or changes the rest of a balance.                       *)
(***************************************************************************)
EXTENDS PeriodLock, Sequences, FiniteSets, SequencesExt

CONSTANTS
  Clerks,    \* concurrent requests
  LeaveDays, \* days of the year, as numbers
  MaxLeaves, \* bound on leaves filed
  Balance    \* opening balance, accruals and what was carried forward

ASSUME LeavesAssumption ==
  LeaveDays \subseteq Nat /\ IsFiniteSet(Clerks) /\ {MaxLeaves, Balance} \subseteq Nat

VARIABLES
  convert,  \* hr_settings: insufficient_balance_convert_to_lop
  leaves,   \* the leaves table; deducted counts the approvals that used the balance
  consumed, \* consumed of the balance row
  desk      \* what every clerk's request has read

leaveVars == <<convert, lockVars, leaves, consumed, desk>>
------------------------------------------------------------------------------
Spans == {s \in LeaveDays \X LeaveDays : s[1] <= s[2]}
Leave == [type : {"CL", "LOP"}, span : Spans, status : {"pending", "approved", "rejected"},
          direct : BOOLEAN, deducted : Nat]
AtDesk(c) == desk[c].pc
FreeDesk == [pc |-> "idle"]

LeavesTypeOK ==
  /\ convert \in BOOLEAN /\ consumed \in Nat
  /\ leaves \in Seq(Leave) /\ Len(leaves) <= MaxLeaves
  /\ \A c \in Clerks :
       /\ AtDesk(c) \in {"idle", "insert", "decide", "approve"}
       /\ AtDesk(c) \in {"decide", "approve"} => desk[c].of \in DOMAIN leaves

LeavesInit ==
  /\ convert \in BOOLEAN
  /\ LockInit
  /\ leaves = <<>> /\ consumed = 0
  /\ desk = [c \in Clerks |-> FreeDesk]
------------------------------------------------------------------------------
\* leave_calendar_days
CalendarDays(span) == span[2] - span[1] + 1

Active(l) == l.status \in {"pending", "approved"}

\* leave_overlaps, leaving out the leave that is being decided (0: none is).
Overlaps(span, except) ==
  \E i \in DOMAIN leaves \ {except} :
    Active(leaves[i]) /\ leaves[i].span[1] <= span[2] /\ span[1] <= leaves[i].span[2]

\* Mutant: a balance one day short is enough.
Covered_OneMore(span) == consumed + CalendarDays(span) <= Balance + 1

\* requested <= avail
Covered(span) == consumed + CalendarDays(span) <= Balance

\* validate_new_leave: with the conversion set a balance is not needed.
Valid(type, span, except) ==
  /\ ~Overlaps(span, except)
  /\ type = "CL" => Covered(span) \/ convert

\* create_leave, up to its commit.  The request names the status the leave starts in.
BeginFile(c, type, span, status) ==
  /\ AtDesk(c) = "idle"
  /\ Len(leaves) + Cardinality({o \in Clerks : AtDesk(o) = "insert"}) < MaxLeaves
  /\ Unlocked
  /\ Valid(type, span, 0)
  /\ desk' = [desk EXCEPT ![c] =
       [pc |-> "insert", leave |-> [type |-> type, span |-> span, status |-> status,
                                    direct |-> status # "pending", deducted |-> 0]]]
  /\ UNCHANGED <<convert, lockVars, leaves, consumed>>

\* uq_employee_leave_dates refuses a second leave of the same dates.
File(c) ==
  /\ AtDesk(c) = "insert"
  /\ leaves' = IF \E i \in DOMAIN leaves : leaves[i].span = desk[c].leave.span
               THEN leaves ELSE Append(leaves, desk[c].leave)
  /\ desk' = [desk EXCEPT ![c] = FreeDesk]
  /\ UNCHANGED <<convert, lockVars, consumed>>

\* approve_or_reject_leave loads the leave.  Nothing checks the lock of the period.
Open(c, i, decision) ==
  /\ AtDesk(c) = "idle"
  /\ leaves[i].status = "pending"
  /\ desk' = [desk EXCEPT ![c] = [pc |-> "decide", of |-> i, decision |-> decision]]
  /\ UNCHANGED <<convert, lockVars, leaves, consumed>>

Reject(c) ==
  /\ AtDesk(c) = "decide" /\ desk[c].decision = "rejected"
  /\ leaves' = [leaves EXCEPT ![desk[c].of].status = "rejected"]
  /\ desk' = [desk EXCEPT ![c] = FreeDesk]
  /\ UNCHANGED <<convert, lockVars, consumed>>

Validate(c) ==
  LET l == leaves[desk[c].of] IN
  /\ AtDesk(c) = "decide" /\ desk[c].decision = "approved"
  /\ desk' = [desk EXCEPT ![c] =
       IF l.type = "LOP" \/ Valid(l.type, l.span, desk[c].of)
       THEN [pc |-> "approve", of |-> desk[c].of] ELSE FreeDesk]
  /\ UNCHANGED <<convert, lockVars, leaves, consumed>>

\* The balance is read again under a row lock that is held until the commit.
Approve(c) ==
  LET i == desk[c].of
      l == leaves[i]
      uses == l.type = "CL" IN
  /\ AtDesk(c) = "approve"
  /\ IF uses /\ ~Covered(l.span) THEN UNCHANGED <<leaves, consumed>>
     ELSE /\ leaves' = [leaves EXCEPT ![i].status = "approved",
                          ![i].deducted = IF uses THEN @ + 1 ELSE @]
          /\ consumed' = IF uses THEN consumed + CalendarDays(l.span) ELSE consumed
  /\ desk' = [desk EXCEPT ![c] = FreeDesk]
  /\ UNCHANGED <<convert, lockVars>>

LeavesNext ==
  \/ \E c \in Clerks :
       \/ \E type \in {"CL", "LOP"}, span \in Spans, status \in {"pending", "approved", "rejected"} :
            BeginFile(c, type, span, status)
       \/ File(c)
       \/ \E i \in DOMAIN leaves, decision \in {"approved", "rejected"} : Open(c, i, decision)
       \/ Reject(c) \/ Validate(c) \/ Approve(c)
  \/ LockNext /\ UNCHANGED <<convert, leaves, consumed, desk>>

LeavesSpec == LeavesInit /\ [][LeavesNext]_leaveVars
------------------------------------------------------------------------------
(* Properties *)

\* What the approvals have used: every day of a leave, once for each deduction of it.
Deducted ==
  UNION {{i} \X (1 .. leaves[i].deducted) \X (leaves[i].span[1] .. leaves[i].span[2]) : i \in DOMAIN leaves}

\* However approvals and rejections interleave, the balance is never overdrawn, is
\* used for nothing but approvals, and every leave that an approval left approved has
\* been taken from it at least once.  (Once only is not promised: two clerks who both
\* found the leave pending both deduct.  A leave filed as approved is never deducted.)
BalanceHolds ==
  /\ consumed <= Balance
  /\ consumed = Cardinality(Deducted)
  /\ \A i \in DOMAIN leaves :
       leaves[i].type = "CL" /\ leaves[i].status = "approved" /\ ~leaves[i].direct
         => leaves[i].deducted >= 1
=============================================================================
