----------------------------- MODULE MCServices -----------------------------
(* The outbox of events, the store of answers, the set-up of an organisation  *)
(* and its directory of employees on small instances.  They share nothing;    *)
(* a behaviour is about one of them, as focus says.                           *)
EXTENDS EventOutbox, IdempotentCalls, OrgSetup, Directory, TLC

CONSTANTS a1, a2, s1, s2

VARIABLE focus

MCSections == [mode |-> "payroll", rounding |-> "payroll", weekoff |-> "attendance"]

Line(code, email, fit, active) == [code |-> code, email |-> email, fit |-> fit, active |-> active]

\* Two good rows, one inactive; rows without codes; one address twice; one code
\* twice, the first time in a row that does not pass.
MCFiles ==
  {<<Line("x", "m", TRUE, TRUE), Line("y", "n", TRUE, FALSE)>>,
   <<Line(Null, "m", TRUE, TRUE), Line(Null, Null, TRUE, TRUE)>>,
   <<Line("x", "m", TRUE, TRUE), Line("y", "m", TRUE, TRUE)>>,
   <<Line("x", Null, FALSE, TRUE), Line("x", "n", TRUE, TRUE)>>}

MCInit ==
  /\ focus \in {"events", "calls", "setup", "staff"}
  /\ OutboxInit /\ CallsInit /\ SetupInit /\ DirectoryInit
  /\ focus = "setup" \/ org.engine = "none"

\* Administrators are interchangeable: a request goes to the first that is free.
FirstFree == admin[a1] = NoRequest => admin'[a2].id \in {0, admin[a2].id}

MCNext ==
  \/ focus = "events" /\ OutboxNext /\ UNCHANGED <<callVars, setupVars, staffVars, focus>>
  \/ focus = "calls" /\ CallsNext /\ UNCHANGED <<outboxVars, setupVars, staffVars, focus>>
  \/ focus = "setup" /\ SetupNext /\ FirstFree
     /\ UNCHANGED <<outboxVars, callVars, staffVars, focus>>
  \/ focus = "staff" /\ DirectoryNext /\ UNCHANGED <<outboxVars, callVars, setupVars, focus>>

MCSpec ==
  MCInit /\ [][MCNext]_<<outboxVars, callVars, setupVars, staffVars, focus>> /\ OutboxFairness
------------------------------------------------------------------------------
\* The types of the four.
ServicesTypeOK == OutboxTypeOK /\ CallsTypeOK /\ SetupTypeOK /\ DirectoryTypeOK
=============================================================================
