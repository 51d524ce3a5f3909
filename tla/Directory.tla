------------------------------ MODULE Directory ------------------------------
(* The employees of an organisation: clerks create, change and delete them one *)
(* by one, or upload a file of rows.  A request reads (the rows of a file one  *)
(* after the other), and commits once.  Nothing is flushed before that commit, *)
(* so that no read sees what the request itself is about to store.             *)
(* External: payroll runs and salary batches, which refer to employees.        *)
EXTENDS Naturals, Sequences, FiniteSets, SequencesExt, Functions

CONSTANTS
  Clerks,    \* requests being served at a time
  Codes, Emails,  \* employee codes and e-mail addresses; Null is none
  Null,
  Files,     \* what may be uploaded: sequences of rows
  MaxHired,  \* bound on the requests that store employees
  MaxChanged \* bound on the other requests

Row == [code : Codes \cup {Null}, email : Emails \cup {Null}, fit : BOOLEAN, active : BOOLEAN]

ASSUME DirectoryAssumption ==
  /\ Null \notin Codes \cup Emails /\ {MaxHired, MaxChanged} \subseteq Nat
  /\ \A f \in Files : Range(f) \subseteq Row

VARIABLES
  employees, \* the table: [from, code, email, active], from naming the request and row
  paid,      \* employees with payroll entries ...
  booked,    \* ... and with items of a salary batch, by from
  clerk,     \* the request each clerk is being served
  uploads,   \* how every upload ended, and the rows it counted as inserted
  hired,     \* every employee that was ever stored, by from
  served      \* how many requests of each kind were made

staffVars == <<employees, paid, booked, clerk, uploads, hired, served>>

NotServed == [pc |-> "idle"]

DirectoryInit ==
  /\ employees = {} /\ paid = {} /\ booked = {} /\ hired = {}
  /\ clerk = [c \in Clerks |-> NotServed]
  /\ uploads = <<>> /\ served = [hire |-> 0, change |-> 0]
------------------------------------------------------------------------------
Employee(id, row) == [from |-> id, code |-> row.code, email |-> row.email, active |-> row.active]

\* The unique keys of the table, which nulls never offend.
Clash(news, olds) ==
  \E e \in news, d \in news \cup olds :
    /\ e # d
    /\ \/ e.code = d.code /\ e.code # Null
       \/ e.email = d.email /\ e.email # Null

\* create_employee_with_auth, up to its commit: a committed address is refused.  The
\* row is active unless the request says otherwise.
BeginCreate(c) ==
  \E code \in Codes \cup {Null}, email \in Emails :
    /\ clerk[c].pc = "idle" /\ served.hire < MaxHired
    /\ \A e \in employees : e.email # email
    /\ served' = [served EXCEPT !.hire = @ + 1]
    /\ clerk' = [clerk EXCEPT ![c] =
                   [pc |-> "create", new |-> Employee(<<served.hire + 1, 1>>,
                      [code |-> code, email |-> email, active |-> TRUE])]]
    /\ UNCHANGED <<employees, paid, booked, uploads, hired>>

\* A clash is an error nobody catches.
Create(c) ==
  /\ clerk[c].pc = "create"
  /\ LET new == clerk[c].new IN
     IF Clash({new}, employees) THEN UNCHANGED <<employees, hired>>
     ELSE employees' = employees \cup {new} /\ hired' = hired \cup {new.from}
  /\ clerk' = [clerk EXCEPT ![c] = NotServed]
  /\ UNCHANGED <<paid, booked, uploads, served>>

\* bulk_upload_employees.  (is_setup_complete, which it requires, once true stays true.)
BeginUpload(c) ==
  \E f \in Files :
    /\ clerk[c].pc = "idle" /\ served.hire < MaxHired
    /\ served' = [served EXCEPT !.hire = @ + 1]
    /\ clerk' = [clerk EXCEPT ![c] = [pc |-> "rows", id |-> served.hire + 1, file |-> f,
                                      next |-> 1, pending |-> {}]]
    /\ UNCHANGED <<employees, paid, booked, uploads, hired>>

\* One row: its code must not be committed already - a row without a code is a
\* duplicate of any employee without one - and it must pass the schema.
Accepted(row) == (\A e \in employees : e.code # row.code) /\ row.fit

\* Mutant: every row is committed as it is read.
ReadRow_Commits(c) ==
  LET s == clerk[c]
      row == s.file[s.next]
      new == Employee(<<s.id, s.next>>, row) IN
  /\ s.pc = "rows" /\ s.next <= Len(s.file)
  /\ clerk' = [clerk EXCEPT ![c].next = @ + 1,
                            ![c].pending = IF Accepted(row) THEN @ \cup {new} ELSE @]
  /\ IF Accepted(row) /\ ~Clash({new}, employees)
     THEN employees' = employees \cup {new} /\ hired' = hired \cup {new.from}
     ELSE UNCHANGED <<employees, hired>>
  /\ UNCHANGED <<paid, booked, uploads, served>>

ReadRow(c) ==
  LET s == clerk[c]
      row == s.file[s.next] IN
  /\ s.pc = "rows" /\ s.next <= Len(s.file)
  /\ clerk' = [clerk EXCEPT ![c].next = @ + 1,
                 ![c].pending = IF Accepted(row) THEN @ \cup {Employee(<<s.id, s.next>>, row)} ELSE @]
  /\ UNCHANGED <<employees, paid, booked, uploads, hired, served>>

\* The one commit of an upload; one clash loses every row.
StoreFile(c) ==
  LET s == clerk[c]
      lost == Clash(s.pending, employees) IN
  /\ s.pc = "rows" /\ s.next > Len(s.file)
  /\ IF lost THEN UNCHANGED <<employees, hired>>
     ELSE /\ employees' = employees \cup s.pending
          /\ hired' = hired \cup {e.from : e \in s.pending}
  /\ uploads' = Append(uploads, [id |-> s.id, how |-> IF lost THEN "error" ELSE "answered",
                                 inserted |-> Cardinality(s.pending)])
  /\ clerk' = [clerk EXCEPT ![c] = NotServed]
  /\ UNCHANGED <<paid, booked, served>>

\* update_employee and delete_employee_by_id load the row ...
Open(c, pc) ==
  \E e \in employees :
    /\ clerk[c].pc = "idle" /\ served.change < MaxChanged
    /\ served' = [served EXCEPT !.change = @ + 1]
    /\ clerk' = [clerk EXCEPT ![c] = [pc |-> pc, of |-> e]]
    /\ UNCHANGED <<employees, paid, booked, uploads, hired>>

Current(id) == {e \in employees : e.from = id}

\* ... and write the columns they change of it.  A row that is gone meanwhile is an
\* error, and so is a code or an address that somebody else has.
Update(c) ==
  \E code \in Codes \cup {Null}, email \in Emails \cup {Null}, active \in BOOLEAN :
    LET old == Current(clerk[c].of.from)
        new == {[e EXCEPT !.code = IF clerk[c].of.code = code THEN @ ELSE code,
                          !.email = IF clerk[c].of.email = email THEN @ ELSE email,
                          !.active = IF clerk[c].of.active = active THEN @ ELSE active] : e \in old} IN
    /\ clerk[c].pc = "update"
    /\ employees' = IF Clash(new, employees \ old) THEN employees ELSE (employees \ old) \cup new
    /\ clerk' = [clerk EXCEPT ![c] = NotServed]
    /\ UNCHANGED <<paid, booked, uploads, hired, served>>

\* Bank items keep their employee; payroll entries, of locked runs as well, go with it.
Delete(c) ==
  LET id == clerk[c].of.from IN
  /\ clerk[c].pc = "delete"
  /\ IF id \in booked THEN UNCHANGED <<employees, paid>>
     ELSE employees' = employees \ Current(id) /\ paid' = paid \ {id}
  /\ clerk' = [clerk EXCEPT ![c] = NotServed]
  /\ UNCHANGED <<booked, uploads, hired, served>>

\* A payroll run makes entries for the active employees that have a salary structure,
\* and skips the others; a batch has items for some of them.
Pay ==
  /\ \E who \in SUBSET {e.from : e \in {d \in employees : d.active}} :
       ~(who \subseteq paid) /\ paid' = paid \cup who
  /\ UNCHANGED <<employees, booked, clerk, uploads, hired, served>>

Book ==
  /\ \E id \in paid \ booked : booked' = booked \cup {id}
  /\ UNCHANGED <<employees, paid, clerk, uploads, hired, served>>

DirectoryNext ==
  \/ \E c \in Clerks :
       \/ BeginCreate(c) \/ Create(c)
       \/ BeginUpload(c) \/ ReadRow(c) \/ StoreFile(c)
       \/ (\E pc \in {"update", "delete"} : Open(c, pc)) \/ Update(c) \/ Delete(c)
  \/ Pay \/ Book

DirectorySpec == DirectoryInit /\ [][DirectoryNext]_staffVars
------------------------------------------------------------------------------
DirectoryTypeOK ==
  /\ \A e \in employees : e.code \in Codes \cup {Null} /\ e.email \in Emails \cup {Null}
  /\ booked \subseteq hired /\ paid \subseteq hired
  /\ \A c \in Clerks : clerk[c].pc \in {"idle", "create", "rows", "update", "delete"}

\* An upload that answers has stored exactly the rows it counted, and one that fails
\* has stored none of them, whatever other clerks store between its reading and its
\* commit; and no code or address is held twice.
UploadsWhole ==
  /\ \A i \in DOMAIN uploads :
       LET u == uploads[i] IN
       Cardinality({id \in hired : id[1] = u.id}) = IF u.how = "answered" THEN u.inserted ELSE 0
  /\ \A c \in Clerks : clerk[c].pc = "rows" => \A id \in hired : id[1] # clerk[c].id
  /\ ~Clash(employees, {})
=============================================================================
