---------------------------- MODULE BankAccounts ----------------------------
(* The bank accounts of employees and the bank files of one approved batch.   *)
(* Accounts are added and judged while files are written.  The first file     *)
(* chooses an account for every payee and keeps the choice as the items of    *)
(* the batch, which every later file takes as they are; the code of an        *)
(* account's branch is read anew for each.  A file is one transaction under   *)
(* the batch's advisory lock: there is one at a time.                         *)
(* Amounts are left out: the entries of the run are frozen by then.           *)
EXTENDS Naturals, Sequences, FiniteSets, SequencesExt, FiniteSetsExt

CONSTANTS
  Payees,      \* employees whose net pay is positive
  Starts,      \* the days an account may start ...
  PeriodEnd,   \* ... and the last day of the pay period
  Branches,    \* bank branches
  Ifsc,        \* well-formed IFSC codes
  Malformed,   \* any other code, or none
  Officers,    \* requests that judge an account, at a time
  MaxAdded,    \* bound on the accounts
  MaxVerdicts, \* bound on the judgements
  MaxFilings,  \* bound on the requests for a bank file
  MaxRecoded   \* bound on the edits of branches

ASSUME BankingAssumption ==
  /\ Starts \subseteq Nat /\ PeriodEnd \in Nat
  /\ {MaxAdded, MaxVerdicts, MaxFilings, MaxRecoded} \subseteq Nat /\ Malformed \notin Ifsc

\* An account is known by its payee and its start (ux_emp_bank_effective_from).
AccountId == Payees \X Starts
NoAccount == [status |-> "none"]
Account == [primary : BOOLEAN, sound : BOOLEAN, branch : Branches,
            status : {"pending_verification", "verified", "rejected"}]

VARIABLES
  account, \* the table of accounts
  codes,   \* the codes every branch has had, the last is the one it has
  verdict, \* the judgement each officer is about to commit
  batchItems,   \* the account of each payee's item, {} when it has none; <<>> before they exist
  filing,  \* the bank file being written
  bankFiles, \* every file: its lines, and how many codes the branches had had before and after
  vetted,  \* accounts that were verified at some time
  did      \* how many requests of each kind there were

bankVars == <<account, codes, verdict, batchItems, filing, bankFiles, vetted, did>>

NoVerdict == [on |-> <<>>]
NotFiling == [pc |-> "idle"]

BankInit ==
  /\ account = [a \in AccountId |-> NoAccount]
  /\ codes \in [Branches -> {<<c>> : c \in Ifsc}] /\ vetted = {}
  /\ \A b, c \in Branches : codes[b] = codes[c] => b = c
  /\ verdict = [o \in Officers |-> NoVerdict]
  /\ batchItems = <<>> /\ bankFiles = <<>> /\ filing = NotFiling
  /\ did = [add |-> 0, judge |-> 0, file |-> 0, recode |-> 0]

Counted(kind) == did' = [did EXCEPT ![kind] = @ + 1]
------------------------------------------------------------------------------
\* create_employee_bank_account: a second account with the same start is refused, by
\* the query (same branch and digits) or by the unique key.  The number may be too short.
AddAccount(a, primary, sound, branch) ==
  /\ did.add < MaxAdded /\ account[a] = NoAccount
  /\ account' = [account EXCEPT ![a] =
       [primary |-> primary, sound |-> sound, branch |-> branch,
        status |-> "pending_verification"]]
  /\ Counted("add")
  /\ UNCHANGED <<codes, verdict, batchItems, filing, bankFiles, vetted>>

\* verify_employee_bank_account reads the account ...
Judge(o, a, status) ==
  /\ did.judge < MaxVerdicts /\ verdict[o] = NoVerdict /\ account[a] # NoAccount
  /\ verdict' = [verdict EXCEPT ![o] = [on |-> a, status |-> status, read |-> account[a].status]]
  /\ Counted("judge")
  /\ UNCHANGED <<account, codes, batchItems, filing, bankFiles, vetted>>

\* ... and writes the status if it differs from the one it read.
CommitVerdict(o) ==
  LET v == verdict[o] IN
  /\ v # NoVerdict
  /\ IF v.status = v.read THEN UNCHANGED <<account, vetted>>
     ELSE /\ account' = [account EXCEPT ![v.on].status = v.status]
          /\ vetted' = IF v.status = "verified" THEN vetted \cup {v.on} ELSE vetted
  /\ verdict' = [verdict EXCEPT ![o] = NoVerdict]
  /\ UNCHANGED <<codes, batchItems, filing, bankFiles, did>>

\* update_branch takes any code but another branch's (ux_bank_branches_ifsc_code).
Recode(b, code) ==
  /\ did.recode < MaxRecoded /\ Counted("recode")
  /\ code # Last(codes[b]) /\ \A c \in Branches : code = Malformed \/ Last(codes[c]) # code
  /\ codes' = [codes EXCEPT ![b] = Append(@, code)]
  /\ UNCHANGED <<account, verdict, batchItems, filing, bankFiles, vetted>>
------------------------------------------------------------------------------
\* Mutant: the items are built for every file.
Existing_Never == <<>>

\* The items of the batch, when it has some.
Existing == batchItems

CodesHad == [b \in Branches |-> Len(codes[b])]

\* generate_bank_file has the lock: it takes the items there are, or starts to build them.
BeginFiling ==
  /\ filing = NotFiling /\ did.file < MaxFilings
  /\ filing' = [pc |-> "build", lines |-> {}, bad |-> FALSE, held |-> {}, since |-> CodesHad,
                chosen |-> IF Existing = <<>> THEN [e \in {} |-> {}] ELSE Existing]
  /\ Counted("file")
  /\ UNCHANGED <<account, codes, verdict, batchItems, bankFiles, vetted>>

\* Where the money of e may go: primary, verified, started by the end of the period.
Payable(e) ==
  {s \in Starts : /\ s <= PeriodEnd /\ account[<<e, s>>] # NoAccount
                  /\ account[<<e, s>>].primary /\ account[<<e, s>>].status = "verified"}

\* ensure_batch_items_from_payroll looks for the payee's newest account.
Choose(e) ==
  /\ filing.pc = "build" /\ e \notin DOMAIN filing.chosen
  /\ filing' = [filing EXCEPT !.chosen = [d \in DOMAIN @ \cup {e} |->
       IF d # e THEN filing.chosen[d] ELSE IF Payable(e) = {} THEN {} ELSE {Max(Payable(e))}]]
  /\ UNCHANGED <<account, codes, verdict, batchItems, bankFiles, vetted, did>>

\* db.get(BankBranch): the object of the last line if that was of this branch, else the
\* row as it is now.
BranchOf(a) ==
  IF \E h \in filing.held : h.branch = account[a].branch
  THEN CHOOSE h \in filing.held : h.branch = account[a].branch
  ELSE [branch |-> account[a].branch, code |-> Last(codes[account[a].branch])]

\* One payable item after the other: the account needs a number and a well-formed IFSC.
WriteLine(e) ==
  /\ filing.pc = "build" /\ DOMAIN filing.chosen = Payees
  /\ \A l \in filing.lines : l.to[1] # e
  /\ \E s \in filing.chosen[e] :
       LET b == BranchOf(<<e, s>>) IN
       filing' = [filing EXCEPT !.lines = @ \cup {[to |-> <<e, s>>, code |-> b.code]},
         !.held = {b}, !.bad = @ \/ b.code \notin Ifsc \/ ~account[<<e, s>>].sound]
  /\ UNCHANGED <<account, codes, verdict, batchItems, bankFiles, vetted, did>>

\* Every payable item has its line.
Complete == /\ DOMAIN filing.chosen = Payees
            /\ \A e \in Payees : filing.chosen[e] # {} => \E l \in filing.lines : l.to[1] = e

\* The file, its artifact and new items are committed together.
CommitFiling ==
  /\ filing.pc = "build" /\ Complete /\ filing.lines # {} /\ ~filing.bad
  /\ batchItems' = filing.chosen
  /\ bankFiles' = Append(bankFiles, [lines |-> filing.lines, since |-> filing.since, till |-> CodesHad])
  /\ filing' = NotFiling
  /\ UNCHANGED <<account, codes, verdict, vetted, did>>

\* No payable line, a bad one, or the death of the process: everything is rolled back.
EndFiling ==
  /\ filing # NotFiling /\ filing' = NotFiling
  /\ UNCHANGED <<account, codes, verdict, batchItems, bankFiles, vetted, did>>

BankNext ==
  \/ \E a \in AccountId, primary, sound \in BOOLEAN, b \in Branches :
       AddAccount(a, primary, sound, b)
  \/ \E o \in Officers, a \in AccountId, s \in {"verified", "rejected"} : Judge(o, a, s)
  \/ \E o \in Officers : CommitVerdict(o)
  \/ \E b \in Branches, code \in Ifsc \cup {Malformed} : Recode(b, code)
  \/ \E e \in Payees : Choose(e) \/ WriteLine(e)
  \/ BeginFiling \/ CommitFiling \/ EndFiling

BankSpec == BankInit /\ [][BankNext]_bankVars
------------------------------------------------------------------------------
\* The types of the variables.
BankTypeOK ==
  /\ account \in [AccountId -> Account \cup {NoAccount}]
  /\ codes \in [Branches -> Seq(Ifsc \cup {Malformed})] /\ vetted \subseteq AccountId
  /\ \A k \in DOMAIN bankFiles : bankFiles[k].lines \subseteq [to : AccountId, code : Ifsc]

PaidInto(file) == {l.to : l \in file.lines}

\* However accounts are added and judged and branches edited meanwhile, all bank files
\* of a batch pay the same people into the same accounts, everybody once, and only into
\* an account of their own that is primary, had started and was verified by an officer;
\* and under the same IFSC, unless its branch was edited after the earlier of the two
\* files was begun and before the later one was committed.
FilesAgree ==
  \A j, k \in DOMAIN bankFiles : j <= k =>
    LET first == bankFiles[j]
        later == bankFiles[k]
    IN /\ PaidInto(first) = PaidInto(later) /\ PaidInto(later) \subseteq vetted
       /\ \A l, n \in later.lines : l.to[1] = n.to[1] => l = n
       /\ \A l \in later.lines : account[l.to].primary /\ l.to[2] <= PeriodEnd
       /\ \A l \in first.lines, n \in later.lines :
            LET b == account[l.to].branch IN
            account[n.to].branch = b /\ first.since[b] = later.till[b] => l.code = n.code
=============================================================================
