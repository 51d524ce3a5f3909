------------------------------- MODULE Payout -------------------------------
(***************************************************************************)
(* The payout of one salary batch through the provider, from the moment    *)
(* its task is with the broker (SalaryBatch) until the provider has        *)
(* reported on every transfer: the Celery tasks (tasks/payout_tasks.py),   *)
(* the provider's ledger, its webhooks (api/webhooks_routes.py) and the    *)
(* status recomputed from the items (services/payout_sync_service.py).     *)
(*                                                                         *)
(* A pass of a worker is ONE database transaction around calls to the      *)
(* provider that no rollback takes back.  It reads the items once, looks   *)
(* for a recorded payout before it pays an item, holds the lock of every   *)
(* item it has written, and commits or loses everything at its end.        *)
(***************************************************************************)
EXTENDS Naturals, Sequences, FiniteSets

CONSTANTS
  Items,         \* salary_batch_items, one per employee paid
  Unbanked,      \* the items without a verified primary account
  Workers,       \* Celery workers of the payouts queue
  NoItem,
  MaxAttempts,   \* max_attempts of _run_payout
  MaxTransfers,  \* bound on the transfers of one item
  Enqueued,      \* tasks sent for the batch: one, or two as SalaryBatch shows
  MaxRetries,    \* bound on the retries waiting at a time
  FaultSets      \* what may happen together of "crash", "error", "network", "hold", "retry"

ASSUME ItemAssumption == Unbanked \subseteq Items /\ NoItem \notin Items
ASSUME BoundAssumption ==
  MaxAttempts \in Nat \ {0} /\ MaxTransfers \in Nat
  /\ Enqueued \in Nat /\ MaxRetries \in Nat

VARIABLES
  batch,      \* salary_batches.status
  item,       \* salary_batch_items: status and attempts
  payout,     \* provider_payouts: the transfer recorded for the item
  ledger,     \* the provider's transfers for each item, oldest first
  heard,      \* events processed (webhook_events)
  published,  \* statuses a payout.completed event exists for (domain_events)
  tasks,      \* tasks the broker has not had acknowledged
  slot,       \* the Redis key payout:process:{batch}
  pass,       \* what every worker is doing
  faults      \* what may happen in this behaviour

vars == <<batch, item, payout, ledger, heard, published, tasks, slot, pass, faults>>
db == <<batch, item, payout, published>>
------------------------------------------------------------------------------
Kinds == {"process", "retry"}
BatchStates == {"payout_in_progress", "paid", "failed"}
ItemStates == {"absent", "pending", "success", "failed", "held"}
TransferStates == {"queued", "processed", "failed", "reversed"}

Item == [status : ItemStates, attempts : 0 .. MaxAttempts]
Absent == [status |-> "absent", attempts |-> 0]
NoPayout == [ref |-> 0, status |-> "none"]
Recorded == [ref : 1 .. MaxTransfers, status : TransferStates] \cup {NoPayout}

\* checked: the item cur is about to be paid, found is what provider_payouts said
\* of it.  concluded: the final status is computed, nothing is committed.
\* broken: the database refused a row, the transaction is lost.
Idle == [pc |-> "idle"]
Pass == [pc : {"run", "checked", "concluded", "broken"}, kind : Kinds,
         todo : SUBSET Items, cur : Items \cup {NoItem}, found : Recorded,
         old : [Items -> Item], mem : [Items -> Item], new : [Items -> Recorded],
         status : BatchStates, wrote : BOOLEAN, anyFailed : BOOLEAN,
         transient : BOOLEAN]

Report == [item : Items, ref : 1 .. MaxTransfers, status : TransferStates]
\* The event id of a webhook is the name of its event: what it reports, not whom.
EventId(r) == r.status

TypeOK ==
  /\ batch \in BatchStates
  /\ item \in [Items -> Item]
  /\ payout \in [Items -> Recorded]
  /\ ledger \in [Items -> Seq(TransferStates)]
  /\ \A i \in Items : Len(ledger[i]) <= MaxTransfers
  /\ heard \subseteq {EventId(r) : r \in Report}
  /\ published \subseteq BatchStates
  /\ tasks["process"] \in 0 .. Enqueued /\ tasks["retry"] \in Nat
  /\ slot \in BOOLEAN
  /\ faults \in FaultSets
  /\ pass \in [Workers -> Pass \cup {Idle}]

Init ==
  /\ batch = "payout_in_progress"
  /\ item = [i \in Items |-> Absent]
  /\ payout = [i \in Items |-> NoPayout]
  /\ ledger = [i \in Items |-> <<>>]
  /\ heard = {}
  /\ published = {}
  /\ tasks = [k \in Kinds |-> IF k = "process" THEN Enqueued ELSE 0]
  /\ slot = FALSE
  /\ pass = [w \in Workers |-> Idle]
  /\ faults \in FaultSets
------------------------------------------------------------------------------
\* Mutant: a transfer the provider has only queued counts as paid.
Mapped_Optimistic(status) ==
  CASE status \in {"queued", "processed"} -> "success"
    [] status \in {"failed", "reversed"} -> "failed"

\* map_provider_status_to_item_status.
Mapped(status) ==
  CASE status = "processed" -> "success"
    [] status \in {"failed", "reversed"} -> "failed"
    [] status = "queued" -> "pending"

\* Mutant: held items do not keep a batch from being paid.
Derived_IgnoreHeld(status, items) ==
  LET seen == {items[i] : i \in Items} IN
  IF "absent" \in seen THEN status
  ELSE IF seen \subseteq {"success", "held"} THEN "paid"
  ELSE IF "failed" \in seen /\ "pending" \notin seen THEN "failed"
  ELSE "payout_in_progress"

\* recompute_batch_status_from_items.
Derived(status, items) ==
  LET seen == {items[i] : i \in Items} IN
  IF seen = {} \/ "absent" \in seen THEN status
  ELSE IF seen = {"success"} THEN "paid"
  ELSE IF "failed" \in seen /\ seen \cap {"pending", "held"} = {} THEN "failed"
  ELSE "payout_in_progress"

StatusOf(items) == [i \in Items |-> items[i].status]

Active(w) == pass[w].pc # "idle"
Running(kind) == {w \in Workers : Active(w) /\ pass[w].kind = kind}

\* The items a pass has changed, and what its own queries see.
Written(p) == {i \in Items : p.mem[i] # p.old[i]}
View(p) == [i \in Items |-> IF i \in Written(p) THEN p.mem[i].status
                                                 ELSE item[i].status]

\* Row locks: nobody else has written the item, or the batch, and not committed.
ItemFree(w, i) == \A v \in Workers \ {w} : Active(v) => i \notin Written(pass[v])
BatchFree(w) == \A v \in Workers \ {w} : Active(v) => ~pass[v].wrote
NoPassHolds(i) ==
  \A v \in Workers : Active(v) => i \notin Written(pass[v]) /\ ~pass[v].wrote

\* Mutant: an attempt is not counted.
Tried_Uncounted(it, status) == [it EXCEPT !.status = status]

\* An item after one more attempt.
Tried(it, status) == [status |-> status, attempts |-> it.attempts + 1]

\* Worker w has dealt with item i.
Done(w, i, status, bad) ==
  [pass[w] EXCEPT !.pc = "run", !.cur = NoItem, !.found = NoPayout, !.todo = @ \ {i},
                  !.mem[i] = Tried(@, status), !.anyFailed = @ \/ bad]
------------------------------------------------------------------------------
(* One pass *)

\* process_salary_batch takes the slot and builds the items, retry_failed_items
\* does neither; _run_payout puts the batch into payout.
Start(w, kind) ==
  LET fresh == kind = "process" /\ \A i \in Items : item[i] = Absent
      loaded == IF fresh
                THEN [i \in Items |-> [status |-> IF i \in Unbanked THEN "failed" ELSE "pending",
                                       attempts |-> 0]]
                ELSE item
  IN
  /\ ~Active(w)
  /\ tasks[kind] > Cardinality(Running(kind))
  /\ batch \in {"payout_in_progress", "failed"}
  /\ kind = "process" => ~slot
  /\ batch # "payout_in_progress" => BatchFree(w)
  /\ slot' = (slot \/ kind = "process")
  /\ pass' = [pass EXCEPT ![w] =
       [pc |-> "run", kind |-> kind, cur |-> NoItem, found |-> NoPayout,
        todo |-> {i \in Items : loaded[i].status # "absent"},
        old |-> item, mem |-> loaded, new |-> [i \in Items |-> NoPayout],
        status |-> "payout_in_progress", wrote |-> batch # "payout_in_progress",
        anyFailed |-> FALSE, transient |-> FALSE]]
  /\ UNCHANGED <<faults, db, ledger, heard, tasks>>

\* The slot is taken, or the batch is paid: the task ends at once.
EndAtOnce(kind) ==
  /\ tasks[kind] > Cardinality(Running(kind))
  /\ (kind = "process" /\ slot) \/ batch = "paid"
  /\ tasks' = [tasks EXCEPT ![kind] = @ - 1]
  /\ UNCHANGED <<faults, db, ledger, heard, slot, pass>>

\* Mutant: one attempt too many.
Exhausted_OffByOne(it) == it.attempts > MaxAttempts \/ it.status = "held"

Exhausted(it) == it.attempts >= MaxAttempts \/ it.status = "held"

\* Success, all attempts used, or held: the item is left alone.
Skip(w, i) ==
  LET p == pass[w] IN
  /\ p.pc = "run" /\ i \in p.todo
  /\ p.mem[i].status = "success" \/ Exhausted(p.mem[i])
  /\ pass' = [pass EXCEPT ![w].todo = @ \ {i},
                          ![w].anyFailed = @ \/ p.mem[i].status # "success"]
  /\ UNCHANGED <<faults, db, ledger, heard, tasks, slot>>

MissingAccount(w, i) ==
  LET p == pass[w] IN
  /\ p.pc = "run" /\ i \in p.todo \cap Unbanked
  /\ p.mem[i].status # "success" /\ ~Exhausted(p.mem[i])
  /\ ItemFree(w, i)
  /\ pass' = [pass EXCEPT ![w] = Done(w, i, "failed", TRUE)]
  /\ UNCHANGED <<faults, db, ledger, heard, tasks, slot>>

\* The query for a recorded payout, before the item is written.
Check(w, i) ==
  LET p == pass[w] IN
  /\ p.pc = "run" /\ i \in p.todo \ Unbanked
  /\ p.mem[i].status # "success" /\ ~Exhausted(p.mem[i])
  /\ pass' = [pass EXCEPT ![w].pc = "checked", ![w].cur = i, ![w].found = payout[i]]
  /\ UNCHANGED <<faults, db, ledger, heard, tasks, slot>>

\* There is one: its status is copied.
CopyRecorded(w) ==
  LET p == pass[w]  status == Mapped(p.found.status) IN
  /\ p.pc = "checked" /\ p.found # NoPayout /\ ItemFree(w, p.cur)
  /\ pass' = [pass EXCEPT ![w] = Done(w, p.cur, status, status = "failed")]
  /\ UNCHANGED <<faults, db, ledger, heard, tasks, slot>>

\* There is none, and writing the attempt has waited for the other passes.
MayPay(w) == pass[w].pc = "checked" /\ pass[w].found = NoPayout
             /\ ItemFree(w, pass[w].cur)

\* evaluate_payout_risk finds a high risk.
Hold(w) ==
  /\ "hold" \in faults
  /\ MayPay(w)
  /\ pass' = [pass EXCEPT ![w] = Done(w, pass[w].cur, "held", TRUE)]
  /\ UNCHANGED <<faults, db, ledger, heard, tasks, slot>>

\* A transfer the provider accepts for item i.
Transfer(i, status) ==
  /\ Len(ledger[i]) < MaxTransfers
  /\ ledger' = [ledger EXCEPT ![i] = Append(@, status)]

\* Mutant: the row is written whether or not the item has one.
Pay_Upsert(w, status) ==
  LET p == pass[w]  i == p.cur
      paid == Done(w, i, Mapped(status), Mapped(status) = "failed") IN
  /\ MayPay(w)
  /\ Transfer(i, status)
  /\ pass' = [pass EXCEPT ![w] =
       [paid EXCEPT !.new[i] = [ref |-> Len(ledger[i]) + 1, status |-> status]]]
  /\ UNCHANGED <<faults, db, heard, tasks, slot>>

\* initiate_payout succeeds; the payout is recorded, unless another pass has
\* committed one (ux_provider_payout_item), and the batch status recomputed before
\* the new status of the item is visible to the query.
Pay(w, status) ==
  LET p == pass[w]  i == p.cur
      paid == Done(w, i, Mapped(status), Mapped(status) = "failed")
      before == [paid EXCEPT !.mem[i].status = p.mem[i].status]
      target == Derived(p.status, View(before)) IN
  /\ MayPay(w)
  /\ target # p.status => BatchFree(w)
  /\ Transfer(i, status)
  /\ pass' = [pass EXCEPT ![w] =
       IF payout[i] # NoPayout THEN [p EXCEPT !.pc = "broken"]
       ELSE [paid EXCEPT !.new[i] = [ref |-> Len(ledger[i]) + 1, status |-> status],
                         !.status = target, !.wrote = @ \/ target # p.status]]
  /\ UNCHANGED <<faults, db, heard, tasks, slot>>

\* The provider answers with an error.
Refuse(w) ==
  /\ MayPay(w)
  /\ pass' = [pass EXCEPT ![w] = Done(w, pass[w].cur, "failed", TRUE)]
  /\ UNCHANGED <<faults, db, ledger, heard, tasks, slot>>

\* The answer is lost, whether or not the provider made the transfer: a timeout or
\* a refused connection is transient, any other exception is not.
LoseAnswer(w, transient) ==
  LET p == pass[w] IN
  /\ "network" \in faults
  /\ MayPay(w)
  /\ Transfer(p.cur, "queued") \/ UNCHANGED ledger
  /\ pass' = [pass EXCEPT ![w] =
       [Done(w, p.cur, "failed", TRUE) EXCEPT !.transient = @ \/ transient]]
  /\ UNCHANGED <<faults, db, heard, tasks, slot>>

\* The last recomputation, and the second look at the items after it.
Conclude(w) ==
  LET p == pass[w]  seen == {View(p)[i] : i \in Items}
      first == Derived(p.status, View(p))
      target == IF first = "payout_in_progress" /\ ~p.anyFailed /\ "failed" \in seen
                THEN "failed" ELSE first IN
  /\ p.pc = "run" /\ p.todo = {}
  /\ target # p.status => BatchFree(w)
  /\ pass' = [pass EXCEPT ![w].pc = "concluded", ![w].status = target,
                          ![w].wrote = @ \/ target # p.status]
  /\ UNCHANGED <<faults, db, ledger, heard, tasks, slot>>

\* The event is new and no error was transient: columns that changed are written.
Commit(w) ==
  LET p == pass[w] IN
  /\ p.pc = "concluded" /\ p.status \notin published /\ ~p.transient
  /\ batch' = IF p.wrote THEN p.status ELSE batch
  /\ item' = [i \in Items |->
       [status |-> IF p.mem[i].status # p.old[i].status THEN p.mem[i].status
                                                        ELSE item[i].status,
        attempts |-> IF p.mem[i].attempts # p.old[i].attempts THEN p.mem[i].attempts
                                                              ELSE item[i].attempts]]
  /\ payout' = [i \in Items |-> IF p.new[i] # NoPayout THEN p.new[i] ELSE payout[i]]
  /\ published' = published \cup {p.status}
  /\ tasks' = [tasks EXCEPT ![p.kind] = @ - 1]
  /\ pass' = [pass EXCEPT ![w] = Idle]
  /\ UNCHANGED <<faults, ledger, heard, slot>>

\* An exception leaves the transaction: everything is rolled back and the slot is
\* given back; Celery runs the task again when the exception is the transient one,
\* which the refusal of a second payout.completed event forestalls.
Rollback(w) ==
  LET p == pass[w] IN
  /\ \/ p.pc = "broken"
     \/ p.pc = "concluded" /\ (p.status \in published \/ p.transient)
     \/ "error" \in faults /\ Active(w)
  /\ tasks' = IF p.pc = "concluded" /\ p.transient /\ p.status \notin published
              THEN tasks ELSE [tasks EXCEPT ![p.kind] = @ - 1]
  /\ slot' = (slot /\ p.kind # "process")
  /\ pass' = [pass EXCEPT ![w] = Idle]
  /\ UNCHANGED <<faults, db, ledger, heard>>

\* Mutant: a killed worker gives the slot back.
Crash_FreeSlot(w) ==
  /\ "crash" \in faults /\ Active(w)
  /\ slot' = FALSE
  /\ pass' = [pass EXCEPT ![w] = Idle]
  /\ UNCHANGED <<faults, db, ledger, heard, tasks>>

\* The worker is killed: the broker still has the task, Redis still has the slot,
\* which outlives the delivery of the task to another worker.
Crash(w) ==
  /\ "crash" \in faults /\ Active(w)
  /\ pass' = [pass EXCEPT ![w] = Idle]
  /\ UNCHANGED <<faults, db, ledger, heard, tasks, slot>>

\* POST retry-failed.
RequestRetry ==
  /\ "retry" \in faults
  /\ tasks["retry"] < MaxRetries
  /\ tasks' = [tasks EXCEPT !["retry"] = @ + 1]
  /\ UNCHANGED <<faults, db, ledger, heard, slot, pass>>
------------------------------------------------------------------------------
(* The provider *)

\* A queued transfer is processed or fails; a processed one may be reversed.
Settle(i, k) ==
  /\ \E status \in TransferStates :
       /\ \/ ledger[i][k] = "queued" /\ status \in {"processed", "failed"}
          \/ ledger[i][k] = "processed" /\ status = "reversed"
       /\ ledger' = [ledger EXCEPT ![i][k] = status]
  /\ UNCHANGED <<faults, db, heard, tasks, slot, pass>>

\* The reports the provider has sent, and may deliver in any order and repeat.
Sent == {r \in Report :
  /\ r.ref <= Len(ledger[r.item])
  /\ \/ r.status \in {"processed", "failed", "reversed"}
        /\ r.status = ledger[r.item][r.ref]
     \/ r.status = "processed" /\ ledger[r.item][r.ref] = "reversed"}

\* sync_provider_payout_to_batch: the payout, its item, and the batch recomputed
\* before the item is written.
Sync(i, status) ==
  /\ payout' = [payout EXCEPT ![i].status = status]
  /\ item' = [item EXCEPT ![i].status = Mapped(status)]
  /\ batch' = Derived(batch, StatusOf(item))

\* razorpayx_webhook, for an event it has not processed; a payout it does not find
\* is passed over and the event counts as processed.
Webhook(r) ==
  /\ r \in Sent
  /\ EventId(r) \notin heard
  /\ IF payout[r.item].ref = r.ref THEN NoPassHolds(r.item) /\ Sync(r.item, r.status)
                                   ELSE UNCHANGED <<payout, item, batch>>
  /\ heard' = heard \cup {EventId(r)}
  /\ UNCHANGED <<faults, published, ledger, tasks, slot, pass>>

\* banking.recover_stuck_batch asks for the status of every recorded payout.  The
\* item it comes to last is the one the last recomputation does not see.
Recover ==
  LET known == {i \in Items : payout[i] # NoPayout}
      now(i) == ledger[i][payout[i].ref]
      synced == [i \in Items |-> IF i \in known THEN Mapped(now(i)) ELSE item[i].status]
  IN \E last \in known :
  /\ \A i \in known : NoPassHolds(i)
  /\ payout' = [i \in Items |-> IF i \in known THEN [payout[i] EXCEPT !.status = now(i)]
                                               ELSE payout[i]]
  /\ item' = [i \in Items |-> [item[i] EXCEPT !.status = synced[i]]]
  /\ batch' = Derived(batch, [synced EXCEPT ![last] = item[last].status])
  /\ UNCHANGED <<faults, published, ledger, heard, tasks, slot, pass>>
------------------------------------------------------------------------------
Work(w) ==
  \/ \E kind \in Kinds : Start(w, kind)
  \/ \E i \in Items : Skip(w, i) \/ MissingAccount(w, i) \/ Check(w, i)
  \/ CopyRecorded(w) \/ Hold(w) \/ Refuse(w)
  \/ \E status \in {"queued", "processed"} : Pay(w, status)
  \/ \E transient \in BOOLEAN : LoseAnswer(w, transient)
  \/ Conclude(w) \/ Commit(w) \/ Rollback(w)

Provider ==
  \/ \E i \in Items : \E k \in DOMAIN ledger[i] : Settle(i, k)
  \/ \E r \in Report : Webhook(r)

Next ==
  \/ \E w \in Workers : Work(w) \/ Crash(w)
  \/ \E kind \in Kinds : EndAtOnce(kind)
  \/ RequestRetry \/ Provider \/ Recover

Spec == Init /\ [][Next]_vars

\* A live worker goes on with its pass and takes the tasks of its queue.
FairSpec == Spec /\ \A w \in Workers : WF_vars(Work(w))
------------------------------------------------------------------------------
(* What holds whatever fails and however passes and reports interleave. *)

\* A batch is called paid only when every employee's payout is recorded: a pass
\* with a stale copy of the items, a retry or a recomputation from a webhook never
\* completes a batch somebody of which was not paid.
PaidMeansRecorded == batch = "paid" => \A i \in Items : payout[i] # NoPayout

\* What the tables say of a payout was true at the provider: the transfer exists,
\* and one recorded as processed was processed, even when reports come late, twice
\* or in the wrong order, and an item marked success has such a payout.
Happened(status) == CASE status = "queued" -> {"queued"}
                      [] status = "processed" -> {"queued", "processed"}
                      [] status = "failed" -> {"queued", "failed"}
                      [] status = "reversed" -> {"queued", "processed", "reversed"}
RecordedHappened ==
  \A i \in Items :
    /\ payout[i] # NoPayout =>
         /\ payout[i].ref <= Len(ledger[i])
         /\ payout[i].status \in Happened(ledger[i][payout[i].ref])
    /\ item[i].status = "success" =>
         /\ payout[i] # NoPayout
         /\ "processed" \in Happened(ledger[i][payout[i].ref])

\* A recorded payout keeps its transfer: no later pass replaces it, also when two
\* passes pay the same item at the same time.
RecordKept ==
  [][\A i \in Items : payout[i] # NoPayout => payout'[i].ref = payout[i].ref]_vars

------------------------------------------------------------------------------
(* What holds while nobody asks for a retry, no answer is lost and no exception  *)
(* ends a pass.                                                                  *)

\* models/provider_models.py:34: an item has one payout.  The provider makes one
\* transfer for it, also when the task was sent twice, workers are killed and tasks
\* are delivered again.
OneTransfer == \A i \in Items : Len(ledger[i]) <= 1

\* A killed worker has left the slot behind, and nobody will run the task.
Orphaned == slot /\ Running("process") = {} /\ \A i \in Items : item[i] = Absent

\* A task that was sent is carried out: every item comes to be tried, with or without
\* an account, held or refused, unless a killed worker leaves the slot behind, which
\* the redelivered task takes for a duplicate (tasks/payout_tasks.py:255).
Carried == <>((\A i \in Items : item[i].attempts > 0) \/ Orphaned)
=============================================================================
