---------------------------- MODULE PayoutProofs ----------------------------
(***************************************************************************)
(* Theorems about Payout, for any items, workers, bounds and faults.       *)
(***************************************************************************)
EXTENDS Payout, FiniteSetTheorems, TLAPS

(* The inductive invariant.  Its parts on tables and on passes take what   *)
(* they are about as arguments: a pass is the same whatever the tables do. *)

\* The transfer a row records exists, and its status was once that of the transfer.
Tells(rec, transfers) ==
  /\ rec.ref \in 1 .. Len(transfers)
  /\ rec.status \in Happened(transfers[rec.ref])

\* The n-th transfer was processed.
Succeeded(transfers, n) ==
  n \in 1 .. Len(transfers) /\ "processed" \in Happened(transfers[n])

Types ==
  /\ batch \in BatchStates
  /\ item \in [Items -> Item]
  /\ payout \in [Items -> Recorded]
  /\ ledger \in [Items -> Seq(TransferStates)]
  /\ \A i \in Items : Len(ledger[i]) <= MaxTransfers
  /\ heard \subseteq {EventId(r) : r \in Report}
  /\ published \subseteq BatchStates
  /\ tasks \in [Kinds -> Nat] /\ tasks["process"] <= Enqueued
  /\ slot \in BOOLEAN
  /\ faults \in FaultSets
  /\ pass \in [Workers -> Pass \cup {Idle}]

\* The committed rows tell of what happened.
Rows ==
  \A i \in Items :
    /\ item[i].status = "absent" => item[i] = Absent
    /\ payout[i] # NoPayout => Tells(payout[i], ledger[i])
    /\ item[i].status = "success" =>
         payout[i] # NoPayout /\ Succeeded(ledger[i], payout[i].ref)

\* What a pass has in memory, by itself.
Own(p) ==
  /\ p \in Pass
  /\ p.pc = "checked" =>
       /\ p.cur \in p.todo \ Unbanked
       /\ p.mem[p.cur].status # "success" /\ ~Exhausted(p.mem[p.cur])
  /\ \A i \in Items :
       /\ p.mem[i].attempts >= p.old[i].attempts
       /\ p.old[i].status = "success" \/ p.mem[i].status = "absent" => p.mem[i] = p.old[i]
       /\ p.old[i].status = "absent" => p.old[i] = Absent
       /\ p.new[i] # NoPayout => p.mem[i].attempts > p.old[i].attempts
       /\ p.kind = "retry" /\ p.old[i] = Absent => p.mem[i] = Absent /\ i \notin p.todo

\* What a pass will commit agrees with the tables and the provider, however long ago
\* it read them.
Backed(p, it, pay, led) ==
  /\ \A i \in Items :
       /\ p.old[i].status # "absent" => it[i].status # "absent"
       /\ p.new[i] # NoPayout => pay[i] = NoPayout /\ Tells(p.new[i], led[i])
       /\ p.mem[i].status = "success" /\ p.old[i].status # "success" =>
            \/ p.new[i] # NoPayout /\ Succeeded(led[i], p.new[i].ref)
            \/ pay[i] # NoPayout /\ Succeeded(led[i], pay[i].ref)
       /\ p.status = "paid" => p.new[i] # NoPayout \/ pay[i] # NoPayout
  /\ p.pc = "checked" /\ p.found # NoPayout =>
       /\ pay[p.cur] # NoPayout /\ pay[p.cur].ref = p.found.ref
       /\ Tells(p.found, led[p.cur])

Passes == \A w \in Workers : Active(w) => Own(pass[w]) /\ Backed(pass[w], item, payout, ledger)

\* Row locks: no two passes have written the same item.
OneWriter ==
  \A v, w \in Workers : v # w /\ Active(v) /\ Active(w) =>
    Written(pass[v]) \cap Written(pass[w]) = {}

\* The slot keeps the passes that may build the items apart.
SlotHeld ==
  \A v, w \in Workers : Active(v) /\ pass[v].kind = "process" =>
    slot /\ (Active(w) /\ pass[w].kind = "process" => v = w)

\* Every pass has a task of its own that the broker still holds.
TasksHeld ==
  \A kind \in Kinds :
    IsFiniteSet(Running(kind)) /\ Cardinality(Running(kind)) <= tasks[kind]

IInv == Types /\ Rows /\ PaidMeansRecorded /\ Passes /\ OneWriter /\ SlotHeld /\ TasksHeld

\* While nobody retries, no answer is lost and no exception ends a pass, there is one
\* pass: it has paid no item it has still to do, and nothing is committed before its end.
Quiet == faults \cap {"error", "network", "retry"} = {}
OnePass ==
  Quiet =>
    /\ tasks["retry"] = 0
    /\ \A i \in Items : Len(ledger[i]) <= 1
    /\ ~slot => \A i \in Items : ledger[i] = <<>>
    /\ ~slot \/ (\E w \in Workers : Active(w)) =>
         published = {} /\ \A i \in Items : payout[i] = NoPayout
    /\ \A w \in Workers : Active(w) =>
         /\ pass[w].kind = "process" /\ pass[w].pc # "broken" /\ ~pass[w].transient
         /\ \A i \in pass[w].todo : ledger[i] = <<>>
------------------------------------------------------------------------------
(* Facts about the operators. *)

\* Transfers are added, and what happened to one is not undone.
GrowsTo(led, later) ==
  \A i \in Items : \A n \in 1 .. Len(led[i]) :
    n \in 1 .. Len(later[i]) /\ Happened(led[i][n]) \subseteq Happened(later[i][n])

LEMMA GrowsReflexive ==
  ASSUME NEW led PROVE GrowsTo(led, led)
BY DEF GrowsTo

LEMMA MappedType ==
  ASSUME NEW status \in TransferStates
  PROVE  /\ Mapped(status) \in {"pending", "success", "failed"}
         /\ Mapped(status) = "success" => status = "processed"
BY DEF Mapped, TransferStates

LEMMA DerivedType ==
  ASSUME NEW status \in BatchStates, NEW items
  PROVE  Derived(status, items) \in BatchStates
BY DEF Derived, BatchStates

\* A batch becomes paid only when every item seen is a success.
LEMMA DerivedPaid ==
  ASSUME NEW status, NEW items, Derived(status, items) = "paid", status # "paid"
  PROVE  \A i \in Items : items[i] = "success"
BY DEF Derived

LEMMA TransferEffect ==
  ASSUME Types, NEW i \in Items, NEW status \in TransferStates, Transfer(i, status)
  PROVE  /\ ledger' \in [Items -> Seq(TransferStates)]
         /\ \A j \in Items : Len(ledger'[j]) <= MaxTransfers
         /\ GrowsTo(ledger, ledger')
         /\ Len(ledger'[i]) = Len(ledger[i]) + 1 /\ Len(ledger[i]) + 1 \in 1 .. MaxTransfers
         /\ ledger'[i][Len(ledger[i]) + 1] = status
         /\ \A j \in Items \ {i} : ledger'[j] = ledger[j]
<1>1. ledger[i] \in Seq(TransferStates) /\ Len(ledger[i]) \in Nat /\ MaxTransfers \in Nat
  BY BoundAssumption DEF Types
<1>2. /\ ledger' = [ledger EXCEPT ![i] = Append(ledger[i], status)]
      /\ Len(ledger[i]) < MaxTransfers
  BY DEF Transfer
<1>3. /\ Append(ledger[i], status) \in Seq(TransferStates)
      /\ Len(Append(ledger[i], status)) = Len(ledger[i]) + 1
      /\ \A n \in 1 .. Len(ledger[i]) : Append(ledger[i], status)[n] = ledger[i][n]
      /\ Append(ledger[i], status)[Len(ledger[i]) + 1] = status
  BY <1>1
<1>4. /\ ledger'[i] = Append(ledger[i], status)
      /\ \A j \in Items \ {i} : ledger'[j] = ledger[j]
  BY <1>2 DEF Types
<1>5. GrowsTo(ledger, ledger')
  <2> SUFFICES ASSUME NEW j \in Items, NEW n \in 1 .. Len(ledger[j])
               PROVE  n \in 1 .. Len(ledger'[j]) /\ ledger'[j][n] = ledger[j][n]
    BY DEF GrowsTo
  <2> QED
    BY <1>1, <1>3, <1>4
<1> QED
  BY <1>1, <1>2, <1>3, <1>4, <1>5 DEF Types

\* What agrees with the tables goes on agreeing, when nothing committed is undone.
LEMMA BackedKept ==
  ASSUME NEW p, Own(p), NEW it, NEW it2, NEW pay, NEW pay2, NEW led, NEW led2,
         Backed(p, it, pay, led), GrowsTo(led, led2),
         \A i \in Items : it[i].status # "absent" => it2[i].status # "absent",
         \A i \in Items : pay[i] # NoPayout =>
           pay2[i] # NoPayout /\ pay2[i].ref = pay[i].ref,
         \A i \in Items : p.new[i] # NoPayout => pay2[i] = pay[i]
  PROVE  Backed(p, it2, pay2, led2)
<1>1. ASSUME NEW i \in Items, NEW n, Succeeded(led[i], n)
      PROVE  Succeeded(led2[i], n)
  BY <1>1 DEF Succeeded, GrowsTo
<1>2. ASSUME NEW i \in Items, NEW rec, Tells(rec, led[i])
      PROVE  Tells(rec, led2[i])
  BY <1>2 DEF Tells, GrowsTo
<1>3. p.pc = "checked" => p.cur \in Items
  BY DEF Own, Pass
<1> QED
  BY <1>1, <1>2, <1>3 DEF Backed

LEMMA RowsKept ==
  ASSUME Rows, GrowsTo(ledger, ledger'), UNCHANGED <<item, payout>>
  PROVE  Rows'
<1> SUFFICES ASSUME NEW i \in Items
             PROVE  /\ payout[i] # NoPayout => Tells(payout[i], ledger'[i])
                    /\ item[i].status = "success" =>
                         payout[i] # NoPayout /\ Succeeded(ledger'[i], payout[i].ref)
  BY DEF Rows
<1> QED
  BY DEF Rows, Tells, Succeeded, GrowsTo

LEMMA ActivePass ==
  ASSUME Types, NEW w \in Workers
  PROVE  /\ Active(w) => pass[w] \in Pass
         /\ \A q \in Pass : q.pc # "idle"
         /\ ~Active(w) => pass[w] = Idle
         /\ Idle.pc = "idle"
BY DEF Types, Active, Pass, Idle
------------------------------------------------------------------------------
(* A step inside a pass. *)

LEMMA PassStep ==
  ASSUME IInv, NEW w \in Workers, Active(w), NEW q, Own(q), q.kind = pass[w].kind,
         Backed(q, item, payout, ledger'),
         \A i \in Written(q) : i \in Written(pass[w]) \/ ItemFree(w, i),
         pass' = [pass EXCEPT ![w] = q],
         ledger' \in [Items -> Seq(TransferStates)],
         \A i \in Items : Len(ledger'[i]) <= MaxTransfers,
         GrowsTo(ledger, ledger'),
         UNCHANGED <<faults, db, heard, tasks, slot>>
  PROVE  IInv'
<1> USE DEF IInv
<1>1. q \in Pass /\ q.pc # "idle"
  BY ActivePass DEF Own
<1>2. Types'
  BY <1>1 DEF Types, db
<1>3. Rows' /\ PaidMeansRecorded'
  BY RowsKept DEF db, PaidMeansRecorded
<1>4. pass'[w] = q /\ \A v \in Workers \ {w} : pass'[v] = pass[v]
  BY DEF Types
<1>5. \A v \in Workers : Active(v)' <=> Active(v)
  BY <1>1, <1>4 DEF Active
<1>6. Passes'
  <2> SUFFICES ASSUME NEW v \in Workers, Active(v)
               PROVE  Own(pass'[v]) /\ Backed(pass'[v], item, payout, ledger')
    BY <1>5 DEF Passes, db
  <2>1. CASE v = w
    BY <1>4, <2>1
  <2>2. CASE v # w
    <3>1. Own(pass[v]) /\ Backed(pass[v], item, payout, ledger)
      BY DEF Passes
    <3>2. Backed(pass[v], item, payout, ledger')
      BY <3>1, BackedKept
    <3> QED
      BY <1>4, <2>2, <3>1, <3>2
  <2> QED
    BY <2>1, <2>2
<1>7. OneWriter'
  <2>1. ASSUME NEW v \in Workers \ {w}, Active(v)
        PROVE  Written(pass[v]) \cap Written(q) = {}
    BY <2>1 DEF OneWriter, ItemFree
  <2> SUFFICES ASSUME NEW u \in Workers, NEW v \in Workers, u # v, Active(u), Active(v)
               PROVE  Written(pass'[u]) \cap Written(pass'[v]) = {}
    BY <1>5 DEF OneWriter, Written
  <2> QED
    BY <1>4, <2>1 DEF OneWriter
<1>8. SlotHeld'
  BY <1>4, <1>5 DEF SlotHeld
<1>9. \A kind \in Kinds : Running(kind)' = Running(kind)
  BY <1>4, <1>5 DEF Running
<1>10. TasksHeld'
  BY <1>9 DEF TasksHeld
<1> QED
  BY <1>2, <1>3, <1>6, <1>7, <1>8, <1>10

\* Pass q is that of worker w once it has dealt with item i.
Dealt(w, i, status, q) ==
  LET p == pass[w] IN
  /\ q \in Pass /\ q.pc = "run" /\ q.kind = p.kind /\ q.old = p.old
  /\ q.todo = p.todo \ {i}
  /\ q.mem = [p.mem EXCEPT ![i] = [status |-> status, attempts |-> p.mem[i].attempts + 1]]

\* Nothing else of the pass has changed that matters to the tables.
SameRest(w, q) ==
  /\ q.new = pass[w].new /\ q.status = pass[w].status
  /\ q.wrote = pass[w].wrote /\ q.transient = pass[w].transient

\* Worker w has still to deal with item i.
MayDeal(w, i) ==
  /\ Active(w) /\ i \in pass[w].todo
  /\ pass[w].mem[i].status # "success" /\ ~Exhausted(pass[w].mem[i])

Outcomes == {"success", "failed", "pending", "held"}

LEMMA DealTypes ==
  ASSUME IInv, NEW w \in Workers, NEW i, MayDeal(w, i)
  PROVE  /\ Active(w) /\ i \in Items /\ i \in pass[w].todo /\ pass[w] \in Pass /\ Own(pass[w])
         /\ Backed(pass[w], item, payout, ledger)
         /\ pass[w].old[i].status # "success"
         /\ pass[w].mem[i].attempts \in Nat /\ pass[w].old[i].attempts \in Nat
         /\ pass[w].mem[i].attempts + 1 \in 0 .. MaxAttempts
         /\ pass[w].mem[i].attempts + 1 > pass[w].old[i].attempts
<1> DEFINE p == pass[w]
<1>1. Active(w) /\ Own(p) /\ p \in Pass /\ Backed(p, item, payout, ledger) /\ i \in p.todo
  BY DEF IInv, Passes, Own, MayDeal
<1>2. i \in Items /\ p.mem[i] \in Item /\ p.old[i] \in Item
  BY <1>1 DEF Pass
<1>3. p.mem[i].attempts \in Nat /\ p.old[i].attempts \in Nat /\ MaxAttempts \in Nat
  BY <1>2, BoundAssumption DEF Item
<1>4. p.mem[i].attempts < MaxAttempts
  BY <1>3 DEF MayDeal, Exhausted
<1>5. p.mem[i].attempts >= p.old[i].attempts
  BY <1>1, <1>2 DEF Own
<1>6. p.old[i].status # "success"
  BY <1>1, <1>2 DEF Own, MayDeal
<1> QED
  BY <1>1, <1>2, <1>3, <1>4, <1>5, <1>6

LEMMA DoneDealt ==
  ASSUME IInv, NEW w \in Workers, NEW i, MayDeal(w, i),
         NEW status \in Outcomes, NEW bad \in BOOLEAN, NEW q, q = Done(w, i, status, bad)
  PROVE  Dealt(w, i, status, q) /\ SameRest(w, q)
<1> DEFINE p == pass[w]
           tried == [status |-> status, attempts |-> p.mem[i].attempts + 1]
           mem == [p.mem EXCEPT ![i] = tried]
<1>1. p \in Pass /\ i \in Items /\ p.mem[i].attempts + 1 \in 0 .. MaxAttempts
  BY DealTypes
<1>2. q = [p EXCEPT !.pc = "run", !.cur = NoItem, !.found = NoPayout,
                    !.todo = p.todo \ {i}, !.mem = mem, !.anyFailed = p.anyFailed \/ bad]
  BY <1>1 DEF Done, Tried, Pass
<1>3. tried \in Item
  BY <1>1 DEF Item, ItemStates, Outcomes
<1>4. mem \in [Items -> Item]
  BY <1>1, <1>3 DEF Pass
<1> HIDE DEF mem
<1>5. /\ p.todo \ {i} \in SUBSET Items /\ NoPayout \in Recorded
      /\ p.anyFailed \/ bad \in BOOLEAN
  BY <1>1 DEF Pass, Recorded
<1>6. q \in Pass /\ q.pc = "run" /\ q.kind = p.kind /\ q.old = p.old
      /\ q.todo = p.todo \ {i} /\ q.mem = mem
      /\ q.new = p.new /\ q.status = p.status /\ q.wrote = p.wrote /\ q.transient = p.transient
  BY <1>1, <1>2, <1>4, <1>5 DEF Pass
<1> QED
  BY <1>6 DEF Dealt, SameRest, mem

\* Dealing with an item is sound, for an item that is still to be dealt with.
LEMMA DealtOwn ==
  ASSUME IInv, NEW w \in Workers, NEW i, MayDeal(w, i),
         NEW status \in Outcomes, NEW q, Dealt(w, i, status, q),
         \A j \in Items \ {i} : q.new[j] = pass[w].new[j]
  PROVE  /\ Own(q) /\ q.mem[i].status = status /\ \A j \in Items \ {i} : q.mem[j] = pass[w].mem[j]
         /\ \A j \in Written(q) : j \in Written(pass[w]) \/ j = i
<1> DEFINE p == pass[w]
<1>1. /\ p \in Pass /\ Own(p) /\ i \in Items /\ i \in p.todo /\ p.old[i].status # "success"
      /\ p.mem[i].attempts + 1 > p.old[i].attempts
      /\ p.mem[i].attempts \in Nat /\ p.old[i].attempts \in Nat
  BY DealTypes
<1>2. p.mem \in [Items -> Item]
  BY <1>1 DEF Pass
<1>3. /\ q.mem[i] = [status |-> status, attempts |-> p.mem[i].attempts + 1]
      /\ \A j \in Items \ {i} : q.mem[j] = p.mem[j]
  BY <1>1, <1>2 DEF Dealt
<1>4. /\ q \in Pass /\ q.pc = "run" /\ q.kind = p.kind /\ q.old = p.old
      /\ q.todo = p.todo \ {i}
  BY DEF Dealt
<1>5. p.kind = "retry" => p.old[i] # Absent
  BY <1>1 DEF Own
<1>6. q.mem[i].status = status /\ q.mem[i].attempts = p.mem[i].attempts + 1 /\ status # "absent"
  BY <1>3 DEF Outcomes
<1>7. ASSUME NEW j \in Items
      PROVE  /\ q.mem[j].attempts >= q.old[j].attempts
             /\ q.old[j].status = "success" \/ q.mem[j].status = "absent" => q.mem[j] = q.old[j]
             /\ q.old[j].status = "absent" => q.old[j] = Absent
             /\ q.new[j] # NoPayout => q.mem[j].attempts > q.old[j].attempts
             /\ q.kind = "retry" /\ q.old[j] = Absent => q.mem[j] = Absent /\ j \notin q.todo
  <2>1. CASE j = i
    BY <1>1, <1>4, <1>5, <1>6, <2>1 DEF Own
  <2>2. CASE j # i
    BY <1>1, <1>3, <1>4, <2>2 DEF Own
  <2> QED
    BY <2>1, <2>2
<1>8. Own(q)
  BY <1>4, <1>7 DEF Own
<1>9. \A j \in Written(q) : j \in Written(p) \/ j = i
  BY <1>3, <1>4 DEF Written
<1> QED
  BY <1>3, <1>6, <1>8, <1>9

\* An attempt on item i that records no new transfer.
LEMMA DealtKeeps ==
  ASSUME IInv, NEW w \in Workers, NEW i, MayDeal(w, i), ItemFree(w, i),
         NEW status \in Outcomes, NEW q, Dealt(w, i, status, q),
         q.new = pass[w].new, q.status = pass[w].status,
         status = "success" =>
           payout[i] # NoPayout /\ Succeeded(ledger[i], payout[i].ref),
         pass' = [pass EXCEPT ![w] = q],
         ledger' \in [Items -> Seq(TransferStates)],
         \A j \in Items : Len(ledger'[j]) <= MaxTransfers,
         GrowsTo(ledger, ledger'),
         UNCHANGED <<faults, db, heard, tasks, slot>>
  PROVE  IInv'
<1> DEFINE p == pass[w]
<1>1. /\ Active(w) /\ i \in Items /\ Backed(p, item, payout, ledger)
  BY DealTypes
<1>2. /\ Own(q) /\ q.mem[i].status = status /\ \A j \in Items \ {i} : q.mem[j] = p.mem[j]
      /\ \A j \in Written(q) : j \in Written(p) \/ j = i
  BY DealtOwn
<1>3. q.pc = "run" /\ q.old = p.old /\ q.kind = p.kind
  BY DEF Dealt
<1>4. Backed(q, item, payout, ledger)
  <2>1. ASSUME NEW j \in Items, q.mem[j].status = "success", q.old[j].status # "success"
        PROVE  \/ q.new[j] # NoPayout /\ Succeeded(ledger[j], q.new[j].ref)
               \/ payout[j] # NoPayout /\ Succeeded(ledger[j], payout[j].ref)
    <3>1. CASE j = i
      BY <1>2, <2>1, <3>1
    <3>2. CASE j # i
      BY <1>1, <1>2, <1>3, <2>1, <3>2 DEF Backed
    <3> QED
      BY <3>1, <3>2
  <2> QED
    BY <1>1, <1>3, <2>1 DEF Backed
<1>5. Backed(q, item, payout, ledger')
  BY <1>2, <1>4, BackedKept
<1> QED
  BY <1>1, <1>2, <1>3, <1>5, PassStep

\* What the state says of a pass that is about to write its current item.
LEMMA CheckedPass ==
  ASSUME IInv, NEW w \in Workers, pass[w].pc = "checked"
  PROVE  MayDeal(w, pass[w].cur) /\ pass[w].cur \in Items
<1>1. Active(w)
  BY DEF Active
<1>2. Own(pass[w])
  BY <1>1 DEF IInv, Passes
<1> QED
  BY <1>1, <1>2 DEF Own, Pass, MayDeal

LEMMA SameLedger ==
  ASSUME Types, UNCHANGED ledger
  PROVE  /\ ledger' \in [Items -> Seq(TransferStates)]
         /\ \A j \in Items : Len(ledger'[j]) <= MaxTransfers
         /\ GrowsTo(ledger, ledger')
BY GrowsReflexive DEF Types


LEMMA SkipKeeps ==
  ASSUME IInv, NEW w \in Workers, NEW i \in Items, Skip(w, i) PROVE IInv'
<1> DEFINE p == pass[w]
           q == [p EXCEPT !.todo = p.todo \ {i},
                          !.anyFailed = p.anyFailed \/ p.mem[i].status # "success"]
<1>1. p.pc = "run" /\ Active(w) /\ Own(p) /\ p \in Pass /\ Backed(p, item, payout, ledger)
  BY DEF Skip, Active, IInv, Passes, Own
<1>2. pass' = [pass EXCEPT ![w] = q]
  BY DEF Skip
<1>3. /\ q \in Pass /\ q.pc = "run" /\ q.kind = p.kind /\ q.old = p.old /\ q.mem = p.mem
      /\ q.new = p.new /\ q.status = p.status /\ q.todo = p.todo \ {i}
  BY <1>1 DEF Pass
<1> HIDE DEF q
<1>4. Own(q) /\ Backed(q, item, payout, ledger)
  BY <1>1, <1>3 DEF Own, Backed
<1>5. Written(q) = Written(p)
  BY <1>3 DEF Written
<1>6. UNCHANGED <<faults, db, ledger, heard, tasks, slot>>
  BY DEF Skip
<1> QED
  BY <1>1, <1>2, <1>3, <1>4, <1>5, <1>6, SameLedger, PassStep DEF IInv

LEMMA MissingAccountKeeps ==
  ASSUME IInv, NEW w \in Workers, NEW i \in Items, MissingAccount(w, i) PROVE IInv'
<1> DEFINE q == Done(w, i, "failed", TRUE)
<1>1. /\ MayDeal(w, i) /\ ItemFree(w, i)
      /\ pass' = [pass EXCEPT ![w] = q]
      /\ UNCHANGED <<faults, db, ledger, heard, tasks, slot>>
  BY DEF MissingAccount, Active, MayDeal
<1>2. q = Done(w, i, "failed", TRUE) /\ "failed" \in Outcomes
  BY DEF Outcomes
<1> HIDE DEF q
<1>3. Dealt(w, i, "failed", q) /\ SameRest(w, q)
  BY <1>1, <1>2, DoneDealt, Zenon
<1> QED
  BY <1>1, <1>2, <1>3, SameLedger, DealtKeeps DEF IInv, SameRest

LEMMA CheckKeeps ==
  ASSUME IInv, NEW w \in Workers, NEW i \in Items, Check(w, i) PROVE IInv'
<1> DEFINE p == pass[w]
           q == [p EXCEPT !.pc = "checked", !.cur = i, !.found = payout[i]]
<1>1. p.pc = "run" /\ Active(w) /\ Own(p) /\ p \in Pass /\ Backed(p, item, payout, ledger)
  BY DEF Check, Active, IInv, Passes, Own
<1>2. pass' = [pass EXCEPT ![w] = q]
  BY DEF Check
<1>3. payout[i] \in Recorded
  BY DEF IInv, Types
<1>4. /\ q \in Pass /\ q.pc = "checked" /\ q.kind = p.kind /\ q.old = p.old /\ q.mem = p.mem
      /\ q.new = p.new /\ q.status = p.status /\ q.todo = p.todo
      /\ q.cur = i /\ q.found = payout[i]
  BY <1>1, <1>3 DEF Pass
<1> HIDE DEF q
<1>5. Own(q)
  BY <1>1, <1>4 DEF Own, Check
<1>6. Backed(q, item, payout, ledger)
  BY <1>1, <1>4 DEF Backed, IInv, Rows
<1>7. Written(q) = Written(p)
  BY <1>4 DEF Written
<1>8. UNCHANGED <<faults, db, ledger, heard, tasks, slot>>
  BY DEF Check
<1> QED
  BY <1>1, <1>2, <1>4, <1>5, <1>6, <1>7, <1>8, SameLedger, PassStep DEF IInv

LEMMA CopyRecordedKeeps ==
  ASSUME IInv, NEW w \in Workers, CopyRecorded(w) PROVE IInv'
<1> DEFINE p == pass[w]
           status == Mapped(p.found.status)
           bad == status = "failed"
           q == Done(w, p.cur, status, bad)
<1>1. /\ p.pc = "checked" /\ p.found # NoPayout /\ ItemFree(w, p.cur)
      /\ pass' = [pass EXCEPT ![w] = q]
      /\ UNCHANGED <<faults, db, ledger, heard, tasks, slot>>
  BY DEF CopyRecorded
<1>2. MayDeal(w, p.cur) /\ p.cur \in Items
  BY <1>1, CheckedPass
<1>3. p \in Pass /\ Backed(p, item, payout, ledger)
  BY <1>2, DealTypes
<1>4. p.found.status \in TransferStates
  BY <1>1, <1>3 DEF Pass, Recorded
<1>5. status \in Outcomes /\ (status = "success" => p.found.status = "processed")
  BY <1>4, MappedType DEF Outcomes
<1>6. status = "success" => payout[p.cur] # NoPayout /\ Succeeded(ledger[p.cur], payout[p.cur].ref)
  BY <1>1, <1>3, <1>5 DEF Backed, Tells, Succeeded
<1>7. q = Done(w, p.cur, status, bad) /\ bad \in BOOLEAN
  OBVIOUS
<1> HIDE DEF status, bad, q
<1>8. Dealt(w, p.cur, status, q) /\ SameRest(w, q)
  BY <1>2, <1>5, <1>7, DoneDealt
<1> QED
  BY <1>1, <1>2, <1>5, <1>6, <1>8, SameLedger, DealtKeeps DEF IInv, SameRest

LEMMA HoldRefuseKeep ==
  ASSUME IInv, NEW w \in Workers, Hold(w) \/ Refuse(w) PROVE IInv'
<1> DEFINE p == pass[w]
<1>1. PICK status \in {"held", "failed"} :
        /\ p.pc = "checked" /\ ItemFree(w, p.cur)
        /\ pass' = [pass EXCEPT ![w] = Done(w, p.cur, status, TRUE)]
        /\ UNCHANGED <<faults, db, ledger, heard, tasks, slot>>
  BY DEF Hold, Refuse, MayPay
<1> DEFINE q == Done(w, p.cur, status, TRUE)
<1>2. MayDeal(w, p.cur)
  BY <1>1, CheckedPass
<1>3. q = Done(w, p.cur, status, TRUE) /\ pass' = [pass EXCEPT ![w] = q] /\ status \in Outcomes
  BY <1>1 DEF Outcomes
<1> HIDE DEF q
<1>4. Dealt(w, p.cur, status, q) /\ SameRest(w, q)
  BY <1>2, <1>3, DoneDealt, Zenon
<1> QED
  BY <1>1, <1>2, <1>3, <1>4, SameLedger, DealtKeeps DEF IInv, SameRest

LEMMA LoseAnswerKeeps ==
  ASSUME IInv, NEW w \in Workers, NEW transient \in BOOLEAN, LoseAnswer(w, transient)
  PROVE  IInv'
<1> DEFINE p == pass[w]
           d == Done(w, p.cur, "failed", TRUE)
           q == [d EXCEPT !.transient = @ \/ transient]
<1>1. /\ p.pc = "checked" /\ ItemFree(w, p.cur)
      /\ pass' = [pass EXCEPT ![w] = q]
      /\ Transfer(p.cur, "queued") \/ UNCHANGED ledger
      /\ UNCHANGED <<faults, db, heard, tasks, slot>>
  BY DEF LoseAnswer, MayPay
<1>2. MayDeal(w, p.cur) /\ p.cur \in Items
  BY <1>1, CheckedPass
<1>3. d = Done(w, p.cur, "failed", TRUE) /\ "failed" \in Outcomes
  BY DEF Outcomes
<1> HIDE DEF d, q
<1>4. Dealt(w, p.cur, "failed", d) /\ SameRest(w, d)
  BY <1>2, <1>3, DoneDealt, Zenon
<1>5. /\ q \in Pass /\ q.pc = d.pc /\ q.kind = d.kind /\ q.old = d.old /\ q.mem = d.mem
      /\ q.new = d.new /\ q.status = d.status /\ q.todo = d.todo
  BY <1>4 DEF Pass, Dealt, q
<1>6. Dealt(w, p.cur, "failed", q)
  BY <1>4, <1>5 DEF Dealt
<1>7. /\ ledger' \in [Items -> Seq(TransferStates)]
      /\ \A j \in Items : Len(ledger'[j]) <= MaxTransfers
      /\ GrowsTo(ledger, ledger')
  BY <1>1, <1>2, SameLedger, TransferEffect DEF IInv, TransferStates
<1> QED
  BY <1>1, <1>2, <1>3, <1>4, <1>5, <1>6, <1>7, DealtKeeps DEF SameRest

\* An item paid before the batch status is recomputed is not yet seen as a success.
LEMMA PayTarget ==
  ASSUME IInv, NEW w \in Workers, NEW i, MayDeal(w, i), NEW status \in Outcomes,
         NEW paid, Dealt(w, i, status, paid), SameRest(w, paid), NEW before,
         before = [paid EXCEPT !.mem[i].status = pass[w].mem[i].status]
  PROVE  Derived(pass[w].status, View(before)) = "paid" => pass[w].status = "paid"
<1> DEFINE p == pass[w]
<1>1. /\ p \in Pass /\ i \in Items /\ p.mem[i].attempts + 1 > p.old[i].attempts
      /\ p.mem[i].attempts \in Nat /\ p.old[i].attempts \in Nat
  BY DealTypes
<1>2. /\ paid \in Pass /\ paid.old = p.old
      /\ paid.mem[i] = [status |-> status, attempts |-> p.mem[i].attempts + 1]
  BY <1>1 DEF Dealt, Pass
<1>3. paid.mem \in [Items -> Item]
  BY <1>2 DEF Pass
<1> DEFINE mem == [paid.mem EXCEPT ![i].status = p.mem[i].status]
<1>4. mem[i].status = p.mem[i].status /\ mem[i].attempts = p.mem[i].attempts + 1
  BY <1>1, <1>2, <1>3 DEF Item
<1>5. before = [paid EXCEPT !.mem = mem]
  OBVIOUS
<1> HIDE DEF mem
<1>6. before.mem = mem /\ before.old = p.old
  BY <1>2, <1>5 DEF Pass
<1>7. /\ before.mem[i].attempts = p.mem[i].attempts + 1
      /\ before.mem[i].status = p.mem[i].status
  BY <1>4, <1>6
<1>8. View(before)[i] = p.mem[i].status
  <2>1. before.mem[i].attempts # before.old[i].attempts
    BY <1>1, <1>6, <1>7
  <2> QED
    BY <1>1, <1>7, <2>1 DEF View, Written
<1>9. View(before)[i] # "success"
  BY <1>8 DEF MayDeal
<1> QED
  BY <1>1, <1>9, DerivedPaid

LEMMA PayKeeps ==
  ASSUME IInv, NEW w \in Workers, NEW status \in {"queued", "processed"}, Pay(w, status)
  PROVE  IInv'
<1> DEFINE p == pass[w]
           i == p.cur
           outcome == Mapped(status)
           bad == outcome = "failed"
           paid == Done(w, i, outcome, bad)
           before == [paid EXCEPT !.mem[i].status = p.mem[i].status]
           target == Derived(p.status, View(before))
           rec == [ref |-> Len(ledger[i]) + 1, status |-> status]
           wrote == paid.wrote \/ target # p.status
           new == [paid.new EXCEPT ![i] = rec]
           q == [paid EXCEPT !.new = new, !.status = target, !.wrote = wrote]
<1>1. /\ p.pc = "checked" /\ ItemFree(w, i)
      /\ Transfer(i, status)
      /\ UNCHANGED <<faults, db, heard, tasks, slot>>
  BY DEF Pay, MayPay
<1>2. pass' = [pass EXCEPT ![w] = IF payout[i] # NoPayout THEN [p EXCEPT !.pc = "broken"] ELSE q]
  BY DEF Pay
<1>3. MayDeal(w, i) /\ i \in Items
  BY <1>1, CheckedPass
<1>4. Active(w) /\ Own(p) /\ p \in Pass /\ Backed(p, item, payout, ledger)
  BY <1>3, DealTypes
<1>5. status \in TransferStates
  BY DEF TransferStates
<1>6. /\ ledger' \in [Items -> Seq(TransferStates)]
      /\ \A j \in Items : Len(ledger'[j]) <= MaxTransfers
      /\ GrowsTo(ledger, ledger')
      /\ Len(ledger'[i]) = Len(ledger[i]) + 1 /\ Len(ledger[i]) + 1 \in 1 .. MaxTransfers
      /\ ledger'[i][Len(ledger[i]) + 1] = status
  BY <1>1, <1>3, <1>5, TransferEffect DEF IInv
<1>7. Backed(p, item, payout, ledger')
  BY <1>4, <1>6, BackedKept
<1>8. CASE payout[i] # NoPayout
  <2> DEFINE b == [p EXCEPT !.pc = "broken"]
  <2>1. /\ b \in Pass /\ b.pc = "broken" /\ b.kind = p.kind /\ b.old = p.old /\ b.mem = p.mem
        /\ b.new = p.new /\ b.status = p.status /\ b.todo = p.todo
    BY <1>4 DEF Pass
  <2>2. pass' = [pass EXCEPT ![w] = b]
    BY <1>2, <1>8
  <2> HIDE DEF b
  <2>3. Own(b)
    BY <1>4, <2>1 DEF Own
  <2>4. Backed(b, item, payout, ledger')
    BY <1>7, <2>1 DEF Backed
  <2>5. Written(b) = Written(p)
    BY <2>1 DEF Written
  <2> QED
    BY <1>1, <1>4, <1>6, <2>1, <2>2, <2>3, <2>4, <2>5, PassStep
<1>9. CASE payout[i] = NoPayout
  <2>1. outcome \in Outcomes /\ bad \in BOOLEAN /\ paid = Done(w, i, outcome, bad)
        /\ (outcome = "success" => status = "processed")
    BY <1>5, MappedType DEF Outcomes
  <2>2. pass' = [pass EXCEPT ![w] = q]
    BY <1>2, <1>9
  <2>3. before = [paid EXCEPT !.mem[i].status = p.mem[i].status]
    OBVIOUS
  <2> HIDE DEF outcome, bad, paid, before, rec, wrote, new, q
  <2>4. Dealt(w, i, outcome, paid) /\ SameRest(w, paid)
    BY <1>3, <2>1, DoneDealt
  <2>5. target = "paid" => p.status = "paid"
    BY <1>3, <2>1, <2>3, <2>4, PayTarget
  <2>6. target \in BatchStates
    BY <1>4, DerivedType DEF Pass
  <2> HIDE DEF target
  <2>7. rec \in Recorded /\ rec.ref = Len(ledger[i]) + 1 /\ rec.status = status
    BY <1>5, <1>6 DEF Recorded, rec
  <2>8. paid \in Pass /\ paid.new = p.new
    BY <2>4 DEF Dealt, SameRest
  <2>9. /\ new \in [Items -> Recorded] /\ new[i] = rec
        /\ \A j \in Items \ {i} : new[j] = p.new[j]
    BY <1>3, <2>7, <2>8 DEF Pass, new
  <2>10. wrote \in BOOLEAN
    BY DEF wrote
  <2>11. /\ q \in Pass /\ q.pc = paid.pc /\ q.kind = paid.kind /\ q.old = paid.old
         /\ q.mem = paid.mem /\ q.todo = paid.todo /\ q.new = new /\ q.status = target
    BY <2>6, <2>8, <2>9, <2>10 DEF Pass, q
  <2>12. Dealt(w, i, outcome, q)
    BY <2>4, <2>11 DEF Dealt
  <2>13. \A j \in Items \ {i} : q.new[j] = p.new[j]
    BY <2>9, <2>11
  <2>14. /\ Own(q) /\ q.mem[i].status = outcome /\ \A j \in Items \ {i} : q.mem[j] = p.mem[j]
         /\ \A j \in Written(q) : j \in Written(p) \/ j = i
    BY <1>3, <2>1, <2>12, <2>13, DealtOwn
  <2>15. q.pc = "run" /\ q.old = p.old /\ q.kind = p.kind /\ q.new[i] = rec
    BY <2>9, <2>11, <2>12 DEF Dealt
  <2>16. Tells(rec, ledger'[i]) /\ (outcome = "success" => Succeeded(ledger'[i], rec.ref))
    BY <1>6, <2>1, <2>7 DEF Tells, Succeeded, Happened
  <2>17. rec # NoPayout
    BY <1>6, <2>7 DEF NoPayout
  <2>18. ASSUME NEW j \in Items
         PROVE  /\ q.old[j].status # "absent" => item[j].status # "absent"
                /\ q.new[j] # NoPayout => payout[j] = NoPayout /\ Tells(q.new[j], ledger'[j])
                /\ q.mem[j].status = "success" /\ q.old[j].status # "success" =>
                     \/ q.new[j] # NoPayout /\ Succeeded(ledger'[j], q.new[j].ref)
                     \/ payout[j] # NoPayout /\ Succeeded(ledger'[j], payout[j].ref)
                /\ q.status = "paid" => q.new[j] # NoPayout \/ payout[j] # NoPayout
    <3>1. CASE j = i
      BY <1>3, <1>7, <1>9, <2>14, <2>15, <2>16, <2>17, <3>1 DEF Backed
    <3>2. CASE j # i
      BY <1>7, <2>5, <2>11, <2>13, <2>14, <2>15, <3>2 DEF Backed
    <3> QED
      BY <3>1, <3>2
  <2>19. Backed(q, item, payout, ledger')
    BY <2>15, <2>18 DEF Backed
  <2> QED
    BY <1>1, <1>4, <1>6, <2>2, <2>14, <2>15, <2>19, PassStep
<1> QED
  BY <1>8, <1>9

\* A pass calls a batch paid only when every payout is recorded, by it or by another.
LEMMA SeenPaid ==
  ASSUME IInv, NEW w \in Workers, Active(w),
         Derived(pass[w].status, View(pass[w])) = "paid", NEW i \in Items
  PROVE  pass[w].new[i] # NoPayout \/ payout[i] # NoPayout
<1> DEFINE p == pass[w]
<1>1. Own(p) /\ Backed(p, item, payout, ledger)
  BY DEF IInv, Passes
<1>2. CASE p.status = "paid"
  BY <1>1, <1>2 DEF Backed
<1>3. CASE p.status # "paid"
  <2>1. View(p)[i] = "success"
    BY <1>3, DerivedPaid
  <2>2. CASE i \in Written(p)
    <3>1. p.mem[i].status = "success" /\ p.mem[i] # p.old[i]
      BY <2>1, <2>2 DEF View, Written
    <3>2. p.old[i].status # "success"
      BY <1>1, <3>1 DEF Own
    <3> QED
      BY <1>1, <3>1, <3>2 DEF Backed
  <2>3. CASE i \notin Written(p)
    <3>1. item[i].status = "success"
      BY <2>1, <2>3 DEF View
    <3> QED
      BY <3>1 DEF IInv, Rows
  <2> QED
    BY <2>2, <2>3
<1> QED
  BY <1>2, <1>3

LEMMA ConcludeKeeps ==
  ASSUME IInv, NEW w \in Workers, Conclude(w) PROVE IInv'
<1> DEFINE p == pass[w]
           first == Derived(p.status, View(p))
           target == IF first = "payout_in_progress" /\ ~p.anyFailed
                        /\ "failed" \in {View(p)[i] : i \in Items}
                     THEN "failed" ELSE first
           wrote == p.wrote \/ target # p.status
           q == [p EXCEPT !.pc = "concluded", !.status = target, !.wrote = wrote]
<1>1. p.pc = "run" /\ Active(w) /\ Own(p) /\ p \in Pass /\ Backed(p, item, payout, ledger)
  BY DEF Conclude, Active, IInv, Passes, Own
<1>2. pass' = [pass EXCEPT ![w] = q] /\ UNCHANGED <<faults, db, ledger, heard, tasks, slot>>
  BY DEF Conclude
<1>3. first \in BatchStates /\ first = Derived(p.status, View(p))
  BY <1>1, DerivedType DEF Pass
<1> HIDE DEF first
<1>4. target \in BatchStates /\ (target = "paid" => first = "paid")
  BY <1>3 DEF BatchStates
<1>5. wrote \in BOOLEAN
  OBVIOUS
<1> HIDE DEF target, wrote
<1>6. /\ q \in Pass /\ q.pc = "concluded" /\ q.kind = p.kind /\ q.old = p.old /\ q.mem = p.mem
      /\ q.new = p.new /\ q.status = target /\ q.todo = p.todo
  BY <1>1, <1>4, <1>5 DEF Pass
<1> HIDE DEF q
<1>7. Own(q)
  BY <1>1, <1>6 DEF Own
<1>8. target = "paid" => \A i \in Items : p.new[i] # NoPayout \/ payout[i] # NoPayout
  BY <1>1, <1>3, <1>4, SeenPaid
<1>9. Backed(q, item, payout, ledger)
  BY <1>1, <1>6, <1>8 DEF Backed
<1>10. Written(q) = Written(p)
  BY <1>6 DEF Written
<1> QED
  BY <1>1, <1>2, <1>6, <1>7, <1>9, <1>10, SameLedger, PassStep DEF IInv
------------------------------------------------------------------------------
(* A pass starts and ends. *)

LEMMA StartKeeps ==
  ASSUME IInv, NEW w \in Workers, NEW kind \in Kinds, Start(w, kind) PROVE IInv'
<1> DEFINE fresh == kind = "process" /\ \A i \in Items : item[i] = Absent
           loaded == IF fresh
                     THEN [i \in Items |->
                            [status |-> IF i \in Unbanked THEN "failed" ELSE "pending",
                             attempts |-> 0]]
                     ELSE item
           todo == {i \in Items : loaded[i].status # "absent"}
           none == [i \in Items |-> NoPayout]
           wrote == batch # "payout_in_progress"
           q == [pc |-> "run", kind |-> kind, cur |-> NoItem, found |-> NoPayout,
                 todo |-> todo, old |-> item, mem |-> loaded, new |-> none,
                 status |-> "payout_in_progress", wrote |-> wrote,
                 anyFailed |-> FALSE, transient |-> FALSE]
<1> USE DEF IInv
<1>1. /\ ~Active(w) /\ tasks[kind] > Cardinality(Running(kind))
      /\ (kind = "process" => ~slot) /\ slot' = (slot \/ kind = "process")
      /\ pass' = [pass EXCEPT ![w] = q]
      /\ UNCHANGED <<faults, db, ledger, heard, tasks>>
  BY DEF Start
<1>2. /\ fresh => \A i \in Items : item[i] = Absent /\ loaded[i].attempts = 0
                                   /\ loaded[i].status \in {"failed", "pending"}
      /\ ~fresh => loaded = item
      /\ fresh => kind = "process"
  OBVIOUS
<1>3. item \in [Items -> Item] /\ MaxAttempts \in Nat
  BY BoundAssumption DEF Types
<1>4. loaded \in [Items -> Item]
  BY <1>3 DEF Item, ItemStates
<1>5. \A i \in Items : i \in todo <=> loaded[i].status # "absent"
  OBVIOUS
<1>6. todo \in SUBSET Items /\ none \in [Items -> Recorded] /\ wrote \in BOOLEAN
      /\ \A i \in Items : none[i] = NoPayout
  BY DEF Recorded
<1> HIDE DEF fresh, loaded, todo, none, wrote
<1>7. q \in Pass
  BY <1>3, <1>4, <1>6 DEF Pass, Recorded, BatchStates
<1>8. /\ q.pc = "run" /\ q.kind = kind /\ q.old = item /\ q.mem = loaded /\ q.todo = todo
      /\ q.new = none /\ q.status = "payout_in_progress"
  OBVIOUS
<1> HIDE DEF q
<1>9. Own(q)
  <2>1. ASSUME NEW i \in Items
        PROVE  /\ q.mem[i].attempts >= q.old[i].attempts
               /\ q.old[i].status = "success" \/ q.mem[i].status = "absent" => q.mem[i] = q.old[i]
               /\ q.old[i].status = "absent" => q.old[i] = Absent
               /\ q.new[i] # NoPayout => q.mem[i].attempts > q.old[i].attempts
               /\ q.kind = "retry" /\ q.old[i] = Absent => q.mem[i] = Absent /\ i \notin q.todo
    <3>1. item[i].attempts \in Nat /\ (item[i].status = "absent" => item[i] = Absent)
          /\ Absent.status = "absent" /\ Absent.attempts = 0
      BY <1>3 DEF Item, Rows, Absent
    <3>2. CASE fresh
      BY <1>2, <1>6, <1>8, <3>1, <3>2
    <3>3. CASE ~fresh
      BY <1>2, <1>5, <1>6, <1>8, <3>1, <3>3
    <3> QED
      BY <3>2, <3>3
  <2> QED
    BY <1>7, <1>8, <2>1 DEF Own
<1>10. Backed(q, item, payout, ledger)
  BY <1>2, <1>6, <1>8 DEF Backed
<1>11. pass'[w] = q /\ \A v \in Workers \ {w} : pass'[v] = pass[v]
  BY <1>1 DEF Types
<1>12. q.pc # "idle"
  BY <1>8
<1>13. \A v \in Workers : Active(v)' <=> Active(v) \/ v = w
  BY <1>11, <1>12 DEF Active
<1>14. Types'
  BY <1>1, <1>7 DEF Types, db
<1>15. Rows' /\ PaidMeansRecorded'
  BY <1>1, GrowsReflexive, RowsKept DEF PaidMeansRecorded, db
<1>16. Passes'
  BY <1>1, <1>9, <1>10, <1>11, <1>13 DEF Passes, db
<1>17. OneWriter'
  <2>1. ASSUME NEW v \in Workers, Active(v), NEW i \in Items PROVE i \notin Written(pass[v]) \cap Written(q)
    <3>1. CASE fresh
      <4>1. pass[v].kind = "retry"
        <5>1. pass[v].kind \in Kinds
          BY <2>1, ActivePass DEF Pass
        <5> QED
          BY <1>1, <1>2, <2>1, <3>1, <5>1 DEF SlotHeld, Kinds
      <4>2. Own(pass[v]) /\ Backed(pass[v], item, payout, ledger)
        BY <2>1 DEF Passes
      <4>3. item[i].status = "absent"
        BY <1>2, <3>1 DEF Absent
      <4>4. pass[v].old[i] = Absent
        BY <4>2, <4>3 DEF Own, Backed
      <4>5. pass[v].mem[i] = pass[v].old[i]
        BY <4>1, <4>2, <4>4 DEF Own
      <4> QED
        BY <4>5 DEF Written
    <3>2. CASE ~fresh
      BY <1>2, <1>8, <3>2 DEF Written
    <3> QED
      BY <3>1, <3>2
  <2>2. ASSUME NEW v \in Workers, Active(v) PROVE Written(pass[v]) \cap Written(q) = {}
    BY <2>1, <2>2 DEF Written
  <2> SUFFICES ASSUME NEW u \in Workers, NEW v \in Workers, u # v, Active(u)', Active(v)'
               PROVE  Written(pass'[u]) \cap Written(pass'[v]) = {}
    BY DEF OneWriter, Written
  <2> QED
    BY <1>1, <1>11, <1>13, <2>2 DEF OneWriter
<1>18. SlotHeld'
  <2> SUFFICES ASSUME NEW u \in Workers, NEW v \in Workers, Active(u)', pass'[u].kind = "process"
               PROVE  slot' /\ (Active(v)' /\ pass'[v].kind = "process" => u = v)
    BY DEF SlotHeld
  <2> QED
    BY <1>1, <1>8, <1>11, <1>13 DEF SlotHeld
<1>19. TasksHeld'
  <2>1. Running(kind)' = Running(kind) \cup {w} /\ w \notin Running(kind)
    BY <1>1, <1>8, <1>11, <1>13 DEF Running
  <2>2. \A k \in Kinds : k # kind => Running(k)' = Running(k)
    BY <1>1, <1>8, <1>11, <1>13 DEF Running
  <2>3. IsFiniteSet(Running(kind)) /\ Cardinality(Running(kind)) \in Nat
    BY FS_CardinalityType DEF TasksHeld
  <2>4. IsFiniteSet(Running(kind) \cup {w})
        /\ Cardinality(Running(kind) \cup {w}) = Cardinality(Running(kind)) + 1
    BY <2>1, <2>3, FS_AddElement
  <2>5. tasks[kind] \in Nat /\ tasks' = tasks
    BY <1>1 DEF Types
  <2>6. IsFiniteSet(Running(kind)') /\ Cardinality(Running(kind)') <= tasks'[kind]
    BY <1>1, <2>1, <2>3, <2>4, <2>5
  <2> SUFFICES ASSUME NEW k \in Kinds
               PROVE  IsFiniteSet(Running(k)') /\ Cardinality(Running(k)') <= tasks'[k]
    BY DEF TasksHeld
  <2> QED
    BY <2>2, <2>5, <2>6 DEF TasksHeld
<1> QED
  BY <1>14, <1>15, <1>16, <1>17, <1>18, <1>19

\* A worker that ends its pass, whatever becomes of it, gives up at most its own task.
LEMMA LeaveKeeps ==
  ASSUME IInv, NEW w \in Workers, Active(w), pass' = [pass EXCEPT ![w] = Idle],
         tasks' = tasks \/ tasks' = [tasks EXCEPT ![pass[w].kind] = @ - 1],
         slot' \in BOOLEAN, slot /\ pass[w].kind # "process" => slot'
  PROVE  /\ pass' \in [Workers -> Pass \cup {Idle}]
         /\ tasks' \in [Kinds -> Nat] /\ tasks'["process"] <= Enqueued
         /\ \A v \in Workers : Active(v)' <=> Active(v) /\ v # w
         /\ \A v \in Workers \ {w} : pass'[v] = pass[v]
         /\ OneWriter' /\ SlotHeld' /\ TasksHeld'
<1> USE DEF IInv
<1>1. PICK kind \in Kinds : kind = pass[w].kind
  BY ActivePass DEF Pass
<1>2. pass'[w] = Idle /\ \A v \in Workers \ {w} : pass'[v] = pass[v]
  BY DEF Types
<1>3. \A v \in Workers : Active(v)' <=> Active(v) /\ v # w
  BY <1>2, ActivePass DEF Active
<1>4. OneWriter'
  <2> SUFFICES ASSUME NEW u \in Workers, NEW v \in Workers, u # v, Active(u)', Active(v)'
               PROVE  Written(pass'[u]) \cap Written(pass'[v]) = {}
    BY DEF OneWriter, Written
  <2> QED
    BY <1>2, <1>3 DEF OneWriter
<1>5. SlotHeld'
  <2> SUFFICES ASSUME NEW u \in Workers, NEW v \in Workers, Active(u)', pass'[u].kind = "process"
               PROVE  slot' /\ (Active(v)' /\ pass'[v].kind = "process" => u = v)
    BY DEF SlotHeld
  <2> QED
    BY <1>2, <1>3 DEF SlotHeld
<1>6. Running(kind)' = Running(kind) \ {w} /\ w \in Running(kind)
  BY <1>1, <1>2, <1>3 DEF Running
<1>7. \A k \in Kinds : k # kind => Running(k)' = Running(k)
  BY <1>1, <1>2, <1>3 DEF Running
<1>8. IsFiniteSet(Running(kind)) /\ Cardinality(Running(kind)) \in Nat
      /\ Cardinality(Running(kind)) <= tasks[kind] /\ tasks[kind] \in Nat
  BY <1>1, FS_CardinalityType DEF TasksHeld, Types
<1>9. IsFiniteSet(Running(kind) \ {w})
      /\ Cardinality(Running(kind) \ {w}) = Cardinality(Running(kind)) - 1
      /\ Cardinality(Running(kind) \ {w}) \in Nat
  BY <1>6, <1>8, FS_RemoveElement, FS_CardinalityType
<1>10. /\ tasks' \in [Kinds -> Nat] /\ tasks'["process"] <= Enqueued
       /\ tasks'[kind] >= tasks[kind] - 1
       /\ \A k \in Kinds : k # kind => tasks'[k] = tasks[k]
  <2>0. Enqueued \in Nat /\ "process" \in Kinds /\ tasks["process"] <= Enqueued
        /\ tasks \in [Kinds -> Nat]
    BY BoundAssumption DEF Types, Kinds
  <2>1. CASE tasks' = tasks
    BY <1>8, <2>0, <2>1
  <2>2. CASE tasks' = [tasks EXCEPT ![kind] = tasks[kind] - 1]
    <3>1. tasks[kind] - 1 \in Nat
      BY <1>8, <1>9
    <3>2. tasks'[kind] = tasks[kind] - 1 /\ \A k \in Kinds : k # kind => tasks'[k] = tasks[k]
      BY <1>1, <2>0, <2>2
    <3>3. tasks'["process"] <= Enqueued
      BY <1>8, <2>0, <3>2
    <3> QED
      BY <1>8, <2>0, <2>2, <3>1, <3>2, <3>3
  <2> QED
    BY <1>1, <2>1, <2>2
<1>11. TasksHeld'
  <2>1. IsFiniteSet(Running(kind)') /\ Cardinality(Running(kind)') <= tasks'[kind]
    BY <1>1, <1>6, <1>8, <1>9, <1>10
  <2> SUFFICES ASSUME NEW k \in Kinds
               PROVE  IsFiniteSet(Running(k)') /\ Cardinality(Running(k)') <= tasks'[k]
    BY DEF TasksHeld
  <2> QED
    BY <1>7, <1>10, <2>1 DEF TasksHeld
<1>12. pass' \in [Workers -> Pass \cup {Idle}]
  BY DEF Types
<1> QED
  BY <1>2, <1>3, <1>4, <1>5, <1>10, <1>11, <1>12

\* Nothing of the pass is committed.
LEMMA LostKeeps ==
  ASSUME IInv, NEW w \in Workers, Active(w), pass' = [pass EXCEPT ![w] = Idle],
         tasks' = tasks \/ tasks' = [tasks EXCEPT ![pass[w].kind] = @ - 1],
         slot' \in BOOLEAN, slot /\ pass[w].kind # "process" => slot',
         UNCHANGED <<faults, db, ledger, heard>>
  PROVE  IInv'
<1> USE DEF IInv
<1>1. Rows' /\ PaidMeansRecorded'
  BY GrowsReflexive, RowsKept DEF PaidMeansRecorded, db
<1>2. Types'
  BY LeaveKeeps DEF Types, db
<1>3. Passes'
  BY LeaveKeeps DEF Passes, db
<1> QED
  BY <1>1, <1>2, <1>3, LeaveKeeps

LEMMA RollbackKeeps ==
  ASSUME IInv, NEW w \in Workers, Rollback(w) PROVE IInv'
<1>1. Active(w)
  BY DEF Rollback, Active
<1>2. slot \in BOOLEAN
  BY DEF IInv, Types
<1> QED
  BY <1>1, <1>2, LostKeeps DEF Rollback

LEMMA CrashKeeps ==
  ASSUME IInv, NEW w \in Workers, Crash(w) PROVE IInv'
<1>1. slot \in BOOLEAN
  BY DEF IInv, Types
<1> QED
  BY <1>1, LostKeeps DEF Crash

\* What the tables say of an item after a pass has committed.
LEMMA CommitRow ==
  ASSUME IInv, NEW w \in Workers, Commit(w), NEW i \in Items
  PROVE  /\ payout'[i] \in Recorded /\ item'[i] \in Item
         /\ item'[i].status = "absent" => item[i].status = "absent" /\ item'[i] = Absent
         /\ payout[i] # NoPayout => payout'[i] = payout[i]
         /\ pass[w].new[i] # NoPayout => i \in Written(pass[w])
         /\ pass[w].new[i] = NoPayout => payout'[i] = payout[i]
         /\ payout'[i] # NoPayout => Tells(payout'[i], ledger[i])
         /\ item'[i].status = "success" =>
              payout'[i] # NoPayout /\ Succeeded(ledger[i], payout'[i].ref)
         /\ pass[w].status = "paid" => payout'[i] # NoPayout
<1> DEFINE p == pass[w]
<1>1. Active(w)
  BY DEF Commit, Active
<1>2. Own(p) /\ Backed(p, item, payout, ledger) /\ p \in Pass
  BY <1>1 DEF IInv, Passes, Own
<1>3. /\ item[i] \in Item /\ payout[i] \in Recorded
      /\ p.mem[i] \in Item /\ p.old[i] \in Item /\ p.new[i] \in Recorded
  BY <1>2 DEF IInv, Types, Pass
<1>4. item'[i] = [status |-> IF p.mem[i].status # p.old[i].status THEN p.mem[i].status
                                                                  ELSE item[i].status,
                  attempts |-> IF p.mem[i].attempts # p.old[i].attempts THEN p.mem[i].attempts
                                                                        ELSE item[i].attempts]
  BY DEF Commit
<1>5. payout'[i] = IF p.new[i] # NoPayout THEN p.new[i] ELSE payout[i]
  BY DEF Commit
<1>6. payout'[i] \in Recorded /\ item'[i] \in Item
  BY <1>3, <1>4, <1>5 DEF Item
<1>7. /\ item'[i].status = IF p.mem[i].status # p.old[i].status THEN p.mem[i].status
                                                                ELSE item[i].status
      /\ item'[i].attempts = IF p.mem[i].attempts # p.old[i].attempts THEN p.mem[i].attempts
                                                                      ELSE item[i].attempts
  BY <1>4
<1>8. /\ p.new[i] # NoPayout => payout[i] = NoPayout /\ Tells(p.new[i], ledger[i])
      /\ p.mem[i].status = "success" /\ p.old[i].status # "success" =>
           \/ p.new[i] # NoPayout /\ Succeeded(ledger[i], p.new[i].ref)
           \/ payout[i] # NoPayout /\ Succeeded(ledger[i], payout[i].ref)
      /\ p.status = "paid" => p.new[i] # NoPayout \/ payout[i] # NoPayout
      /\ p.old[i].status # "absent" => item[i].status # "absent"
  BY <1>2 DEF Backed
<1>9. /\ p.mem[i].status = "absent" => p.mem[i] = p.old[i]
      /\ p.new[i] # NoPayout => p.mem[i].attempts > p.old[i].attempts
  BY <1>2 DEF Own
<1>10. /\ item[i].status = "absent" => item[i] = Absent
       /\ payout[i] # NoPayout => Tells(payout[i], ledger[i])
       /\ item[i].status = "success" =>
            payout[i] # NoPayout /\ Succeeded(ledger[i], payout[i].ref)
  BY DEF IInv, Rows
<1>11. ASSUME item'[i].status = "absent" PROVE item[i].status = "absent" /\ item'[i] = Absent
  <2>1. item[i].status = "absent" /\ p.mem[i].status = p.old[i].status
    BY <1>7, <1>9, <1>11
  <2>2. p.mem[i] = p.old[i]
    BY <1>8, <1>9, <2>1
  <2>3. item'[i].status = "absent" /\ item'[i].attempts = 0
    BY <1>7, <1>10, <1>11, <2>1, <2>2 DEF Absent
  <2> QED
    BY <1>4, <2>1, <2>3 DEF Absent
<1>12. p.new[i] # NoPayout => i \in Written(p)
  <2>1. p.mem[i].attempts \in Nat /\ p.old[i].attempts \in Nat
    BY <1>3, BoundAssumption DEF Item
  <2> QED
    BY <1>9, <2>1 DEF Written
<1>13. item'[i].status = "success" =>
         payout'[i] # NoPayout /\ Succeeded(ledger[i], payout'[i].ref)
  BY <1>5, <1>7, <1>8, <1>10
<1> QED
  BY <1>5, <1>6, <1>8, <1>10, <1>11, <1>12, <1>13

LEMMA CommitKeeps ==
  ASSUME IInv, NEW w \in Workers, Commit(w) PROVE IInv'
<1> DEFINE p == pass[w]
<1> USE DEF IInv
<1>1. Active(w) /\ pass' = [pass EXCEPT ![w] = Idle]
      /\ tasks' = [tasks EXCEPT ![p.kind] = @ - 1]
      /\ UNCHANGED <<faults, ledger, heard, slot>>
  BY DEF Commit, Active
<1>2. slot \in BOOLEAN
  BY DEF Types
<1>3. p \in Pass /\ Own(p)
  BY <1>1 DEF Passes, Own
<1>4. /\ batch' = IF p.wrote THEN p.status ELSE batch
      /\ published' = published \cup {p.status}
      /\ DOMAIN item' = Items /\ item' = [i \in Items |-> item'[i]]
      /\ payout' = [i \in Items |-> payout'[i]]
  BY DEF Commit
<1>5. Types'
  <2>1. item' \in [Items -> Item] /\ payout' \in [Items -> Recorded]
    BY <1>4, CommitRow
  <2>2. batch' \in BatchStates /\ published' \subseteq BatchStates
    BY <1>3, <1>4 DEF Pass, Types
  <2> QED
    BY <1>1, <1>2, <2>1, <2>2, LeaveKeeps DEF Types
<1>6. Rows'
  BY <1>1, CommitRow DEF Rows
<1>7. PaidMeansRecorded'
  BY <1>4, CommitRow DEF PaidMeansRecorded
<1>8. Passes'
  <2> SUFFICES ASSUME NEW v \in Workers, Active(v), v # w
               PROVE  Own(pass[v]) /\ Backed(pass[v], item', payout', ledger')
    BY <1>1, <1>2, LeaveKeeps DEF Passes
  <2>1. Own(pass[v]) /\ Backed(pass[v], item, payout, ledger)
    BY DEF Passes
  <2>2. GrowsTo(ledger, ledger')
    BY <1>1, GrowsReflexive
  <2>3. ASSUME NEW i \in Items, pass[v].new[i] # NoPayout PROVE payout'[i] = payout[i]
    <3>1. pass[v].mem[i].attempts > pass[v].old[i].attempts
      BY <2>1, <2>3 DEF Own
    <3>2. pass[v].mem[i].attempts \in Nat /\ pass[v].old[i].attempts \in Nat
      BY <2>1, BoundAssumption DEF Own, Pass, Item
    <3>3. i \in Written(pass[v])
      BY <3>1, <3>2 DEF Written
    <3>4. i \notin Written(p)
      BY <1>1, <3>3 DEF OneWriter
    <3> QED
      BY <3>4, CommitRow
  <2>4. \A i \in Items : item[i].status # "absent" => item'[i].status # "absent"
    BY CommitRow
  <2>5. \A i \in Items : payout[i] # NoPayout =>
          payout'[i] # NoPayout /\ payout'[i].ref = payout[i].ref
    BY CommitRow
  <2> QED
    BY <2>1, <2>2, <2>3, <2>4, <2>5, BackedKept
<1> QED
  BY <1>1, <1>2, <1>5, <1>6, <1>7, <1>8, LeaveKeeps
------------------------------------------------------------------------------
(* Tasks, the provider and its reports. *)

\* Only the broker's tasks change.
LEMMA TasksKeep ==
  ASSUME IInv, tasks' \in [Kinds -> Nat], tasks'["process"] <= Enqueued,
         \A kind \in Kinds : Cardinality(Running(kind)) <= tasks'[kind],
         UNCHANGED <<faults, db, ledger, heard, slot, pass>>
  PROVE  IInv'
<1> USE DEF IInv
<1>1. Rows' /\ PaidMeansRecorded' /\ OneWriter' /\ SlotHeld'
  BY GrowsReflexive, RowsKept DEF PaidMeansRecorded, OneWriter, SlotHeld, Written, Active, db
<1>2. \A w \in Workers : Active(w)' <=> Active(w)
  BY DEF Active
<1>3. Passes'
  BY <1>2 DEF Passes, db
<1>4. TasksHeld'
  BY DEF TasksHeld, Running, Active
<1>5. Types'
  BY DEF Types, db
<1> QED
  BY <1>1, <1>3, <1>4, <1>5

LEMMA EndAtOnceKeeps ==
  ASSUME IInv, NEW kind \in Kinds, EndAtOnce(kind) PROVE IInv'
<1>1. /\ tasks[kind] > Cardinality(Running(kind))
      /\ tasks' = [tasks EXCEPT ![kind] = tasks[kind] - 1]
      /\ UNCHANGED <<faults, db, ledger, heard, slot, pass>>
  BY DEF EndAtOnce
<1>2. tasks \in [Kinds -> Nat] /\ tasks["process"] <= Enqueued /\ Enqueued \in Nat
  BY BoundAssumption DEF IInv, Types
<1>3. \A k \in Kinds : Cardinality(Running(k)) \in Nat /\ Cardinality(Running(k)) <= tasks[k]
  BY FS_CardinalityType DEF IInv, TasksHeld
<1>4. tasks[kind] - 1 \in Nat /\ Cardinality(Running(kind)) <= tasks[kind] - 1
  BY <1>1, <1>2, <1>3
<1>5. /\ tasks'[kind] = tasks[kind] - 1 /\ \A k \in Kinds : k # kind => tasks'[k] = tasks[k]
      /\ tasks' \in [Kinds -> Nat]
  BY <1>1, <1>2, <1>4
<1>6. \A k \in Kinds : Cardinality(Running(k)) <= tasks'[k]
  BY <1>3, <1>4, <1>5
<1>7. tasks'["process"] <= Enqueued
  BY <1>2, <1>5 DEF Kinds
<1> QED
  BY <1>1, <1>5, <1>6, <1>7, TasksKeep

LEMMA RequestRetryKeeps ==
  ASSUME IInv, RequestRetry PROVE IInv'
<1>1. /\ tasks' = [tasks EXCEPT !["retry"] = tasks["retry"] + 1]
      /\ UNCHANGED <<faults, db, ledger, heard, slot, pass>>
  BY DEF RequestRetry
<1>2. tasks \in [Kinds -> Nat] /\ tasks["process"] <= Enqueued
  BY DEF IInv, Types
<1>3. \A k \in Kinds : Cardinality(Running(k)) \in Nat /\ Cardinality(Running(k)) <= tasks[k]
  BY FS_CardinalityType DEF IInv, TasksHeld
<1>4. /\ tasks'["retry"] = tasks["retry"] + 1 /\ tasks'["process"] = tasks["process"]
      /\ tasks' \in [Kinds -> Nat] /\ tasks["retry"] \in Nat
  BY <1>1, <1>2 DEF Kinds
<1>5. \A k \in Kinds : Cardinality(Running(k)) <= tasks'[k]
  BY <1>3, <1>4 DEF Kinds
<1> QED
  BY <1>1, <1>2, <1>4, <1>5, TasksKeep

\* The passes go on agreeing with tables and a ledger that only take reports and transfers.
LEMMA PassesKept ==
  ASSUME IInv, GrowsTo(ledger, ledger'), UNCHANGED pass,
         \A i \in Items : item[i].status # "absent" => item'[i].status # "absent",
         \A i \in Items : payout[i] # NoPayout =>
           payout'[i] # NoPayout /\ payout'[i].ref = payout[i].ref,
         \A i \in Items : payout[i] = NoPayout => payout'[i] = NoPayout
  PROVE  Passes'
<1>1. \A w \in Workers : Active(w)' <=> Active(w)
  BY DEF Active
<1> SUFFICES ASSUME NEW w \in Workers, Active(w)
             PROVE  Own(pass[w]) /\ Backed(pass[w], item', payout', ledger')
  BY <1>1 DEF Passes
<1>2. Own(pass[w]) /\ Backed(pass[w], item, payout, ledger)
  BY DEF IInv, Passes
<1>3. \A i \in Items : pass[w].new[i] # NoPayout => payout'[i] = payout[i]
  BY <1>2 DEF Backed
<1> QED
  BY <1>2, <1>3, BackedKept

LEMMA SettleKeeps ==
  ASSUME IInv, NEW i \in Items, NEW k \in DOMAIN ledger[i], Settle(i, k) PROVE IInv'
<1> USE DEF IInv
<1>1. PICK status \in TransferStates :
        /\ \/ ledger[i][k] = "queued" /\ status \in {"processed", "failed"}
           \/ ledger[i][k] = "processed" /\ status = "reversed"
        /\ ledger' = [ledger EXCEPT ![i] = [ledger[i] EXCEPT ![k] = status]]
  BY DEF Settle
<1>2. UNCHANGED <<faults, db, heard, tasks, slot, pass>>
  BY DEF Settle
<1>3. ledger \in [Items -> Seq(TransferStates)] /\ ledger[i] \in Seq(TransferStates)
  BY DEF Types
<1> DEFINE led == [ledger[i] EXCEPT ![k] = status]
<1>4. /\ led \in Seq(TransferStates) /\ Len(led) = Len(ledger[i])
      /\ led[k] = status /\ \A n \in 1 .. Len(ledger[i]) : n # k => led[n] = ledger[i][n]
      /\ DOMAIN ledger[i] = 1 .. Len(ledger[i])
  BY <1>3
<1>5. ledger' = [ledger EXCEPT ![i] = led]
  BY <1>1
<1> HIDE DEF led
<1>6. ledger'[i] = led /\ \A j \in Items \ {i} : ledger'[j] = ledger[j]
  BY <1>3, <1>5
<1>7. GrowsTo(ledger, ledger')
  <2> SUFFICES ASSUME NEW j \in Items, NEW n \in 1 .. Len(ledger[j])
               PROVE  n \in 1 .. Len(ledger'[j]) /\ Happened(ledger[j][n]) \subseteq Happened(ledger'[j][n])
    BY DEF GrowsTo
  <2>1. CASE j = i /\ n = k
    BY <1>1, <1>4, <1>6, <2>1 DEF Happened
  <2>2. CASE ~(j = i /\ n = k)
    BY <1>4, <1>6, <2>2
  <2> QED
    BY <2>1, <2>2
<1>8. Types'
  <2>1. ledger' \in [Items -> Seq(TransferStates)]
    BY <1>3, <1>4, <1>5
  <2>2. \A j \in Items : Len(ledger'[j]) <= MaxTransfers
    BY <1>4, <1>6 DEF Types
  <2> QED
    BY <1>2, <2>1, <2>2 DEF Types, db
<1>9. Rows' /\ PaidMeansRecorded'
  BY <1>2, <1>7, RowsKept DEF PaidMeansRecorded, db
<1>10. Passes'
  BY <1>2, <1>7, PassesKept DEF db
<1>11. OneWriter' /\ SlotHeld' /\ TasksHeld'
  BY <1>2 DEF OneWriter, SlotHeld, TasksHeld, Running, Written, Active
<1> QED
  BY <1>8, <1>9, <1>10, <1>11

\* Payouts take a status the provider reports, and their items the status that goes with it.
LEMMA ReportKeeps ==
  ASSUME IInv,
         batch' \in BatchStates, item' \in [Items -> Item], payout' \in [Items -> Recorded],
         heard' \subseteq {EventId(r) : r \in Report},
         \A i \in Items : payout[i] = NoPayout => payout'[i] = NoPayout /\ item'[i] = item[i],
         \A i \in Items : payout[i] # NoPayout =>
           /\ payout'[i] # NoPayout /\ payout'[i].ref = payout[i].ref
           /\ Tells(payout'[i], ledger[i])
           /\ item'[i].status # "absent" \/ item'[i] = item[i]
           /\ item'[i].status = "success" => Succeeded(ledger[i], payout[i].ref),
         batch' = "paid" => \A i \in Items : payout[i] # NoPayout,
         UNCHANGED <<faults, published, ledger, tasks, slot, pass>>
  PROVE  IInv'
<1> USE DEF IInv
<1>1. Types'
  BY DEF Types
<1>2. Rows'
  BY DEF Rows
<1>3. PaidMeansRecorded'
  BY DEF PaidMeansRecorded
<1>4. Passes'
  BY GrowsReflexive, PassesKept
<1>5. OneWriter' /\ SlotHeld' /\ TasksHeld'
  BY DEF OneWriter, SlotHeld, TasksHeld, Running, Written, Active
<1> QED
  BY <1>1, <1>2, <1>3, <1>4, <1>5

LEMMA WebhookKeeps ==
  ASSUME IInv, NEW r \in Report, Webhook(r) PROVE IInv'
<1> DEFINE i == r.item
<1>1. /\ r.item \in Items /\ r.ref \in 1 .. MaxTransfers /\ r.status \in TransferStates
      /\ MaxTransfers \in Nat
  BY BoundAssumption DEF Report
<1>2. /\ heard' = heard \cup {EventId(r)}
      /\ UNCHANGED <<faults, published, ledger, tasks, slot, pass>>
  BY DEF Webhook
<1>3. batch \in BatchStates /\ item \in [Items -> Item] /\ payout \in [Items -> Recorded]
      /\ heard' \subseteq {EventId(s) : s \in Report} /\ ledger \in [Items -> Seq(TransferStates)]
  BY <1>2 DEF IInv, Types
<1>4. CASE payout[i].ref = r.ref
  <2>1. /\ payout' = [payout EXCEPT ![i] = [payout[i] EXCEPT !.status = r.status]]
        /\ item' = [item EXCEPT ![i] = [item[i] EXCEPT !.status = Mapped(r.status)]]
        /\ batch' = Derived(batch, StatusOf(item))
    BY <1>4 DEF Webhook, Sync
  <2>2. /\ r.ref \in 1 .. Len(ledger[i])
        /\ r.status \in Happened(ledger[i][r.ref])
        /\ r.status = "processed" => "processed" \in Happened(ledger[i][r.ref])
    <3>1. /\ r.ref <= Len(ledger[i]) /\ Len(ledger[i]) \in Nat
          /\ \/ r.status \in {"processed", "failed", "reversed"} /\ r.status = ledger[i][r.ref]
             \/ r.status = "processed" /\ ledger[i][r.ref] = "reversed"
      BY <1>1, <1>3 DEF Webhook, Sent
    <3> QED
      BY <1>1, <3>1 DEF Happened
  <2>3. payout[i] # NoPayout
    BY <1>1, <1>4 DEF NoPayout
  <2>4. [payout[i] EXCEPT !.status = r.status] = [ref |-> r.ref, status |-> r.status]
    <3>1. payout[i] \in [ref : 1 .. MaxTransfers, status : TransferStates]
      BY <1>1, <1>3, <2>3 DEF Recorded
    <3> QED
      BY <1>4, <3>1
  <2>5. Mapped(r.status) \in {"pending", "success", "failed"}
        /\ (Mapped(r.status) = "success" => r.status = "processed")
    BY <1>1, MappedType
  <2>6. [item[i] EXCEPT !.status = Mapped(r.status)] \in Item
        /\ [item[i] EXCEPT !.status = Mapped(r.status)].status = Mapped(r.status)
    BY <1>1, <1>3, <2>5 DEF Item, ItemStates
  <2>7. /\ payout'[i] = [ref |-> r.ref, status |-> r.status]
        /\ item'[i].status = Mapped(r.status) /\ item'[i] \in Item
        /\ \A j \in Items \ {i} : payout'[j] = payout[j] /\ item'[j] = item[j]
    BY <1>1, <1>3, <2>1, <2>4, <2>6
  <2>8. item' \in [Items -> Item]
    BY <1>1, <1>3, <2>1, <2>6
  <2>9. [ref |-> r.ref, status |-> r.status] \in Recorded
    BY <1>1 DEF Recorded
  <2>10. payout' \in [Items -> Recorded]
    BY <1>1, <1>3, <2>1, <2>4, <2>9
  <2>11. batch' \in BatchStates
    BY <1>3, <2>1, DerivedType
  <2>12. ASSUME batch' = "paid", NEW j \in Items PROVE payout[j] # NoPayout
    <3>1. CASE batch = "paid"
      BY <3>1 DEF IInv, PaidMeansRecorded
    <3>2. CASE batch # "paid"
      <4>1. StatusOf(item)[j] = "success"
        BY <2>1, <2>12, <3>2, DerivedPaid
      <4> QED
        BY <4>1 DEF StatusOf, IInv, Rows
    <3> QED
      BY <3>1, <3>2
  <2>13. /\ payout'[i] # NoPayout /\ payout'[i].ref = payout[i].ref
         /\ Tells(payout'[i], ledger[i])
         /\ item'[i].status # "absent"
         /\ item'[i].status = "success" => Succeeded(ledger[i], payout[i].ref)
    BY <1>1, <1>4, <2>2, <2>5, <2>7 DEF Tells, Succeeded, NoPayout
  <2>14. \A j \in Items : payout[j] = NoPayout => payout'[j] = NoPayout /\ item'[j] = item[j]
    BY <2>3, <2>7
  <2>15. ASSUME NEW j \in Items, payout[j] # NoPayout
         PROVE  /\ payout'[j] # NoPayout /\ payout'[j].ref = payout[j].ref
                /\ Tells(payout'[j], ledger[j])
                /\ item'[j].status # "absent" \/ item'[j] = item[j]
                /\ item'[j].status = "success" => Succeeded(ledger[j], payout[j].ref)
    BY <2>7, <2>13, <2>15 DEF IInv, Rows
  <2> QED
    BY <1>2, <1>3, <2>8, <2>10, <2>11, <2>12, <2>14, <2>15, ReportKeeps
<1>5. CASE payout[i].ref # r.ref
  <2>1. UNCHANGED <<payout, item, batch>>
    BY <1>5 DEF Webhook
  <2>2. batch = "paid" => \A j \in Items : payout[j] # NoPayout
    BY DEF IInv, PaidMeansRecorded
  <2> QED
    BY <1>2, <1>3, <2>1, <2>2, ReportKeeps DEF IInv, Rows
<1> QED
  BY <1>4, <1>5

LEMMA RecoverKeeps ==
  ASSUME IInv, Recover PROVE IInv'
<1> DEFINE known == {i \in Items : payout[i] # NoPayout}
           now(i) == ledger[i][payout[i].ref]
           synced == [i \in Items |-> IF i \in known THEN Mapped(now(i)) ELSE item[i].status]
<1>1. PICK last \in known :
        /\ payout' = [i \in Items |-> IF i \in known THEN [payout[i] EXCEPT !.status = now(i)]
                                                     ELSE payout[i]]
        /\ item' = [i \in Items |-> [item[i] EXCEPT !.status = synced[i]]]
        /\ batch' = Derived(batch, [synced EXCEPT ![last] = item[last].status])
        /\ UNCHANGED <<faults, published, ledger, heard, tasks, slot, pass>>
  BY DEF Recover
<1>2. batch \in BatchStates /\ item \in [Items -> Item] /\ payout \in [Items -> Recorded]
      /\ heard \subseteq {EventId(r) : r \in Report} /\ ledger \in [Items -> Seq(TransferStates)]
  BY DEF IInv, Types
<1>3. ASSUME NEW i \in Items, payout[i] # NoPayout
      PROVE  /\ payout'[i] \in Recorded /\ payout'[i] # NoPayout /\ payout'[i].ref = payout[i].ref
             /\ Tells(payout'[i], ledger[i])
             /\ item'[i] \in Item /\ item'[i].status # "absent"
             /\ item'[i].status = "success" => Succeeded(ledger[i], payout[i].ref)
  <2>1. i \in known /\ payout[i].ref \in 1 .. MaxTransfers /\ Tells(payout[i], ledger[i])
    BY <1>2, <1>3 DEF IInv, Rows, Recorded
  <2>2. now(i) \in TransferStates
    BY <1>2, <2>1 DEF Tells
  <2>3. payout'[i] = [payout[i] EXCEPT !.status = now(i)]
    BY <1>1, <2>1
  <2>4. item'[i] = [item[i] EXCEPT !.status = Mapped(now(i))]
    BY <1>1, <2>1
  <2> HIDE DEF now
  <2>5. Mapped(now(i)) \in {"pending", "success", "failed"}
        /\ (Mapped(now(i)) = "success" => now(i) = "processed")
    BY <2>2, MappedType
  <2>6. payout'[i] = [ref |-> payout[i].ref, status |-> now(i)]
    BY <1>2, <1>3, <2>3 DEF Recorded
  <2>7. payout'[i] \in Recorded /\ payout'[i] # NoPayout /\ payout'[i].ref = payout[i].ref
        /\ payout'[i].status = now(i)
    BY <2>1, <2>2, <2>6, BoundAssumption DEF Recorded, NoPayout
  <2>8. now(i) \in Happened(ledger[i][payout[i].ref])
    BY <2>2 DEF now, Happened, TransferStates
  <2>9. item'[i] \in Item /\ item'[i].status = Mapped(now(i))
    BY <1>2, <2>4, <2>5 DEF Item, ItemStates
  <2> QED
    BY <2>1, <2>5, <2>7, <2>8, <2>9 DEF Tells, Succeeded
<1>4. ASSUME NEW i \in Items, payout[i] = NoPayout
      PROVE  payout'[i] = NoPayout /\ item'[i] = item[i]
  <2>1. i \notin known
    BY <1>4
  <2>2. payout'[i] = payout[i]
    BY <1>1, <2>1
  <2>3. item'[i] = [item[i] EXCEPT !.status = item[i].status]
    BY <1>1, <2>1
  <2>4. item[i] \in Item
    BY <1>2
  <2> QED
    BY <1>4, <2>2, <2>3, <2>4 DEF Item
<1>5. payout' = [i \in Items |-> payout'[i]] /\ item' = [i \in Items |-> item'[i]]
  BY <1>1
<1>6. payout' \in [Items -> Recorded] /\ item' \in [Items -> Item]
  BY <1>2, <1>3, <1>4, <1>5
<1>7. batch' \in BatchStates
  BY <1>1, <1>2, DerivedType
<1>8. ASSUME batch' = "paid", NEW i \in Items PROVE payout[i] # NoPayout
  <2>1. CASE batch = "paid"
    BY <2>1 DEF IInv, PaidMeansRecorded
  <2>2. CASE batch # "paid"
    <3> DEFINE seen == [synced EXCEPT ![last] = item[last].status]
    <3>0. Derived(batch, seen) = "paid"
      BY <1>1, <1>8
    <3> HIDE DEF seen
    <3>1. seen[i] = "success"
      BY <2>2, <3>0, DerivedPaid
    <3>2. SUFFICES ASSUME i \notin known PROVE FALSE
      OBVIOUS
    <3>3. item[i].status = "success"
      BY <3>1, <3>2 DEF seen
    <3> QED
      BY <3>2, <3>3 DEF IInv, Rows
  <2> QED
    BY <2>1, <2>2
<1> HIDE DEF known, synced
<1> QED
  BY <1>1, <1>2, <1>3, <1>4, <1>6, <1>7, <1>8, ReportKeeps
------------------------------------------------------------------------------
(* Every step keeps the invariant. *)

LEMMA IInvInit == Init => IInv
<1> SUFFICES ASSUME Init PROVE IInv
  OBVIOUS
<1>1. \A w \in Workers : ~Active(w)
  BY DEF Init, Active, Idle
<1>2. Types
  <2>1. Absent \in Item /\ NoPayout \in Recorded
    BY BoundAssumption DEF Absent, Item, ItemStates, Recorded
  <2>2. <<>> \in Seq(TransferStates) /\ Len(<<>>) <= MaxTransfers
    BY BoundAssumption
  <2>3. tasks \in [Kinds -> Nat] /\ tasks["process"] <= Enqueued
    BY BoundAssumption DEF Init, Kinds
  <2> QED
    BY <2>1, <2>2, <2>3 DEF Init, Types, BatchStates
<1>3. Rows
  BY DEF Init, Rows, Absent
<1>4. PaidMeansRecorded
  BY DEF Init, PaidMeansRecorded
<1>5. Passes /\ OneWriter /\ SlotHeld
  BY <1>1 DEF Passes, OneWriter, SlotHeld
<1>6. TasksHeld
  <2> SUFFICES ASSUME NEW kind \in Kinds
               PROVE  IsFiniteSet(Running(kind)) /\ Cardinality(Running(kind)) <= tasks[kind]
    BY DEF TasksHeld
  <2>1. Running(kind) = {}
    BY <1>1 DEF Running
  <2>2. tasks[kind] \in Nat
    BY <1>2 DEF Types
  <2> QED
    BY <2>1, <2>2, FS_EmptySet
<1> QED
  BY <1>2, <1>3, <1>4, <1>5, <1>6 DEF IInv

LEMMA IInvNext == IInv /\ [Next]_vars => IInv'
<1> SUFFICES ASSUME IInv, [Next]_vars PROVE IInv'
  OBVIOUS
<1>1. ASSUME NEW w \in Workers, Work(w) PROVE IInv'
  <2>1. ASSUME NEW kind \in Kinds, Start(w, kind) PROVE IInv'
    BY <2>1, StartKeeps
  <2>2. ASSUME NEW i \in Items, Skip(w, i) \/ MissingAccount(w, i) \/ Check(w, i) PROVE IInv'
    BY <2>2, SkipKeeps, MissingAccountKeeps, CheckKeeps
  <2>3. CASE CopyRecorded(w) \/ Hold(w) \/ Refuse(w)
    BY <2>3, CopyRecordedKeeps, HoldRefuseKeep
  <2>4. ASSUME NEW status \in {"queued", "processed"}, Pay(w, status) PROVE IInv'
    BY <2>4, PayKeeps
  <2>5. ASSUME NEW transient \in BOOLEAN, LoseAnswer(w, transient) PROVE IInv'
    BY <2>5, LoseAnswerKeeps
  <2>6. CASE Conclude(w) \/ Commit(w) \/ Rollback(w)
    BY <2>6, ConcludeKeeps, CommitKeeps, RollbackKeeps
  <2> QED
    BY <1>1, <2>1, <2>2, <2>3, <2>4, <2>5, <2>6 DEF Work
<1>2. ASSUME NEW w \in Workers, Crash(w) PROVE IInv'
  BY <1>2, CrashKeeps
<1>3. ASSUME NEW kind \in Kinds, EndAtOnce(kind) PROVE IInv'
  BY <1>3, EndAtOnceKeeps
<1>4. CASE RequestRetry
  BY <1>4, RequestRetryKeeps
<1>5. CASE Provider
  BY <1>5, SettleKeeps, WebhookKeeps DEF Provider
<1>6. CASE Recover
  BY <1>6, RecoverKeeps
<1>7. CASE UNCHANGED vars
  BY <1>7 DEF IInv, vars, Types, Rows, PaidMeansRecorded, Passes, OneWriter, SlotHeld,
     TasksHeld, Running, Written, Active
<1> QED
  BY <1>1, <1>2, <1>3, <1>4, <1>5, <1>6, <1>7 DEF Next

THEOREM InvariantHolds == Spec => []IInv
BY IInvInit, IInvNext, PTL DEF Spec

\* Every value the tables, the broker, the provider and the workers hold has its type,
\* and never more tasks are waiting than were sent: a task is given up once.
THEOREM TypeCorrect == Spec => []TypeOK
<1>1. IInv => TypeOK
  BY DEF IInv, Types, TypeOK, Kinds
<1> QED
  BY <1>1, InvariantHolds, PTL

\* A batch is called paid only when every employee's payout is recorded.
THEOREM PaidAlwaysRecorded == Spec => []PaidMeansRecorded
<1>1. IInv => PaidMeansRecorded
  BY DEF IInv
<1> QED
  BY <1>1, InvariantHolds, PTL

\* What the tables say of a payout happened at the provider.
THEOREM RecordedAlwaysHappened == Spec => []RecordedHappened
<1>1. IInv => RecordedHappened
  <2> SUFFICES ASSUME IInv, NEW i \in Items
               PROVE  /\ payout[i] # NoPayout =>
                           /\ payout[i].ref <= Len(ledger[i])
                           /\ payout[i].status \in Happened(ledger[i][payout[i].ref])
                      /\ item[i].status = "success" =>
                           /\ payout[i] # NoPayout
                           /\ "processed" \in Happened(ledger[i][payout[i].ref])
    BY DEF RecordedHappened
  <2>1. Len(ledger[i]) \in Nat
    BY DEF IInv, Types
  <2> QED
    BY <2>1 DEF IInv, Rows, Tells, Succeeded
<1> QED
  BY <1>1, InvariantHolds, PTL

\* A recorded payout keeps its transfer: no later pass, report or recovery replaces it.
THEOREM RecordsKept == Spec => RecordKept
<1>1. ASSUME IInv, [Next]_vars
      PROVE  [\A i \in Items : payout[i] # NoPayout => payout'[i].ref = payout[i].ref]_vars
  <2> SUFFICES ASSUME NEW i \in Items, payout[i] # NoPayout, ~UNCHANGED vars
               PROVE  payout'[i].ref = payout[i].ref
    OBVIOUS
  <2>1. payout \in [Items -> Recorded] /\ payout[i] \in [ref : 1 .. MaxTransfers, status : TransferStates]
    BY <1>1 DEF IInv, Types, Recorded
  <2>2. ASSUME NEW w \in Workers, Commit(w) PROVE payout'[i].ref = payout[i].ref
    BY <1>1, <2>2, CommitRow
  <2>3. ASSUME NEW r \in Report, Webhook(r) PROVE payout'[i].ref = payout[i].ref
    BY <2>1, <2>3 DEF Webhook, Sync
  <2>4. ASSUME Recover PROVE payout'[i].ref = payout[i].ref
    <3>1. payout'[i] = [payout[i] EXCEPT !.status = ledger[i][payout[i].ref]]
      BY <2>4 DEF Recover
    <3> QED
      BY <2>1, <3>1
  <2>5. ASSUME NEW w \in Workers, Work(w) \/ Crash(w) PROVE Commit(w) \/ UNCHANGED payout
    <3>1. ASSUME NEW kind \in Kinds, Start(w, kind) PROVE UNCHANGED payout
      BY <3>1 DEF Start, db
    <3>2. ASSUME NEW j \in Items, Skip(w, j) \/ MissingAccount(w, j) \/ Check(w, j)
          PROVE  UNCHANGED payout
      BY <3>2 DEF Skip, MissingAccount, Check, db
    <3>3. CopyRecorded(w) \/ Hold(w) \/ Refuse(w) => UNCHANGED payout
      BY DEF CopyRecorded, Hold, Refuse, db
    <3>4. ASSUME NEW status, Pay(w, status) PROVE UNCHANGED payout
      BY <3>4 DEF Pay, db
    <3>5. ASSUME NEW transient, LoseAnswer(w, transient) PROVE UNCHANGED payout
      BY <3>5 DEF LoseAnswer, db
    <3>6. Conclude(w) \/ Rollback(w) \/ Crash(w) => UNCHANGED payout
      BY DEF Conclude, Rollback, Crash, db
    <3> QED
      BY <2>5, <3>1, <3>2, <3>3, <3>4, <3>5, <3>6 DEF Work
  <2>6. ASSUME NEW kind \in Kinds, EndAtOnce(kind) PROVE UNCHANGED payout
    BY <2>6 DEF EndAtOnce, db
  <2>7. ASSUME NEW j \in Items, NEW k, Settle(j, k) PROVE UNCHANGED payout
    BY <2>7 DEF Settle, db
  <2>8. RequestRetry => UNCHANGED payout
    BY DEF RequestRetry, db
  <2> QED
    BY <1>1, <2>2, <2>3, <2>4, <2>5, <2>6, <2>7, <2>8 DEF Next, Provider
<1> QED
  BY <1>1, InvariantHolds, PTL DEF Spec, RecordKept
------------------------------------------------------------------------------
(* One transfer per item, while nobody retries, no answer is lost and no exception *)
(* ends a pass.                                                                    *)

\* The pass under way is the only one, and it holds the slot.
LEMMA OnlyPass ==
  ASSUME IInv, OnePass, Quiet, NEW w \in Workers, Active(w)
  PROVE  /\ slot /\ \A v \in Workers : Active(v) => v = w
         /\ pass[w].kind = "process" /\ pass[w].pc # "broken" /\ ~pass[w].transient
         /\ published = {} /\ \A i \in Items : payout[i] = NoPayout
BY DEF OnePass, IInv, SlotHeld

\* A step inside that pass, which transfers to nobody it has still to deal with.
LEMMA OneStep ==
  ASSUME IInv, OnePass, Quiet, NEW w \in Workers, Active(w),
         NEW q, q.pc # "idle", q.pc # "broken", q.kind = pass[w].kind,
         q.transient = pass[w].transient, q.todo \subseteq pass[w].todo,
         pass' = [pass EXCEPT ![w] = q],
         \A i \in Items : Len(ledger'[i]) <= 1,
         \A i \in q.todo : ledger'[i] = <<>>,
         UNCHANGED <<faults, db, heard, tasks, slot>>
  PROVE  OnePass'
<1>1. pass'[w] = q /\ \A v \in Workers \ {w} : pass'[v] = pass[v]
  BY DEF IInv, Types
<1>2. \A v \in Workers : Active(v)' => v = w
  BY <1>1, OnlyPass DEF Active
<1> QED
  BY <1>1, <1>2, OnlyPass DEF OnePass, db

\* The transfers are those of before.
LEMMA OneLedger ==
  ASSUME OnePass, Quiet, NEW w \in Workers, Active(w), UNCHANGED ledger
  PROVE  /\ \A i \in Items : Len(ledger'[i]) <= 1
         /\ \A i \in pass[w].todo : ledger'[i] = <<>>
BY DEF OnePass

LEMMA OneDealt ==
  ASSUME IInv, OnePass, Quiet, NEW w \in Workers, NEW i, MayDeal(w, i),
         NEW status \in Outcomes, NEW bad \in BOOLEAN,
         pass' = [pass EXCEPT ![w] = Done(w, i, status, bad)],
         UNCHANGED <<faults, db, ledger, heard, tasks, slot>>
  PROVE  OnePass'
<1> DEFINE q == Done(w, i, status, bad)
<1>1. q = Done(w, i, status, bad) /\ pass' = [pass EXCEPT ![w] = q]
  OBVIOUS
<1> HIDE DEF q
<1>2. Dealt(w, i, status, q) /\ SameRest(w, q)
  BY <1>1, DoneDealt
<1>3. Active(w)
  BY DealTypes
<1>4. /\ q.pc # "idle" /\ q.pc # "broken" /\ q.kind = pass[w].kind
      /\ q.transient = pass[w].transient /\ q.todo \subseteq pass[w].todo
  BY <1>2 DEF Dealt, SameRest
<1>5. /\ \A j \in Items : Len(ledger'[j]) <= 1
      /\ \A j \in q.todo : ledger'[j] = <<>>
  BY <1>3, <1>4, OneLedger
<1> QED
  BY <1>1, <1>3, <1>4, <1>5, OneStep

LEMMA OneStart ==
  ASSUME IInv, OnePass, Quiet, NEW w \in Workers, NEW kind \in Kinds, Start(w, kind)
  PROVE  OnePass'
<1>1. PICK q : /\ pass' = [pass EXCEPT ![w] = q]
               /\ q.pc = "run" /\ q.kind = kind /\ q.transient = FALSE /\ q.todo \subseteq Items
  <2> DEFINE fresh == kind = "process" /\ \A i \in Items : item[i] = Absent
             loaded == IF fresh
                       THEN [i \in Items |->
                              [status |-> IF i \in Unbanked THEN "failed" ELSE "pending",
                               attempts |-> 0]]
                       ELSE item
             q == [pc |-> "run", kind |-> kind, cur |-> NoItem, found |-> NoPayout,
                   todo |-> {i \in Items : loaded[i].status # "absent"},
                   old |-> item, mem |-> loaded, new |-> [i \in Items |-> NoPayout],
                   status |-> "payout_in_progress", wrote |-> batch # "payout_in_progress",
                   anyFailed |-> FALSE, transient |-> FALSE]
  <2>1. pass' = [pass EXCEPT ![w] = q]
    BY DEF Start
  <2>2. q.pc = "run" /\ q.kind = kind /\ q.transient = FALSE /\ q.todo \subseteq Items
    OBVIOUS
  <2> HIDE DEF q
  <2> QED
    BY <2>1, <2>2
<1>2. /\ ~Active(w) /\ tasks[kind] > Cardinality(Running(kind))
      /\ (kind = "process" => ~slot) /\ slot' = (slot \/ kind = "process")
      /\ UNCHANGED <<faults, db, ledger, heard, tasks>>
  BY DEF Start
<1>3. kind = "process"
  <2>1. Cardinality(Running(kind)) \in Nat
    BY FS_CardinalityType DEF IInv, TasksHeld
  <2> QED
    BY <1>2, <2>1 DEF OnePass, Kinds
<1>4. ~slot /\ slot'
  BY <1>2, <1>3
<1>5. \A v \in Workers : ~Active(v)
  BY <1>4, OnlyPass
<1>6. pass'[w] = q /\ \A v \in Workers \ {w} : pass'[v] = pass[v]
  BY <1>1 DEF IInv, Types
<1>7. \A v \in Workers : Active(v)' => v = w
  BY <1>5, <1>6 DEF Active
<1>8. published = {} /\ \A i \in Items : payout[i] = NoPayout /\ ledger[i] = <<>>
  BY <1>4 DEF OnePass
<1> QED
  BY <1>1, <1>2, <1>3, <1>4, <1>6, <1>7, <1>8 DEF OnePass, db

\* The pass ends: the slot stays taken.
LEMMA OneEnd ==
  ASSUME IInv, OnePass, Quiet, NEW w \in Workers, Active(w),
         pass' = [pass EXCEPT ![w] = Idle], tasks'["retry"] = tasks["retry"],
         UNCHANGED <<faults, ledger, slot>>
  PROVE  OnePass'
<1>1. pass'[w] = Idle /\ \A v \in Workers \ {w} : pass'[v] = pass[v]
  BY DEF IInv, Types
<1>2. \A v \in Workers : ~Active(v)'
  <2> SUFFICES ASSUME NEW v \in Workers PROVE pass'[v].pc = "idle"
    BY DEF Active
  <2>1. v # w => ~Active(v)
    BY OnlyPass
  <2> QED
    BY <1>1, <2>1 DEF Active, Idle
<1>3. slot
  BY OnlyPass
<1> QED
  BY <1>2, <1>3 DEF OnePass

LEMMA OnePay ==
  ASSUME IInv, OnePass, Quiet, NEW w \in Workers, NEW status \in {"queued", "processed"},
         Pay(w, status)
  PROVE  OnePass'
<1> DEFINE p == pass[w]
           i == p.cur
           outcome == Mapped(status)
           bad == outcome = "failed"
           paid == Done(w, i, outcome, bad)
           before == [paid EXCEPT !.mem[i].status = p.mem[i].status]
           target == Derived(p.status, View(before))
           rec == [ref |-> Len(ledger[i]) + 1, status |-> status]
           wrote == paid.wrote \/ target # p.status
           new == [paid.new EXCEPT ![i] = rec]
           q == [paid EXCEPT !.new = new, !.status = target, !.wrote = wrote]
<1>1. /\ p.pc = "checked" /\ Transfer(i, status)
      /\ UNCHANGED <<faults, db, heard, tasks, slot>>
      /\ pass' = [pass EXCEPT ![w] = IF payout[i] # NoPayout THEN [p EXCEPT !.pc = "broken"] ELSE q]
  BY DEF Pay, MayPay
<1>2. MayDeal(w, i) /\ i \in Items /\ status \in TransferStates
  BY <1>1, CheckedPass DEF TransferStates
<1>3. Active(w) /\ i \in p.todo
  BY <1>2, DealTypes
<1>4. payout[i] = NoPayout
  BY <1>2, <1>3, OnlyPass
<1>5. pass' = [pass EXCEPT ![w] = q]
  BY <1>1, <1>4
<1>6. outcome \in Outcomes /\ bad \in BOOLEAN /\ paid = Done(w, i, outcome, bad)
  BY <1>2, MappedType DEF Outcomes
<1> HIDE DEF outcome, bad, paid, rec, wrote, new, target, q
<1>7. Dealt(w, i, outcome, paid) /\ SameRest(w, paid)
  BY <1>2, <1>6, DoneDealt
<1>8. paid \in Pass /\ paid.pc = "run" /\ paid.kind = p.kind /\ paid.todo = p.todo \ {i}
      /\ paid.transient = p.transient
  BY <1>7 DEF Dealt, SameRest
<1>9. /\ q.pc # "idle" /\ q.pc # "broken" /\ q.kind = p.kind
      /\ q.transient = p.transient /\ q.todo = p.todo \ {i}
  BY <1>8 DEF Pass, q
<1>10. /\ Len(ledger'[i]) = Len(ledger[i]) + 1
       /\ \A j \in Items \ {i} : ledger'[j] = ledger[j]
  BY <1>1, <1>2, TransferEffect DEF IInv
<1>11. ledger[i] = <<>> /\ \A j \in p.todo : ledger[j] = <<>>
  BY <1>3 DEF OnePass
<1>12. /\ \A j \in Items : Len(ledger'[j]) <= 1
       /\ \A j \in q.todo : ledger'[j] = <<>>
  <2>1. p.todo \subseteq Items
    BY <1>2, DealTypes DEF Pass
  <2>2. Len(ledger'[i]) <= 1
    BY <1>10, <1>11
  <2>3. \A j \in Items : Len(ledger[j]) <= 1
    BY DEF OnePass
  <2>4. \A j \in Items : Len(ledger'[j]) <= 1
    <3> SUFFICES ASSUME NEW j \in Items PROVE Len(ledger'[j]) <= 1
      OBVIOUS
    <3>1. CASE j = i
      BY <2>2, <3>1
    <3>2. CASE j # i
      BY <1>10, <2>3, <3>2
    <3> QED
      BY <3>1, <3>2
  <2> QED
    BY <1>9, <1>10, <1>11, <2>1, <2>4
<1>13. q.todo \subseteq p.todo
  BY <1>9
<1> QED
  BY <1>1, <1>3, <1>5, <1>9, <1>12, <1>13, OneStep

\* The other steps of a pass.
LEMMA OneWork ==
  ASSUME IInv, OnePass, Quiet, NEW w \in Workers, Work(w) PROVE OnePass'
<1>1. ASSUME NEW kind \in Kinds, Start(w, kind) PROVE OnePass'
  BY <1>1, OneStart
<1>2. ASSUME NEW i \in Items, Skip(w, i) PROVE OnePass'
  <2> DEFINE p == pass[w]
             q == [p EXCEPT !.todo = p.todo \ {i},
                            !.anyFailed = p.anyFailed \/ p.mem[i].status # "success"]
  <2>1. /\ p.pc = "run" /\ Active(w) /\ pass' = [pass EXCEPT ![w] = q]
        /\ UNCHANGED <<faults, db, ledger, heard, tasks, slot>>
    BY <1>2 DEF Skip, Active
  <2>2. p \in Pass
    BY <2>1, ActivePass DEF IInv
  <2>3. /\ q.pc # "idle" /\ q.pc # "broken" /\ q.kind = p.kind
        /\ q.transient = p.transient /\ q.todo \subseteq p.todo
    BY <2>1, <2>2 DEF Pass
  <2> HIDE DEF q
  <2>4. /\ \A j \in Items : Len(ledger'[j]) <= 1
        /\ \A j \in q.todo : ledger'[j] = <<>>
    BY <2>1, <2>3, OneLedger
  <2> QED
    BY <2>1, <2>3, <2>4, OneStep
<1>3. ASSUME NEW i \in Items, MissingAccount(w, i) PROVE OnePass'
  <2>1. /\ MayDeal(w, i) /\ "failed" \in Outcomes
        /\ pass' = [pass EXCEPT ![w] = Done(w, i, "failed", TRUE)]
        /\ UNCHANGED <<faults, db, ledger, heard, tasks, slot>>
    BY <1>3 DEF MissingAccount, MayDeal, Active, Outcomes
  <2> QED
    BY <2>1, OneDealt, Zenon
<1>4. ASSUME NEW i \in Items, Check(w, i) PROVE OnePass'
  <2> DEFINE p == pass[w]
             q == [p EXCEPT !.pc = "checked", !.cur = i, !.found = payout[i]]
  <2>1. /\ p.pc = "run" /\ Active(w) /\ pass' = [pass EXCEPT ![w] = q]
        /\ UNCHANGED <<faults, db, ledger, heard, tasks, slot>>
    BY <1>4 DEF Check, Active
  <2>2. p \in Pass
    BY <2>1, ActivePass DEF IInv
  <2>3. /\ q.pc # "idle" /\ q.pc # "broken" /\ q.kind = p.kind
        /\ q.transient = p.transient /\ q.todo \subseteq p.todo
    BY <2>1, <2>2 DEF Pass
  <2> HIDE DEF q
  <2>4. /\ \A j \in Items : Len(ledger'[j]) <= 1
        /\ \A j \in q.todo : ledger'[j] = <<>>
    BY <2>1, <2>3, OneLedger
  <2> QED
    BY <2>1, <2>3, <2>4, OneStep
<1>5. CASE CopyRecorded(w)
  <2>1. pass[w].pc = "checked" /\ pass[w].found # NoPayout
    BY <1>5 DEF CopyRecorded
  <2>2. MayDeal(w, pass[w].cur) /\ pass[w].cur \in Items
    BY <2>1, CheckedPass
  <2>3. Active(w) /\ Backed(pass[w], item, payout, ledger)
    BY <2>2, DealTypes
  <2>4. payout[pass[w].cur] # NoPayout
    BY <2>1, <2>3 DEF Backed
  <2> QED
    BY <2>2, <2>3, <2>4, OnlyPass
<1>6. CASE Hold(w) \/ Refuse(w)
  <2>1. PICK status \in Outcomes :
          /\ pass[w].pc = "checked"
          /\ pass' = [pass EXCEPT ![w] = Done(w, pass[w].cur, status, TRUE)]
          /\ UNCHANGED <<faults, db, ledger, heard, tasks, slot>>
    BY <1>6 DEF Hold, Refuse, MayPay, Outcomes
  <2>2. MayDeal(w, pass[w].cur)
    BY <2>1, CheckedPass
  <2> QED
    BY <2>1, <2>2, OneDealt, Zenon
<1>7. ASSUME NEW status \in {"queued", "processed"}, Pay(w, status) PROVE OnePass'
  BY <1>7, OnePay
<1>8. ASSUME NEW transient \in BOOLEAN, LoseAnswer(w, transient) PROVE FALSE
  BY <1>8 DEF LoseAnswer, Quiet
<1>9. CASE Conclude(w)
  <2> DEFINE p == pass[w]
             first == Derived(p.status, View(p))
             target == IF first = "payout_in_progress" /\ ~p.anyFailed
                          /\ "failed" \in {View(p)[i] : i \in Items}
                       THEN "failed" ELSE first
             wrote == p.wrote \/ target # p.status
             q == [p EXCEPT !.pc = "concluded", !.status = target, !.wrote = wrote]
  <2>1. /\ p.pc = "run" /\ Active(w) /\ pass' = [pass EXCEPT ![w] = q]
        /\ UNCHANGED <<faults, db, ledger, heard, tasks, slot>>
    BY <1>9 DEF Conclude, Active
  <2>2. p \in Pass
    BY <2>1, ActivePass DEF IInv
  <2> HIDE DEF target, wrote
  <2>3. /\ q.pc # "idle" /\ q.pc # "broken" /\ q.kind = p.kind
        /\ q.transient = p.transient /\ q.todo \subseteq p.todo
    BY <2>1, <2>2 DEF Pass
  <2> HIDE DEF q
  <2>4. /\ \A j \in Items : Len(ledger'[j]) <= 1
        /\ \A j \in q.todo : ledger'[j] = <<>>
    BY <2>1, <2>3, OneLedger
  <2> QED
    BY <2>1, <2>3, <2>4, OneStep
<1>10. CASE Commit(w)
  <2>1. /\ Active(w) /\ pass' = [pass EXCEPT ![w] = Idle]
        /\ tasks' = [tasks EXCEPT ![pass[w].kind] = @ - 1]
        /\ UNCHANGED <<faults, ledger, slot>>
    BY <1>10 DEF Commit, Active
  <2>2. pass[w].kind = "process" /\ tasks \in [Kinds -> Nat]
    BY <2>1, OnlyPass DEF IInv, Types
  <2>3. tasks'["retry"] = tasks["retry"]
    BY <2>1, <2>2 DEF Kinds
  <2> QED
    BY <2>1, <2>3, OneEnd
<1>11. CASE Rollback(w)
  <2>1. Active(w)
    BY <1>11 DEF Rollback, Active
  <2> QED
    BY <1>11, <2>1, OnlyPass DEF Rollback, Quiet
<1> QED
  BY <1>1, <1>2, <1>3, <1>4, <1>5, <1>6, <1>7, <1>8, <1>9, <1>10, <1>11 DEF Work

LEMMA OnePassInit == Init => OnePass
BY DEF Init, OnePass, Active, Idle, Kinds

LEMMA OnePassNext == IInv /\ OnePass /\ [Next]_vars => OnePass'
<1> SUFFICES ASSUME IInv, OnePass, [Next]_vars, Quiet' PROVE OnePass'
  BY DEF OnePass
<1>0. faults' = faults
  <2>1. ASSUME NEW w \in Workers, Work(w) PROVE faults' = faults
    <3>1. ASSUME NEW kind \in Kinds, Start(w, kind) PROVE faults' = faults
      BY <3>1 DEF Start
    <3>2. ASSUME NEW i \in Items, Skip(w, i) \/ MissingAccount(w, i) \/ Check(w, i)
          PROVE  faults' = faults
      BY <3>2 DEF Skip, MissingAccount, Check
    <3>3. CopyRecorded(w) \/ Hold(w) \/ Refuse(w) => faults' = faults
      BY DEF CopyRecorded, Hold, Refuse
    <3>4. ASSUME NEW status, Pay(w, status) PROVE faults' = faults
      BY <3>4 DEF Pay
    <3>5. ASSUME NEW transient, LoseAnswer(w, transient) PROVE faults' = faults
      BY <3>5 DEF LoseAnswer
    <3>6. Conclude(w) \/ Commit(w) \/ Rollback(w) => faults' = faults
      BY DEF Conclude, Commit, Rollback
    <3> QED
      BY <2>1, <3>1, <3>2, <3>3, <3>4, <3>5, <3>6 DEF Work
  <2>2. ASSUME NEW w \in Workers, Crash(w) PROVE faults' = faults
    BY <2>2 DEF Crash
  <2>3. ASSUME NEW kind \in Kinds, EndAtOnce(kind) PROVE faults' = faults
    BY <2>3 DEF EndAtOnce
  <2>4. ASSUME Provider PROVE faults' = faults
    BY <2>4 DEF Provider, Settle, Webhook
  <2>5. RequestRetry \/ Recover \/ UNCHANGED vars => faults' = faults
    BY DEF RequestRetry, Recover, vars
  <2> QED
    BY <2>1, <2>2, <2>3, <2>4, <2>5 DEF Next
<1>1. Quiet
  BY <1>0 DEF Quiet
<1>2. ASSUME NEW w \in Workers, Work(w) PROVE OnePass'
  BY <1>1, <1>2, OneWork
<1>3. ASSUME NEW w \in Workers, Crash(w) PROVE OnePass'
  BY <1>1, <1>3, OneEnd DEF Crash
<1>4. ASSUME NEW kind \in Kinds, EndAtOnce(kind) PROVE OnePass'
  <2>1. Cardinality(Running(kind)) \in Nat /\ tasks \in [Kinds -> Nat]
    BY <1>4, FS_CardinalityType DEF IInv, TasksHeld, Types
  <2>2. kind # "retry"
    BY <1>1, <1>4, <2>1 DEF EndAtOnce, OnePass
  <2>3. tasks'["retry"] = 0
    BY <1>1, <1>4, <2>1, <2>2 DEF EndAtOnce, OnePass, Kinds
  <2> QED
    BY <1>1, <1>4, <2>3 DEF EndAtOnce, OnePass, Active, db
<1>5. CASE RequestRetry
  BY <1>1, <1>5 DEF RequestRetry, Quiet
<1>6. ASSUME NEW i \in Items, NEW k \in DOMAIN ledger[i], Settle(i, k) PROVE OnePass'
  <2>1. PICK status : ledger' = [ledger EXCEPT ![i] = [ledger[i] EXCEPT ![k] = status]]
    BY <1>6 DEF Settle
  <2>2. ledger \in [Items -> Seq(TransferStates)] /\ ledger[i] \in Seq(TransferStates)
    BY DEF IInv, Types
  <2>3. \A j \in Items : Len(ledger'[j]) = Len(ledger[j]) /\ (ledger[j] = <<>> => ledger'[j] = <<>>)
    BY <2>1, <2>2
  <2>4. UNCHANGED <<faults, db, heard, tasks, slot, pass>>
    BY <1>6 DEF Settle
  <2>5. \A w \in Workers : Active(w) => pass[w].todo \subseteq Items
    BY ActivePass DEF IInv, Pass
  <2> QED
    BY <1>1, <2>3, <2>4, <2>5 DEF OnePass, Active, db
<1>7. ASSUME NEW r \in Report, Webhook(r) PROVE OnePass'
  <2>1. UNCHANGED <<faults, published, ledger, tasks, slot, pass>>
    BY <1>7 DEF Webhook
  <2>2. r.ref \in 1 .. MaxTransfers /\ r.item \in Items
    BY DEF Report
  <2>3. ASSUME \A i \in Items : payout[i] = NoPayout PROVE UNCHANGED payout
    <3>1. payout[r.item].ref # r.ref
      BY <2>2, <2>3, BoundAssumption DEF NoPayout
    <3> QED
      BY <1>7, <3>1 DEF Webhook
  <2> QED
    BY <1>1, <2>1, <2>3 DEF OnePass, Active
<1>8. CASE Recover
  <2>1. UNCHANGED <<faults, published, ledger, heard, tasks, slot, pass>>
    BY <1>8 DEF Recover
  <2>2. \E i \in Items : payout[i] # NoPayout
    BY <1>8 DEF Recover
  <2> QED
    BY <1>1, <2>1, <2>2 DEF OnePass, Active
<1>9. CASE UNCHANGED vars
  BY <1>1, <1>9 DEF vars, OnePass, Active
<1> QED
  BY <1>2, <1>3, <1>4, <1>5, <1>6, <1>7, <1>8, <1>9 DEF Next, Provider

\* While nobody asks for a retry, no answer of the provider is lost and no exception ends
\* a pass, the provider makes one transfer for an item: also when the task was sent twice,
\* workers are killed at any point and the broker delivers their tasks again.
THEOREM QuietMeansOneTransfer == Spec => [](Quiet => OneTransfer)
<1>1. IInv /\ OnePass => (Quiet => OneTransfer)
  BY DEF OnePass, OneTransfer
<1> QED
  BY <1>1, OnePassInit, OnePassNext, InvariantHolds, PTL DEF Spec
=============================================================================
