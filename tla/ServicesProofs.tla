--------------------------- MODULE ServicesProofs ---------------------------
(* Proofs about an organisation's records: its set-up, the directory of its   *)
(* employees, their bank accounts and the bank files made of them, the outbox *)
(* of the events it publishes, and the answers kept for requests with a key.  *)
EXTENDS OrgSetup, Directory, BankAccounts, EventOutbox, IdempotentCalls,
        FiniteSetTheorems, SequenceTheorems, TLAPS
-----------------------------------------------------------------------------
(* The set-up of an organisation *)

StepSet ==
  {<<"settings">>, <<"progress">>, <<"onboard">>, <<"activate">>, <<"policy">>, <<"configure">>,
   <<"finish">>} \cup ({"flag", "turn_on"} \X Flags)

Columns == {"complete", "settings", "parts", "engine", "sources", "done", "saved", "flags",
            "policies", "cycles", "rules"}

\* What the argument needs to know of the rows.
Rows(o) ==
  /\ DOMAIN o = Columns
  /\ o.engine \in {"none", "legacy", "v2"} /\ o.flags \in [Flags -> {"unset", "on", "off"}]
  /\ o.complete \in BOOLEAN /\ o.done \in BOOLEAN /\ o.policies \in Nat /\ o.cycles \in Nat

\* The step was done, by somebody, when the rows were o.
DoneIn(o, step) ==
  /\ step = <<"activate">> => o.engine # "none"
  /\ step = <<"policy">> => o.policies > 0
  /\ step = <<"configure">> => o.complete /\ o.cycles > 0
  /\ \A f \in Flags : step = <<"turn_on", f>> => o.flags[f] # "unset"

WizardPlan == {<<"activate">>, <<"policy">>, <<"configure">>} \cup ({"turn_on"} \X Flags)

\* What is done stays done from the rows o to the rows p.
Later(o, p) ==
  /\ o.engine # "none" => p.engine # "none"
  /\ o.policies > 0 => p.policies > 0
  /\ o.cycles > 0 => p.cycles > 0
  /\ o.complete => p.complete
  /\ \A f \in Flags : o.flags[f] # "unset" => p.flags[f] # "unset"

\* A request and what it has read; whoever will stamp the set-up has every step of the
\* wizard before that stamp, or it is done.
Asked(a) ==
  /\ DOMAIN admin[a] = DOMAIN NoRequest
  /\ admin[a].todo \in Seq(StepSet) /\ admin[a].looked \in BOOLEAN
  /\ \A f \in Flags : <<"flag", f>> \in Range(admin[a].todo) => admin[a].arg \in {"on", "off"}
  /\ admin[a].looked =>
       /\ admin[a].todo # <<>>
       /\ Rows(admin[a].seen) /\ Later(admin[a].seen, org)
  /\ <<"finish">> \in Range(admin[a].todo) =>
       \A step \in WizardPlan : step \in Range(admin[a].todo) \/ DoneIn(org, step)
  /\ \A i \in DOMAIN admin[a].todo :
       admin[a].todo[i] = <<"finish">> => i = Len(admin[a].todo)

SetupIInv ==
  /\ Rows(org) /\ DOMAIN admin = Admins /\ \A a \in Admins : Asked(a)
  /\ org.done => \A step \in WizardPlan : DoneIn(org, step)

\* A list that a new request may be given.
Fresh(todo, arg) ==
  /\ todo \in Seq(StepSet)
  /\ \A f \in Flags : <<"flag", f>> \in Range(todo) => arg \in {"on", "off"}
  /\ <<"finish">> \in Range(todo) => WizardPlan \subseteq Range(todo)
  /\ \A i \in DOMAIN todo : todo[i] = <<"finish">> => i = Len(todo)
------------------------------------------------------------------------------
(* Lists of steps *)

\* SetToSeq lists the elements of a finite set.
LEMMA SetListed ==
  ASSUME NEW S, IsFiniteSet(S)
  PROVE  SetToSeq(S) \in Seq(S) /\ Range(SetToSeq(S)) = S
<1> DEFINE n == Cardinality(S)
           q == SetToSeq(S)
<1>1. n \in Nat /\ ExistsBijection(1 .. n, S)
  BY FS_CardinalityType
<1>2. \E f \in [1 .. n -> S] : IsInjective(f)
  BY <1>1 DEF ExistsBijection, Bijection, Injection
<1>3. q \in [1 .. n -> S] /\ IsInjective(q)
  BY <1>2 DEF SetToSeq
<1>4. q \in Injection(1 .. n, S)
  BY <1>3 DEF Injection
<1>5. Cardinality(1 .. n) = n
  BY <1>1, FS_Interval
<1>6. q \in Surjection(1 .. n, S)
  BY <1>4, <1>5, FS_Injection
<1> HIDE DEF q, n
<1>7. q \in Seq(S)
  BY <1>1, <1>3
<1>8. Range(q) = S
  BY <1>3, <1>6 DEF Range, Surjection
<1> QED BY <1>7, <1>8 DEF q

LEMMA ConcatRange ==
  ASSUME NEW T, NEW s \in Seq(T), NEW t \in Seq(T)
  PROVE  s \o t \in Seq(T) /\ Range(s \o t) = Range(s) \cup Range(t)
<1>1. /\ s \o t \in Seq(T) /\ Len(s) \in Nat /\ Len(t) \in Nat
      /\ DOMAIN (s \o t) = 1 .. Len(s) + Len(t)
      /\ DOMAIN s = 1 .. Len(s) /\ DOMAIN t = 1 .. Len(t)
  OBVIOUS
<1>2. \A i \in 1 .. Len(s) + Len(t) :
        (s \o t)[i] = IF i <= Len(s) THEN s[i] ELSE t[i - Len(s)]
  BY ConcatProperties
<1> DEFINE w == s \o t
<1> HIDE DEF w
<1>3. Range(w) \subseteq Range(s) \cup Range(t)
  <2> SUFFICES ASSUME NEW i \in DOMAIN w PROVE w[i] \in Range(s) \cup Range(t)
    BY DEF Range
  <2>1. CASE i <= Len(s)
    BY <1>1, <1>2, <2>1 DEF Range, w
  <2>2. CASE ~(i <= Len(s))
    <3>1. w[i] = t[i - Len(s)] /\ i - Len(s) \in DOMAIN t
      BY <1>1, <1>2, <2>2 DEF w
    <3> QED BY <3>1 DEF Range
  <2> QED BY <2>1, <2>2
<1>4. Range(s) \subseteq Range(w)
  <2> SUFFICES ASSUME NEW i \in DOMAIN s PROVE s[i] \in Range(w)
    BY DEF Range
  <2>1. i \in DOMAIN w /\ w[i] = s[i]
    BY <1>1, <1>2 DEF w
  <2> QED BY <2>1 DEF Range
<1>5. Range(t) \subseteq Range(w)
  <2> SUFFICES ASSUME NEW i \in DOMAIN t PROVE t[i] \in Range(w)
    BY DEF Range
  <2>1. i + Len(s) \in DOMAIN w /\ w[i + Len(s)] = t[i]
    BY <1>1, <1>2 DEF w
  <2> QED BY <2>1 DEF Range
<1> QED BY <1>1, <1>3, <1>4, <1>5 DEF w

LEMMA AppendRange ==
  ASSUME NEW T, NEW s \in Seq(T), NEW x \in T
  PROVE  Append(s, x) \in Seq(T) /\ Range(Append(s, x)) = Range(s) \cup {x}
<1>1. Append(s, x) = s \o <<x>>
  OBVIOUS
<1> DEFINE e == <<x>>
<1>2. e \in Seq(T) /\ Range(e) = {x}
  BY DEF Range
<1> HIDE DEF e
<1>3. s \o e \in Seq(T) /\ Range(s \o e) = Range(s) \cup {x}
  BY <1>2, ConcatRange
<1> QED BY <1>1, <1>3 DEF e

LEMMA EachListed ==
  ASSUME NEW name, NEW S, IsFiniteSet(S)
  PROVE  Each(name, S) \in Seq({name} \X S) /\ Range(Each(name, S)) = {name} \X S
<1> DEFINE q == SetToSeq(S)
<1>1. q \in Seq(S) /\ Range(q) = S
  BY SetListed
<1>2. Each(name, S) = [i \in 1 .. Len(q) |-> <<name, q[i]>>]
  BY DEF Each
<1> HIDE DEF q
<1>3. Len(q) \in Nat /\ DOMAIN q = 1 .. Len(q) /\ \A i \in 1 .. Len(q) : q[i] \in S
  BY <1>1
<1>4. Each(name, S) \in Seq({name} \X S)
  BY <1>2, <1>3
<1>5. Range(Each(name, S)) = {name} \X S
  BY <1>1, <1>2, <1>3 DEF Range
<1> QED BY <1>4, <1>5

\* The steps of an activation, and of the wizard: its stamp is the last of them, and
\* everything else it is made of comes before.
LEMMA BootstrapListed ==
  /\ Bootstrap \in Seq(StepSet)
  /\ Range(Bootstrap) = {<<"policy">>} \cup ({"turn_on"} \X CoreFlags)
<1> DEFINE flags == Each("turn_on", CoreFlags)
<1>1. IsFiniteSet(CoreFlags)
  BY SetupAssumption, FS_Subset DEF Flags
<1>2. flags \in Seq({"turn_on"} \X CoreFlags) /\ Range(flags) = {"turn_on"} \X CoreFlags
  BY <1>1, EachListed
<1>3. {"turn_on"} \X CoreFlags \subseteq StepSet /\ <<"policy">> \in StepSet
  BY DEF StepSet, Flags
<1> HIDE DEF flags
<1>4. flags \in Seq(StepSet)
  BY <1>2, <1>3, SeqMonotonic
<1>5. Bootstrap = Append(flags, <<"policy">>)
  BY DEF Bootstrap, flags
<1> QED BY <1>2, <1>3, <1>4, <1>5, AppendRange

LEMMA FlagSteps ==
  {"turn_on"} \X CoreFlags \subseteq {"turn_on"} \X Flags /\ {"turn_on"} \X Flags \subseteq StepSet
BY DEF StepSet, Flags

LEMMA ActivationFresh ==
  ASSUME NEW arg
  PROVE  Fresh(<<<<"activate">>>> \o Bootstrap, arg) /\ Fresh(<<<<"activate">>>> \o <<>>, arg)
<1> DEFINE first == <<<<"activate">>>>
           all == first \o Bootstrap
<1>1. first \in Seq(StepSet) /\ Range(first) = {<<"activate">>}
  BY DEF StepSet, Range
<1>2. all \in Seq(StepSet) /\ Range(all) = {<<"activate">>, <<"policy">>} \cup ({"turn_on"} \X CoreFlags)
  <2> HIDE DEF first
  <2> QED BY <1>1, BootstrapListed, ConcatRange
<1>3. first \o <<>> = first
  BY <1>1, ConcatEmptySeq
<1>4. ASSUME NEW q \in Seq(StepSet),
             Range(q) \subseteq {<<"activate">>, <<"policy">>} \cup ({"turn_on"} \X CoreFlags)
      PROVE  Fresh(q, arg)
  <2>1. \A f \in Flags : <<"flag", f>> \notin Range(q)
    BY <1>4
  <2>2. <<"finish">> \notin Range(q)
    BY <1>4
  <2>3. \A i \in DOMAIN q : q[i] # <<"finish">>
    BY <2>2 DEF Range
  <2> QED BY <2>1, <2>2, <2>3 DEF Fresh
<1> HIDE DEF first, all
<1> QED BY <1>1, <1>2, <1>3, <1>4 DEF first, all

LEMMA WizardFresh == ASSUME NEW arg PROVE Fresh(WizardSteps, arg)
<1> DEFINE first == <<<<"activate">>>>
           a == first \o Bootstrap
           flags == Each("turn_on", Flags)
           b == a \o flags
           last == <<<<"configure">>, <<"policy">>, <<"finish">>>>
           all == b \o last
<1>1. first \in Seq(StepSet) /\ Range(first) = {<<"activate">>}
  BY DEF StepSet, Range
<1>2. a \in Seq(StepSet) /\ Range(a) = {<<"activate">>, <<"policy">>} \cup ({"turn_on"} \X CoreFlags)
  <2> HIDE DEF first
  <2> QED BY <1>1, BootstrapListed, ConcatRange
<1>3. IsFiniteSet(Flags)
  BY SetupAssumption
<1>4. flags \in Seq(StepSet) /\ Range(flags) = {"turn_on"} \X Flags
  BY <1>3, EachListed, FlagSteps, SeqMonotonic
<1>5. /\ b \in Seq(StepSet)
      /\ Range(b) = {<<"activate">>, <<"policy">>} \cup ({"turn_on"} \X Flags)
  <2> HIDE DEF a, flags
  <2> QED BY <1>2, <1>4, ConcatRange, FlagSteps
<1>6. /\ last \in Seq(StepSet) /\ Len(last) = 3
      /\ last[1] = <<"configure">> /\ last[2] = <<"policy">> /\ last[3] = <<"finish">>
  BY DEF StepSet
<1>7. Range(last) = {<<"configure">>, <<"policy">>, <<"finish">>}
  BY DEF Range
<1>8. WizardSteps = all
  BY DEF WizardSteps
<1> HIDE DEF first, a, flags, b, last
<1>9. /\ all \in Seq(StepSet)
      /\ Range(all) = {<<"activate">>, <<"policy">>, <<"configure">>, <<"finish">>}
                      \cup ({"turn_on"} \X Flags)
  BY <1>5, <1>6, <1>7, ConcatRange
<1>10. \A f \in Flags : <<"flag", f>> \notin Range(all)
  BY <1>9
<1>11. WizardPlan \subseteq Range(all)
  BY <1>9 DEF WizardPlan
<1>12. ASSUME NEW i \in DOMAIN all, all[i] = <<"finish">>
       PROVE  i = Len(all)
  <2>1. /\ Len(b) \in Nat /\ Len(all) = Len(b) + 3 /\ i \in 1 .. Len(b) + 3
        /\ all[i] = IF i <= Len(b) THEN b[i] ELSE last[i - Len(b)]
    <3>1. b \in Seq(StepSet) /\ last \in Seq(StepSet) /\ Len(last) = 3
      BY <1>5, <1>6
    <3>2. Len(b) \in Nat /\ Len(all) = Len(b) + 3 /\ DOMAIN all = 1 .. Len(b) + 3
      <4>1. all \in Seq(StepSet) /\ Len(all) = Len(b) + Len(last)
        BY <3>1, ConcatProperties
      <4>2. Len(b) \in Nat /\ DOMAIN all = 1 .. Len(all)
        BY <3>1, <4>1, LenProperties
      <4> QED BY <3>1, <4>1, <4>2
    <3>3. \A k \in 1 .. Len(b) + Len(last) :
            all[k] = IF k <= Len(b) THEN b[k] ELSE last[k - Len(b)]
      BY <3>1, ConcatProperties
    <3> QED BY <3>1, <3>2, <3>3
  <2>2. \A j \in 1 .. Len(b) : b[j] # <<"finish">>
    BY <1>5 DEF Range
  <2>3. ~(i <= Len(b)) /\ last[i - Len(b)] = <<"finish">>
    BY <1>12, <2>1, <2>2
  <2>4. i - Len(b) \in 1 .. 3
    BY <2>1, <2>3
  <2>5. i - Len(b) = 3
    BY <1>6, <2>3, <2>4
  <2> QED BY <2>1, <2>5
<1> HIDE DEF all
<1> QED BY <1>8, <1>9, <1>10, <1>11, <1>12 DEF Fresh
------------------------------------------------------------------------------
(* Steps *)

LEMMA LaterDone ==
  ASSUME NEW o, NEW p, Later(o, p), NEW step, DoneIn(o, step)
  PROVE  DoneIn(p, step)
BY DEF Later, DoneIn

LEMMA LaterTransitive ==
  ASSUME NEW o, NEW p, NEW q, Later(o, p), Later(p, q)
  PROVE  Later(o, q)
BY DEF Later

\* What the transaction of a step does: nothing that was done is undone, the step is
\* done now, and only the stamp is the stamp.
Effect(step, o, p) ==
  /\ Rows(p) /\ Later(o, p) /\ DoneIn(p, step)
  /\ step # <<"finish">> => p.done = o.done

LEMMA NamesDiffer ==
  /\ \A f \in Flags : <<"turn_on", f>> \notin
       {<<"settings">>, <<"progress">>, <<"onboard">>, <<"activate">>, <<"policy">>,
        <<"configure">>, <<"finish">>}
  /\ \A f, g \in Flags : <<"turn_on", f>> # <<"flag", g>>
  /\ \A f, g \in Flags : <<"turn_on", f>> = <<"turn_on", g>> => f = g
OBVIOUS

\* The steps that no stamp waits for.
LEMMA OtherStep ==
  ASSUME NEW o, NEW step \in {<<"settings">>, <<"progress">>, <<"onboard">>, <<"finish">>}
  PROVE  DoneIn(o, step)
BY NamesDiffer DEF DoneIn

LEMMA RowsMade ==
  ASSUME NEW o, Rows(o), NEW p, DOMAIN p = Columns,
         p.flags = o.flags, p.done = o.done,
         p.engine = o.engine \/ p.engine \in {"legacy", "v2"},
         p.complete = o.complete \/ p.complete = TRUE,
         p.policies = o.policies \/ p.policies = o.policies + 1,
         p.cycles = o.cycles \/ p.cycles = o.cycles + 1
  PROVE  Rows(p) /\ Later(o, p)
<1>1. /\ p.policies \in Nat /\ (o.policies > 0 => p.policies > 0)
      /\ p.cycles \in Nat /\ (o.cycles > 0 => p.cycles > 0)
  BY DEF Rows
<1>2. p.complete \in BOOLEAN /\ (o.complete => p.complete) /\ p.done \in BOOLEAN
  BY Zenon DEF Rows
<1>3. /\ p.engine \in {"none", "legacy", "v2"} /\ (o.engine # "none" => p.engine # "none")
      /\ p.flags \in [Flags -> {"unset", "on", "off"}]
  BY DEF Rows
<1> QED BY <1>1, <1>2, <1>3 DEF Rows, Later

LEMMA StepEffect ==
  ASSUME SetupIInv, NEW a \in Admins, CommitStep(a)
  PROVE  Step(a) \in StepSet /\ Effect(Step(a), org, org')
<1> DEFINE step == Step(a)
           seen == admin[a].seen
<1>1. /\ admin[a].looked /\ org' = Written(a)
  BY DEF CommitStep
<1>2. /\ Rows(org) /\ Rows(seen) /\ Later(seen, org) /\ admin[a].todo # <<>>
      /\ admin[a].todo \in Seq(StepSet)
  BY <1>1 DEF SetupIInv, Asked
<1>3. step \in StepSet /\ step \in Range(admin[a].todo)
  BY <1>2 DEF Step, Range
<1>a. SUFFICES Effect(step, org, org')
  BY <1>3
<1>4. \A f \in Flags : step = <<"flag", f>> => admin[a].arg \in {"on", "off"}
  BY <1>3 DEF SetupIInv, Asked
<1>5. DOMAIN org = Columns
  BY <1>2 DEF Rows
<1>6. CASE step = <<"settings">>
  <2>1. org' = [org EXCEPT !.settings = Merged(a)]
    BY <1>1, <1>6 DEF Written
  <2>2. Rows(org') /\ Later(org, org') /\ org'.done = org.done
    BY <1>2, <1>5, <2>1, RowsMade DEF Columns
  <2> QED BY <1>6, <2>2, OtherStep DEF Effect
<1>7. CASE step = <<"progress">>
  <2>1. org' = Progressed(a)
    BY <1>1, <1>7 DEF Written
  <2>2. Ensured = org.engine \/ Ensured \in {"legacy", "v2"}
    BY DEF Ensured
  <2>3. Rows(org') /\ Later(org, org') /\ org'.done = org.done
    BY <1>2, <1>5, <2>1, <2>2, RowsMade DEF Columns, Progressed
  <2> QED BY <1>7, <2>3, OtherStep DEF Effect
<1>8. ASSUME NEW f \in Flags, NEW v \in {"on", "off"},
             org' = [org EXCEPT !.flags = SetFlag(a, f, v)]
      PROVE  Rows(org') /\ Later(org, org') /\ org'.flags[f] # "unset" /\ org'.done = org.done
  <2> DEFINE flags == SetFlag(a, f, v)
  <2>1. /\ flags \in [Flags -> {"unset", "on", "off"}] /\ flags[f] # "unset"
        /\ \A g \in Flags : org.flags[g] # "unset" => flags[g] # "unset"
    BY <1>2, <1>8 DEF SetFlag, Rows, Later
  <2> HIDE DEF flags
  <2>2. org' = [org EXCEPT !.flags = flags]
    BY <1>8 DEF flags
  <2> QED BY <1>2, <2>1, <2>2 DEF Rows, Later, Columns
<1>9. ASSUME NEW f \in Flags, step = <<"flag", f>> PROVE Effect(step, org, org')
  <2>1. org' = [org EXCEPT !.flags = SetFlag(a, f, admin[a].arg)]
    BY <1>1, <1>9 DEF Written
  <2>2. Rows(org') /\ Later(org, org') /\ org'.done = org.done
    BY <1>4, <1>8, <1>9, <2>1
  <2> QED BY <1>9, <2>2 DEF Effect, DoneIn
<1>10. ASSUME NEW f \in Flags, step = <<"turn_on", f>> PROVE Effect(step, org, org')
  <2>1. org' = [org EXCEPT !.flags = SetFlag(a, f, "on")]
    BY <1>1, <1>10 DEF Written
  <2>2. Rows(org') /\ Later(org, org') /\ org'.flags[f] # "unset" /\ org'.done = org.done
    BY <1>8, <2>1
  <2> QED BY <1>10, <2>2 DEF Effect, DoneIn
<1>11. CASE step = <<"onboard">>
  <2>1. org' = Onboarded(a)
    BY <1>1, <1>11 DEF Written
  <2>2. Rows(org') /\ Later(org, org') /\ org'.done = org.done
    BY <1>2, <1>5, <2>1, RowsMade DEF Columns, Onboarded
  <2> QED BY <1>11, <2>2, OtherStep DEF Effect
<1>12. CASE step = <<"activate">>
  <2>1. org' = [org EXCEPT !.engine = Engine(a), !.sources = TRUE]
    BY <1>1, <1>12 DEF Written
  <2>2. Engine(a) \in {"legacy", "v2"}
    BY <1>2 DEF Engine, Rows, Later
  <2>3. Rows(org') /\ Later(org, org') /\ org'.done = org.done
    BY <1>2, <1>5, <2>1, <2>2, RowsMade DEF Columns
  <2>4. org'.engine # "none"
    BY <1>5, <2>1, <2>2 DEF Columns
  <2>5. DoneIn(org', <<"activate">>)
    BY <2>4, NamesDiffer DEF DoneIn
  <2> QED BY <1>12, <2>3, <2>5 DEF Effect
<1>13. CASE step = <<"policy">>
  <2>1. org' = DefaultPolicy(a)
    BY <1>1, <1>13 DEF Written
  <2> DEFINE policies == org.policies + (IF seen.policies = 0 THEN 1 ELSE 0)
  <2>2. policies \in {org.policies, org.policies + 1} /\ policies > 0
    BY <1>2 DEF Rows, Later
  <2>3. org' = [org EXCEPT !.policies = policies]
    BY <2>1 DEF DefaultPolicy
  <2> HIDE DEF policies
  <2>4. Rows(org') /\ Later(org, org') /\ org'.done = org.done
    BY <1>2, <1>5, <2>2, <2>3, RowsMade DEF Columns
  <2>5. org'.policies > 0
    BY <1>5, <2>2, <2>3 DEF Columns
  <2>6. DoneIn(org', <<"policy">>)
    BY <2>5, NamesDiffer DEF DoneIn
  <2> QED BY <1>13, <2>4, <2>6 DEF Effect
<1>14. CASE step = <<"configure">>
  <2>1. org' = Configured(a)
    BY <1>1, <1>14 DEF Written
  <2> DEFINE cycles == org.cycles + (IF seen.cycles = 0 THEN 1 ELSE 0)
             settings == WizardMerged(a)
  <2>2. cycles \in {org.cycles, org.cycles + 1} /\ cycles > 0
    BY <1>2 DEF Rows, Later
  <2>3. org' = [org EXCEPT !.complete = TRUE, !.settings = settings, !.cycles = cycles]
    BY <2>1 DEF Configured
  <2> HIDE DEF cycles, settings
  <2>4. Rows(org') /\ Later(org, org') /\ org'.done = org.done
    BY <1>2, <1>5, <2>2, <2>3, RowsMade DEF Columns
  <2>5. org'.complete /\ org'.cycles > 0
    BY <1>5, <2>2, <2>3 DEF Columns
  <2>6. DoneIn(org', <<"configure">>)
    BY <2>5, NamesDiffer DEF DoneIn
  <2> QED BY <1>14, <2>4, <2>6 DEF Effect
<1>15. CASE step = <<"finish">>
  <2>1. org' = Finished(a)
    BY <1>1, <1>15 DEF Written
  <2>2. /\ DOMAIN org' = Columns /\ org'.done = TRUE
        /\ org'.engine = org.engine /\ org'.flags = org.flags /\ org'.complete = org.complete
        /\ org'.policies = org.policies /\ org'.cycles = org.cycles
    BY <1>5, <2>1 DEF Columns, Finished
  <2>3. Rows(org') /\ Later(org, org')
    BY <1>2, <2>2 DEF Rows, Later
  <2> QED BY <1>15, <2>3, OtherStep DEF Effect
<1> HIDE DEF step
<1>16. \/ step \in {<<"settings">>, <<"progress">>, <<"onboard">>, <<"activate">>, <<"policy">>,
                    <<"configure">>, <<"finish">>}
       \/ \E f \in Flags : step = <<"flag", f>> \/ step = <<"turn_on", f>>
  BY <1>3 DEF StepSet
<1> QED BY <1>6, <1>7, <1>9, <1>10, <1>11, <1>12, <1>13, <1>14, <1>15, <1>16

LEMMA RequestFresh ==
  ASSUME SetupIInv, NEW a \in Admins, NEW todo, NEW arg, NEW keys, Fresh(todo, arg),
         Request(a, todo, arg, keys)
  PROVE  SetupIInv'
<1> DEFINE new == [NoRequest EXCEPT !.id = asked + 1, !.todo = todo, !.arg = arg, !.keys = keys]
<1>1. admin' = [admin EXCEPT ![a] = new] /\ UNCHANGED org
  BY DEF Request
<1>2. /\ DOMAIN new = DOMAIN NoRequest
      /\ new.todo = todo /\ new.arg = arg /\ new.looked = FALSE
  BY DEF NoRequest
<1> HIDE DEF new
<1>3. /\ DOMAIN admin' = Admins /\ admin'[a] = new
      /\ \A b \in Admins \ {a} : admin'[b] = admin[b]
  BY <1>1 DEF SetupIInv
<1>4. Asked(a)'
  BY <1>2, <1>3 DEF Asked, Fresh
<1>5. \A b \in Admins \ {a} : Asked(b)'
  BY <1>1, <1>3 DEF SetupIInv, Asked
<1> QED BY <1>1, <1>3, <1>4, <1>5 DEF SetupIInv

LEMMA EndedKeeps ==
  ASSUME SetupIInv, NEW a \in Admins, admin' = Ended(a), UNCHANGED org
  PROVE  SetupIInv'
<1>1. /\ DOMAIN admin' = Admins /\ admin'[a] = NoRequest
      /\ \A b \in Admins \ {a} : admin'[b] = admin[b]
  BY DEF SetupIInv, Ended
<1>2. Asked(a)'
  <2>1. NoRequest.todo = <<>> /\ NoRequest.looked = FALSE /\ NoRequest.todo \in Seq(StepSet)
    BY DEF NoRequest
  <2>2. Range(NoRequest.todo) = {} /\ DOMAIN NoRequest.todo = {}
    BY <2>1 DEF Range
  <2> QED BY <1>1, <2>1, <2>2 DEF Asked
<1>3. \A b \in Admins \ {a} : Asked(b)'
  BY <1>1 DEF SetupIInv, Asked
<1> QED BY <1>1, <1>2, <1>3 DEF SetupIInv

LEMMA CommitKeeps ==
  ASSUME SetupIInv, NEW a \in Admins, CommitStep(a)
  PROVE  SetupIInv'
<1> DEFINE step == Step(a)
           todo == admin[a].todo
           rest == Tail(todo)
<1>1. Rows(org) /\ DOMAIN admin = Admins /\ Asked(a) /\ admin[a].looked /\ todo # <<>>
  BY DEF SetupIInv, Asked, CommitStep
<1>2. step \in StepSet /\ Effect(step, org, org')
  BY StepEffect
<1>3. todo \in Seq(StepSet) /\ step = todo[1] /\ Len(todo) \in Nat \ {0}
  BY <1>1 DEF Asked, Step
<1>4. Rows(org') /\ Later(org, org') /\ DoneIn(org', step)
  BY <1>2 DEF Effect
<1>5. \A s : DoneIn(org, s) => DoneIn(org', s)
  BY <1>4, LaterDone
<1>6. /\ rest \in Seq(StepSet) /\ Len(rest) = Len(todo) - 1
      /\ \A i \in DOMAIN rest : rest[i] = todo[i + 1] /\ i \in Nat /\ i + 1 \in DOMAIN todo
  BY <1>1, <1>3
<1> HIDE DEF step
<1>7. Range(todo) = {step} \cup Range(rest)
  <2>1. \A i \in DOMAIN todo : i = 1 \/ (i - 1 \in DOMAIN rest /\ rest[i - 1] = todo[i])
    BY <1>1, <1>3
  <2>2. 1 \in DOMAIN todo
    BY <1>3
  <2> HIDE DEF todo, rest
  <2>3. \A i \in DOMAIN todo : todo[i] = step \/ \E j \in DOMAIN rest : rest[j] = todo[i]
    BY <1>3, <2>1
  <2>4. \A j \in DOMAIN rest : \E i \in DOMAIN todo : rest[j] = todo[i]
    BY <1>6
  <2>5. todo[1] = step /\ Range(todo) = {todo[i] : i \in DOMAIN todo} /\ Range(rest) = {rest[j] : j \in DOMAIN rest}
    BY <1>3 DEF Range
  <2>6. ASSUME NEW x \in Range(todo) PROVE x \in {step} \cup Range(rest)
    BY <2>3, <2>5, <2>6
  <2>7. ASSUME NEW x \in {step} \cup Range(rest) PROVE x \in Range(todo)
    BY <2>2, <2>4, <2>5, <2>7
  <2> QED BY <2>6, <2>7
<1> HIDE DEF todo, rest
<1>8. \A b \in Admins : Later(admin[b].seen, org) => Later(admin[b].seen, org')
  BY <1>4, LaterTransitive
<1>9. ASSUME NEW b \in Admins \ {a}, admin'[b] = admin[b] PROVE Asked(b)'
  <2>1. Asked(b)
    BY DEF SetupIInv
  <2> QED BY <1>5, <1>8, <1>9, <2>1 DEF Asked
<1>10. DOMAIN admin' = Admins /\ \A b \in Admins \ {a} : admin'[b] = admin[b]
  BY <1>1 DEF CommitStep, Ended, Advanced
<1>11. Asked(a)'
  <2>1. CASE Len(todo) = 1
    <3>1. admin'[a] = NoRequest
      BY <1>1, <2>1 DEF CommitStep, Ended, todo
    <3>2. NoRequest.todo = <<>> /\ NoRequest.looked = FALSE /\ NoRequest.todo \in Seq(StepSet)
      BY DEF NoRequest
    <3>3. Range(NoRequest.todo) = {} /\ DOMAIN NoRequest.todo = {}
      BY <3>2 DEF Range
    <3> QED BY <3>1, <3>2, <3>3 DEF Asked
  <2>2. CASE Len(todo) # 1
    <3>1. admin' = Advanced(a)
      BY <2>2 DEF CommitStep, todo
    <3>2. /\ DOMAIN admin'[a] = DOMAIN admin[a] /\ admin'[a].todo = rest
          /\ admin'[a].looked = FALSE /\ admin'[a].arg = admin[a].arg
      BY <1>1, <3>1 DEF Advanced, Asked, NoRequest, rest, todo
    <3>3. Range(rest) \subseteq Range(todo)
      BY <1>7
    <3>4. ASSUME <<"finish">> \in Range(rest), NEW s \in WizardPlan
          PROVE  s \in Range(rest) \/ DoneIn(org', s)
      BY <1>1, <1>4, <1>5, <1>7, <3>4 DEF Asked, todo
    <3>5. ASSUME NEW i \in DOMAIN rest, rest[i] = <<"finish">> PROVE i = Len(rest)
      <4>1. i + 1 = Len(todo)
        BY <1>1, <1>6, <3>5 DEF Asked, todo
      <4> QED BY <1>3, <1>6, <4>1
    <3> QED BY <1>1, <1>6, <3>2, <3>3, <3>4, <3>5 DEF Asked, todo
  <2> QED BY <2>1, <2>2
<1>12. ASSUME org'.done, NEW s \in WizardPlan PROVE DoneIn(org', s)
  <2>1. CASE org.done
    BY <1>5, <2>1 DEF SetupIInv
  <2>2. CASE ~org.done
    <3>1. step = <<"finish">>
      BY <1>2, <1>12, <2>2 DEF Effect
    <3>2. 1 \in DOMAIN todo /\ todo[1] = <<"finish">>
      BY <1>3, <3>1
    <3>3. 1 = Len(todo)
      BY <1>1, <3>2 DEF Asked, todo
    <3>4. Range(todo) = {<<"finish">>}
      BY <1>3, <3>2, <3>3 DEF Range
    <3>5. s # <<"finish">>
      BY NamesDiffer DEF WizardPlan
    <3>6. DoneIn(org, s)
      BY <1>1, <3>4, <3>5 DEF Asked, todo
    <3> QED BY <1>5, <3>6
  <2> QED BY <2>1, <2>2
<1> QED BY <1>4, <1>9, <1>10, <1>11, <1>12 DEF SetupIInv

LEMMA SetupStep == SetupIInv /\ [SetupNext]_setupVars => SetupIInv'
<1> SUFFICES ASSUME SetupIInv, [SetupNext]_setupVars PROVE SetupIInv'
  OBVIOUS
<1>1. ASSUME NEW name \in {"settings", "progress", "onboard"}, NEW arg
      PROVE  Fresh(<<<<name>>>>, arg)
  BY DEF Fresh, StepSet, Range
<1>2. ASSUME NEW f \in Flags, NEW arg \in {"on", "off"}
      PROVE  Fresh(<<<<"flag", f>>>>, arg)
  BY DEF Fresh, StepSet, Range
<1>3. ASSUME NEW a \in Admins, AskSettings(a) PROVE SetupIInv'
  BY <1>1, <1>3, RequestFresh DEF AskSettings
<1>4. ASSUME NEW a \in Admins, AskProgress(a) PROVE SetupIInv'
  BY <1>1, <1>4, RequestFresh DEF AskProgress
<1>5. ASSUME NEW a \in Admins, AskFlag(a) PROVE SetupIInv'
  BY <1>2, <1>5, RequestFresh DEF AskFlag
<1>6. ASSUME NEW a \in Admins, AskOnboarding(a) PROVE SetupIInv'
  BY <1>1, <1>6, RequestFresh DEF AskOnboarding
<1>7. ASSUME NEW a \in Admins, AskActivation(a) PROVE SetupIInv'
  BY <1>7, ActivationFresh, RequestFresh DEF AskActivation
<1>8. ASSUME NEW a \in Admins, AskWizard(a) PROVE SetupIInv'
  BY <1>8, WizardFresh, RequestFresh DEF AskWizard
<1>9. ASSUME NEW a \in Admins, Look(a) PROVE SetupIInv'
  <2>1. /\ DOMAIN admin' = Admins /\ UNCHANGED org
        /\ \A b \in Admins \ {a} : admin'[b] = admin[b]
    BY <1>9 DEF Look, SetupIInv
  <2>2. /\ DOMAIN admin'[a] = DOMAIN admin[a] /\ admin'[a].todo = admin[a].todo
        /\ admin[a].todo # <<>> /\ admin'[a].arg = admin[a].arg
        /\ admin'[a].looked = TRUE /\ admin'[a].seen = org
    BY <1>9 DEF Look, SetupIInv, Asked, NoRequest
  <2>3. Rows(org) /\ Later(org, org)
    BY DEF SetupIInv, Later
  <2>4. Asked(a)'
    BY <2>1, <2>2, <2>3 DEF SetupIInv, Asked
  <2>5. \A b \in Admins \ {a} : Asked(b)'
    BY <2>1 DEF SetupIInv, Asked
  <2> QED BY <2>1, <2>4, <2>5 DEF SetupIInv
<1>10. ASSUME NEW a \in Admins, CommitStep(a) PROVE SetupIInv'
  BY <1>10, CommitKeeps
<1>11. ASSUME NEW a \in Admins, RefuseStep(a) \/ DieAsking(a) PROVE SetupIInv'
  BY <1>11, EndedKeeps DEF RefuseStep, DieAsking
<1>12. CASE UNCHANGED setupVars
  BY <1>12 DEF setupVars, SetupIInv, Asked
<1> QED BY <1>3, <1>4, <1>5, <1>6, <1>7, <1>8, <1>9, <1>10, <1>11, <1>12 DEF SetupNext

LEMMA SetupInvariant == SetupSpec => []SetupIInv
<1>1. SetupInit => SetupIInv
  <2> SUFFICES ASSUME SetupInit PROVE SetupIInv
    OBVIOUS
  <2>1. Rows(org) /\ org.done = FALSE
    <3>1. /\ DOMAIN org = Columns /\ org.done = FALSE /\ org.complete = FALSE
          /\ org.policies = 0 /\ org.cycles = 0 /\ org.engine \in {"none", "legacy"}
          /\ org.flags = [f \in Flags |-> "unset"]
      BY DEF SetupInit, Columns
    <3>2. org.flags \in [Flags -> {"unset", "on", "off"}]
      BY <3>1
    <3>3. org.complete \in BOOLEAN /\ org.done \in BOOLEAN
      BY <3>1, Zenon
    <3>4. org.policies \in Nat /\ org.cycles \in Nat /\ org.engine \in {"none", "legacy", "v2"}
      BY <3>1
    <3>5. Rows(org)
      BY <3>1, <3>2, <3>3, <3>4, Zenon DEF Rows
    <3> QED BY <3>1, <3>5, Zenon
  <2>2. NoRequest.todo = <<>> /\ NoRequest.looked = FALSE /\ NoRequest.todo \in Seq(StepSet)
    BY DEF NoRequest
  <2>3. Range(NoRequest.todo) = {} /\ DOMAIN NoRequest.todo = {}
    BY <2>2 DEF Range
  <2>4. \A a \in Admins : Asked(a)
    BY <2>2, <2>3 DEF SetupInit, Asked
  <2> QED BY <2>1, <2>4 DEF SetupInit, SetupIInv
<1> QED BY <1>1, SetupStep, PTL DEF SetupSpec

\* An organisation that is stamped as set up has its profile, every flag, a policy, a
\* calendar and the mark that lets employees in, however many wizards, activations and
\* edits met each other, were refused or died on the way.
THEOREM CompletedAlwaysConfigured == SetupSpec => []CompletedIsConfigured
<1>1. SetupIInv => CompletedIsConfigured
  <2> SUFFICES ASSUME SetupIInv, org.done
               PROVE  /\ org.complete /\ org.engine # "none"
                      /\ org.policies > 0 /\ org.cycles > 0
                      /\ \A f \in Flags : org.flags[f] # "unset"
    BY DEF CompletedIsConfigured
  <2>1. \A step \in WizardPlan : DoneIn(org, step)
    BY DEF SetupIInv
  <2>2. org.engine # "none"
    <3>1. DoneIn(org, <<"activate">>)
      BY <2>1 DEF WizardPlan
    <3> QED BY <3>1 DEF DoneIn
  <2>3. org.policies > 0
    <3>1. DoneIn(org, <<"policy">>)
      BY <2>1 DEF WizardPlan
    <3> QED BY <3>1 DEF DoneIn
  <2>4. org.complete /\ org.cycles > 0
    <3>1. DoneIn(org, <<"configure">>)
      BY <2>1 DEF WizardPlan
    <3> QED BY <3>1 DEF DoneIn
  <2>5. ASSUME NEW f \in Flags PROVE org.flags[f] # "unset"
    <3>1. DoneIn(org, <<"turn_on", f>>)
      BY <2>1 DEF WizardPlan
    <3> QED BY <3>1 DEF DoneIn
  <2> QED BY <2>2, <2>3, <2>4, <2>5
<1> QED BY <1>1, SetupInvariant, PTL

\* The settings of the rows o, where a null section has none.
Held(o, k) == IF o.settings[k] = Nulled THEN 0 ELSE o.settings[k]

\* A setting that nobody may undo is as it was answered, and whoever has read the column
\* to write it has read it so.
LandIInv ==
  /\ asked \in Nat
  /\ \A k \in SettingKeys \ unsure : owed[k] = Held(org, k)
  /\ \A a \in Admins :
       /\ admin[a].id \in Nat
       /\ WritesSettings(a) =>
            \A k \in SettingKeys \ unsure : Held(admin[a].seen, k) = Held(org, k)

\* The commit of a step that writes the column.
Lands(a) == WritesSettings(a) /\ (Step(a)[1] = "configure" => ~LooksUnchanged(a))

LEMMA SettingsWritten ==
  ASSUME SetupIInv, NEW a \in Admins, CommitStep(a)
  PROVE  org'.settings = IF Lands(a) THEN Merged(a) ELSE org.settings
<1> DEFINE step == Step(a)
<1>1. DOMAIN org = Columns /\ admin[a].looked /\ admin[a].todo # <<>>
  BY DEF SetupIInv, Rows, Asked, CommitStep
<1>2. step \in StepSet /\ org' = Written(a)
  BY StepEffect DEF CommitStep
<1>3. CASE step = <<"settings">>
  <2>1. Lands(a)
    BY <1>1, <1>3 DEF Lands, WritesSettings
  <2> QED BY <1>1, <1>2, <1>3, <2>1 DEF Columns, Written
<1>4. CASE step = <<"configure">>
  <2>1. org' = Configured(a)
    BY <1>2, <1>4 DEF Written
  <2>2. org'.settings = WizardMerged(a)
    BY <1>1, <2>1 DEF Columns, Configured
  <2>3. Lands(a) <=> ~LooksUnchanged(a)
    BY <1>1, <1>4 DEF Lands, WritesSettings
  <2> QED BY <2>2, <2>3 DEF WizardMerged
<1>5. CASE step \in {<<"progress">>, <<"onboard">>, <<"policy">>, <<"finish">>}
  <2>1. org' \in {Progressed(a), Onboarded(a), DefaultPolicy(a), Finished(a)}
    BY <1>2, <1>5 DEF Written
  <2>2. ~Lands(a)
    BY <1>5 DEF Lands, WritesSettings
  <2> QED BY <1>1, <2>1, <2>2 DEF Columns, Progressed, Onboarded, DefaultPolicy, Finished
<1>6. CASE step = <<"activate">>
  <2>1. org' = [org EXCEPT !.engine = Engine(a), !.sources = TRUE]
    BY <1>2, <1>6 DEF Written
  <2>2. ~Lands(a)
    BY <1>6 DEF Lands, WritesSettings
  <2> QED BY <1>1, <2>1, <2>2 DEF Columns
<1>7. CASE step \in {"flag", "turn_on"} \X Flags
  <2>1. org' \in {[org EXCEPT !.flags = SetFlag(a, step[2], admin[a].arg)],
                  [org EXCEPT !.flags = SetFlag(a, step[2], "on")]}
    BY <1>2, <1>7 DEF Written
  <2>2. ~Lands(a)
    BY <1>7 DEF Lands, WritesSettings
  <2> QED BY <1>1, <2>1, <2>2 DEF Columns
<1> QED BY <1>2, <1>3, <1>4, <1>5, <1>6, <1>7 DEF StepSet

\* What a commit of the column makes of a setting.
LEMMA MergedHeld ==
  ASSUME NEW a \in Admins, admin[a].id \in Nat, NEW o, o.settings = Merged(a), NEW k \in SettingKeys
  PROVE  Held(o, k) = IF k \notin admin[a].keys THEN Held(admin[a].seen, k)
                      ELSE IF admin[a].arg = "null" THEN 0 ELSE admin[a].id
<1>1. k \in admin[a].keys =>
        o.settings[k] = IF admin[a].arg = "null" THEN Nulled ELSE admin[a].id
  BY DEF Merged
<1>2. k \notin admin[a].keys =>
        \/ o.settings[k] = admin[a].seen.settings[k]
        \/ admin[a].seen.settings[k] = Nulled /\ o.settings[k] = 0
  BY DEF Merged
<1> QED BY <1>1, <1>2 DEF Held, Nulled

LEMMA CommitLands ==
  ASSUME SetupIInv, LandIInv, NEW a \in Admins, CommitStep(a)
  PROVE  LandIInv'
<1>1. DOMAIN admin = Admins /\ Asked(a) /\ admin[a].looked
  BY DEF SetupIInv, CommitStep
<1>2. /\ admin'[a].looked = FALSE /\ admin'[a].id \in Nat
      /\ \A b \in Admins \ {a} : admin'[b] = admin[b]
  <2>1. CASE admin' = Ended(a)
    BY <1>1, <2>1 DEF Ended, NoRequest
  <2>2. CASE admin' = Advanced(a)
    BY <1>1, <2>2 DEF Advanced, Asked, NoRequest, LandIInv
  <2> QED BY <2>1, <2>2 DEF CommitStep
<1>3. ~WritesSettings(a)'
  BY <1>2 DEF WritesSettings
<1>4. \A b \in Admins \ {a} : (WritesSettings(b)' <=> WritesSettings(b)) /\ admin'[b].id \in Nat
  BY <1>2 DEF WritesSettings, Step, LandIInv
<1>5. asked' \in Nat
  BY DEF CommitStep, LandIInv
<1>6. CASE ~Lands(a)
  <2>1. org'.settings = org.settings /\ UNCHANGED <<owed, unsure>>
    BY <1>6, SettingsWritten DEF CommitStep, Answered, Lands
  <2>2. \A k : Held(org', k) = Held(org, k)
    BY <2>1 DEF Held
  <2> QED BY <1>2, <1>3, <1>4, <1>5, <2>1, <2>2 DEF LandIInv
<1>7. CASE Lands(a)
  <2> DEFINE keys == admin[a].keys
             value == IF admin[a].arg = "null" THEN 0 ELSE admin[a].id
             others == \E b \in Admins \ {a} : WritesSettings(b)
  <2>1. org'.settings = Merged(a)
    BY <1>7, SettingsWritten
  <2>2. \A k \in SettingKeys : Held(org', k) = IF k \notin keys THEN Held(admin[a].seen, k) ELSE value
    BY <2>1, MergedHeld DEF LandIInv
  <2>3. /\ \A k \in SettingKeys : owed'[k] = IF k \notin keys THEN owed[k] ELSE value
        /\ unsure' = IF others THEN unsure \cup keys ELSE unsure \ keys
    BY <1>7 DEF CommitStep, Answered, Lands
  <2>4. \A k \in SettingKeys \ unsure : Held(admin[a].seen, k) = Held(org, k)
    BY <1>7 DEF LandIInv, Lands
  <2>5. \A k \in SettingKeys \ unsure : owed[k] = Held(org, k)
    BY DEF LandIInv
  <2>6. \A b \in Admins \ {a} : WritesSettings(b) =>
          others /\ \A k \in SettingKeys \ unsure : Held(admin[b].seen, k) = Held(org, k)
    BY DEF LandIInv
  <2> HIDE DEF keys, value, others
  <2>7. \A k \in SettingKeys \ unsure' : owed'[k] = Held(org', k)
    BY <2>2, <2>3, <2>4, <2>5
  <2>8. ASSUME NEW b \in Admins \ {a}, WritesSettings(b), NEW k \in SettingKeys \ unsure'
        PROVE  Held(admin'[b].seen, k) = Held(org', k)
    <3>1. k \notin unsure /\ k \notin keys
      BY <2>3, <2>6, <2>8
    <3> QED BY <1>2, <2>2, <2>4, <2>6, <2>8, <3>1
  <2> QED BY <1>2, <1>3, <1>4, <1>5, <2>7, <2>8 DEF LandIInv
<1> QED BY <1>6, <1>7

LEMMA LandStep == SetupIInv /\ LandIInv /\ [SetupNext]_setupVars => LandIInv'
<1> SUFFICES ASSUME SetupIInv, LandIInv, [SetupNext]_setupVars PROVE LandIInv'
  OBVIOUS
<1>1. DOMAIN admin = Admins /\ asked \in Nat
  BY DEF SetupIInv, LandIInv
<1>2. ASSUME NEW a \in Admins, UNCHANGED <<org, owed, unsure>>, asked' \in Nat,
             \A b \in Admins \ {a} : admin'[b] = admin[b],
             admin'[a].id \in Nat, admin'[a].looked => admin'[a].seen = org
      PROVE  LandIInv'
  <2>1. \A k : Held(org', k) = Held(org, k)
    BY <1>2
  <2>2. \A b \in Admins \ {a} : WritesSettings(b)' <=> WritesSettings(b)
    BY <1>2 DEF WritesSettings, Step
  <2>3. WritesSettings(a)' => admin'[a].seen = org
    BY <1>2 DEF WritesSettings
  <2> QED BY <1>2, <2>1, <2>2, <2>3 DEF LandIInv
<1>3. ASSUME NEW a \in Admins, NEW todo, NEW arg, NEW keys, Request(a, todo, arg, keys)
      PROVE  LandIInv'
  BY <1>1, <1>2, <1>3 DEF Request, NoRequest
<1>4. ASSUME NEW a \in Admins, Look(a) PROVE LandIInv'
  <2>1. admin'[a].id = admin[a].id /\ admin'[a].seen = org
    BY <1>1, <1>4 DEF Look, SetupIInv, Asked, NoRequest
  <2> QED BY <1>1, <1>2, <1>4, <2>1 DEF Look, LandIInv
<1>5. ASSUME NEW a \in Admins, RefuseStep(a) \/ DieAsking(a) PROVE LandIInv'
  BY <1>1, <1>2, <1>5 DEF RefuseStep, DieAsking, Ended, NoRequest
<1>6. ASSUME NEW a \in Admins, CommitStep(a) PROVE LandIInv'
  BY <1>6, CommitLands
<1>7. CASE UNCHANGED setupVars
  BY <1>7 DEF setupVars, LandIInv, WritesSettings, Step, Held
<1> QED BY <1>3, <1>4, <1>5, <1>6, <1>7
       DEF SetupNext, AskSettings, AskProgress, AskFlag, AskOnboarding, AskActivation, AskWizard

\* Every setting has the value of the last request about it, but for those that a request
\* which had read the column before may have undone: whoever merges the column it has read
\* puts back what is there.
THEOREM SettingsAlwaysLand == SetupSpec => []SettingsLand
<1>1. SetupInit => LandIInv
  <2> SUFFICES ASSUME SetupInit PROVE LandIInv
    OBVIOUS
  <2>1. \A k \in SettingKeys : owed[k] = Held(org, k)
    BY DEF SetupInit, Held, Nulled
  <2>2. \A a \in Admins : admin[a].id \in Nat /\ ~WritesSettings(a)
    BY DEF SetupInit, NoRequest, WritesSettings
  <2>3. asked \in Nat
    BY DEF SetupInit
  <2> QED BY <2>1, <2>2, <2>3 DEF LandIInv
<1>2. LandIInv => SettingsLand
  BY DEF LandIInv, SettingsLand, Held
<1> QED BY <1>1, <1>2, LandStep, SetupInvariant, PTL DEF SetupSpec
-----------------------------------------------------------------------------
(* The directory of employees *)

Fields == {"from", "code", "email", "active"}

\* Requests that are about to store employees, and the number of such a request.
Hiring(s) == s.pc \in {"create", "rows"}
Number(s) == IF s.pc = "create" THEN s.new.from[1] ELSE s.id

\* A file half read: its rows name the request and themselves, each once.
Reading(s) ==
  /\ DOMAIN s = {"pc", "id", "file", "next", "pending"} /\ s.next \in Nat \ {0}
  /\ IsFiniteSet(s.pending)
  /\ \A e \in s.pending :
       DOMAIN e = Fields /\ \E n \in Nat : n > 0 /\ n < s.next /\ e.from = <<s.id, n>>
  /\ \A d, e \in s.pending : d.from = e.from => d = e

\* Of the first n requests that hire, s is one, and neither the uploads u that have
\* ended nor the employees h that were stored are its own.
Serving(s, u, h, n) ==
  /\ s.pc \in {"idle", "create", "rows", "update", "delete"}
  /\ s.pc = "create" => DOMAIN s.new = Fields /\ s.new.from = <<Number(s), 1>>
  /\ s.pc = "rows" => Reading(s)
  /\ Hiring(s) =>
       /\ Number(s) \in 1 .. n
       /\ \A i \in DOMAIN u : u[i].id # Number(s)
       /\ \A id \in h : id[1] # Number(s)

Stored(h, k) == {id \in h : id[1] = k}

\* The upload u has ended, and h has what it stored.
Whole(u, h, n) ==
  /\ u.id \in 1 .. n
  /\ Cardinality(Stored(h, u.id)) = IF u.how = "answered" THEN u.inserted ELSE 0

UploadRows == [id : Nat, how : {"error", "answered"}, inserted : Nat]

Table(es) == (\A e \in es : DOMAIN e = Fields) /\ ~Clash(es, {})

StaffIInv ==
  /\ Table(employees) /\ DOMAIN clerk = Clerks /\ served.hire \in Nat /\ "hire" \in DOMAIN served
  /\ hired \subseteq (1 .. served.hire) \X (Nat \ {0})
  /\ uploads \in Seq(UploadRows)
  /\ \A c \in Clerks : Serving(clerk[c], uploads, hired, served.hire)
  /\ \A c, d \in Clerks :
       c # d /\ Hiring(clerk[c]) /\ Hiring(clerk[d]) => Number(clerk[c]) # Number(clerk[d])
  /\ \A i \in DOMAIN uploads : Whole(uploads[i], hired, served.hire)
------------------------------------------------------------------------------
\* Rows that do not clash with a table can join it.
LEMMA ClashFree ==
  ASSUME NEW news, NEW olds, ~Clash(news, olds), ~Clash(olds, {})
  PROVE  ~Clash(olds \cup news, {}) /\ \A rest \in SUBSET olds : ~Clash(rest, {})
BY DEF Clash

\* A request that is not about to store anything takes the place of another.
LEMMA SettledKeeps ==
  ASSUME StaffIInv, NEW c \in Clerks, NEW s, clerk' = [clerk EXCEPT ![c] = s],
         s.pc \in {"idle", "update", "delete"}, Table(employees'),
         "hire" \in DOMAIN served', served'.hire = served.hire, UNCHANGED <<uploads, hired>>
  PROVE  StaffIInv'
<1>1. /\ DOMAIN clerk' = Clerks /\ clerk'[c] = s
      /\ \A b \in Clerks \ {c} : clerk'[b] = clerk[b]
  BY DEF StaffIInv
<1>2. ~Hiring(s) /\ Serving(s, uploads, hired, served.hire)
  BY DEF Hiring, Serving
<1>3. \A b \in Clerks : Serving(clerk'[b], uploads', hired', served'.hire)
  BY <1>1, <1>2 DEF StaffIInv
<1>4. \A b, d \in Clerks :
        b # d /\ Hiring(clerk'[b]) /\ Hiring(clerk'[d]) => Number(clerk'[b]) # Number(clerk'[d])
  BY <1>1, <1>2 DEF StaffIInv
<1> QED BY <1>1, <1>3, <1>4 DEF StaffIInv

\* A new request that will store employees has a number of its own.
LEMMA BeginKeeps ==
  ASSUME StaffIInv, NEW c \in Clerks, NEW s, clerk' = [clerk EXCEPT ![c] = s],
         s.pc \in {"create", "rows"}, Number(s) = served.hire + 1,
         s.pc = "create" => DOMAIN s.new = Fields /\ s.new.from = <<Number(s), 1>>,
         s.pc = "rows" => Reading(s),
         served' = [served EXCEPT !.hire = @ + 1], UNCHANGED <<employees, uploads, hired>>
  PROVE  StaffIInv'
<1> DEFINE n == served.hire
<1>1. /\ DOMAIN clerk' = Clerks /\ clerk'[c] = s
      /\ \A b \in Clerks \ {c} : clerk'[b] = clerk[b]
  BY DEF StaffIInv
<1>2. n \in Nat /\ "hire" \in DOMAIN served' /\ served'.hire = n + 1
  BY DEF StaffIInv
<1>3. \A i \in DOMAIN uploads : uploads[i].id \in 1 .. n
  BY DEF StaffIInv, Whole
<1>4. \A id \in hired : id[1] \in 1 .. n
  BY DEF StaffIInv
<1> HIDE DEF n
<1>5. Serving(s, uploads, hired, n + 1)
  BY <1>2, <1>3, <1>4 DEF Serving, n
<1>6. \A b \in Clerks \ {c} : Serving(clerk[b], uploads, hired, n + 1)
  BY <1>2 DEF StaffIInv, Serving, n
<1>7. \A b \in Clerks \ {c} : Hiring(clerk[b]) => Number(clerk[b]) # n + 1
  BY <1>2 DEF StaffIInv, Serving, n
<1>8. \A b \in Clerks : Serving(clerk'[b], uploads', hired', served'.hire)
  BY <1>1, <1>2, <1>5, <1>6
<1>9. \A b, d \in Clerks :
        b # d /\ Hiring(clerk'[b]) /\ Hiring(clerk'[d]) => Number(clerk'[b]) # Number(clerk'[d])
  BY <1>1, <1>7 DEF StaffIInv, n
<1>10. \A i \in DOMAIN uploads : Whole(uploads[i], hired, n + 1)
  BY <1>2 DEF StaffIInv, Whole, n
<1>11. hired' \subseteq (1 .. n + 1) \X (Nat \ {0})
  BY <1>2 DEF StaffIInv, n
<1> QED BY <1>1, <1>2, <1>8, <1>9, <1>10, <1>11 DEF StaffIInv

\* The employees of one request are stored: those of the others stay as they are.
Apart(h, g, k) ==
  /\ \A s, u, n : Serving(s, u, h, n) /\ (Hiring(s) => Number(s) # k) => Serving(s, u, g, n)
  /\ \A j : j # k => Stored(g, j) = Stored(h, j)

LEMMA OthersKeep ==
  ASSUME NEW h, NEW new, NEW k, \A id \in new : id[1] = k
  PROVE  Apart(h, h \cup new, k)
BY DEF Apart, Serving, Stored

\* A request stores its employees new, or none, and is over; its number is in no upload
\* that had ended.
LEMMA StoreKeeps ==
  ASSUME StaffIInv, NEW c \in Clerks, clerk' = [clerk EXCEPT ![c] = NotServed],
         Hiring(clerk[c]), NEW new, hired' = hired \cup new,
         new \subseteq {Number(clerk[c])} \X (Nat \ {0}),
         Table(employees'), UNCHANGED served,
         \/ UNCHANGED uploads
         \/ \E how \in {"error", "answered"}, count \in Nat :
              /\ uploads' = Append(uploads, [id |-> Number(clerk[c]), how |-> how, inserted |-> count])
              /\ Cardinality(new) = IF how = "answered" THEN count ELSE 0
  PROVE  StaffIInv'
<1> DEFINE k == Number(clerk[c])
           n == served.hire
<1>1. /\ DOMAIN clerk' = Clerks /\ ~Hiring(clerk'[c]) /\ clerk'[c].pc = "idle"
      /\ \A b \in Clerks \ {c} : clerk'[b] = clerk[b]
  BY DEF StaffIInv, Hiring, NotServed
<1>2. /\ Serving(clerk[c], uploads, hired, n) /\ n \in Nat
      /\ uploads \in Seq(UploadRows)
  BY DEF StaffIInv
<1>3. /\ k \in 1 .. n /\ \A i \in DOMAIN uploads : uploads[i].id # k
      /\ \A id \in hired : id[1] # k
  BY <1>2 DEF Serving
<1>4. \A b \in Clerks \ {c} : Hiring(clerk[b]) => Number(clerk[b]) # k
  BY DEF StaffIInv
<1> HIDE DEF k
<1>5. new \subseteq {k} \X (Nat \ {0})
  BY DEF k
<1>apart. Apart(hired, hired', k)
  <2>1. \A id \in new : id[1] = k
    BY <1>5
  <2> QED BY <2>1, OthersKeep, Zenon
<1>6. hired' \subseteq (1 .. n) \X (Nat \ {0})
  BY <1>3, <1>5 DEF StaffIInv
<1>7. \A b \in Clerks \ {c} : Serving(clerk[b], uploads, hired', n)
  BY <1>4, <1>apart DEF StaffIInv, Apart
<1>8. \A i \in DOMAIN uploads : Whole(uploads[i], hired', n)
  BY <1>3, <1>apart DEF StaffIInv, Whole, Apart
<1>9. Stored(hired', k) = new
  BY <1>3, <1>5 DEF Stored
<1>10. \A b, d \in Clerks :
         b # d /\ Hiring(clerk'[b]) /\ Hiring(clerk'[d]) => Number(clerk'[b]) # Number(clerk'[d])
  BY <1>1 DEF StaffIInv
<1>11. CASE UNCHANGED uploads
  <2>1. \A b \in Clerks : Serving(clerk'[b], uploads', hired', served'.hire)
    BY <1>1, <1>7, <1>11 DEF Serving, Hiring
  <2> QED BY <1>1, <1>2, <1>6, <1>8, <1>10, <1>11, <2>1 DEF StaffIInv
<1>12. CASE \E how \in {"error", "answered"}, count \in Nat :
              /\ uploads' = Append(uploads, [id |-> Number(clerk[c]), how |-> how, inserted |-> count])
              /\ Cardinality(new) = IF how = "answered" THEN count ELSE 0
  <2>1. PICK how \in {"error", "answered"}, count \in Nat :
              /\ uploads' = Append(uploads, [id |-> k, how |-> how, inserted |-> count])
              /\ Cardinality(new) = IF how = "answered" THEN count ELSE 0
    BY <1>12 DEF k
  <2> DEFINE u == [id |-> k, how |-> how, inserted |-> count]
  <2>2. u \in UploadRows /\ u.id = k /\ u.how = how /\ u.inserted = count
    BY <1>3 DEF UploadRows
  <2>3. uploads' = Append(uploads, u)
    BY <2>1
  <2> HIDE DEF u
  <2>4. /\ uploads' \in Seq(UploadRows)
        /\ \A i \in DOMAIN uploads' : uploads'[i] = u \/ (i \in DOMAIN uploads /\ uploads'[i] = uploads[i])
    BY <1>2, <2>2, <2>3
  <2>5. Whole(u, hired', n)
    BY <1>3, <1>9, <2>1, <2>2 DEF Whole
  <2>6. \A i \in DOMAIN uploads' : Whole(uploads'[i], hired', n)
    BY <1>8, <2>4, <2>5
  <2>7. \A b \in Clerks \ {c} : Serving(clerk[b], uploads', hired', n)
    BY <1>4, <1>7, <2>2, <2>4 DEF Serving
  <2>8. \A b \in Clerks : Serving(clerk'[b], uploads', hired', served'.hire)
    BY <1>1, <2>7 DEF Serving, Hiring
  <2> QED BY <1>1, <1>2, <1>6, <1>10, <2>4, <2>6, <2>8 DEF StaffIInv
<1> QED BY <1>11, <1>12

\* One more row of a file.
LEMMA ReadKeeps == ASSUME StaffIInv, NEW c \in Clerks, ReadRow(c) PROVE StaffIInv'
<1> DEFINE s == clerk[c]
           row == s.file[s.next]
           new == Employee(<<s.id, s.next>>, row)
           more == IF Accepted(row) THEN s.pending \cup {new} ELSE s.pending
           t == [s EXCEPT !.next = @ + 1, !.pending = more]
<1>1. /\ s.pc = "rows" /\ Reading(s)
      /\ DOMAIN clerk = Clerks
  BY DEF ReadRow, StaffIInv, Serving
<1>2. clerk' = [clerk EXCEPT ![c] = t]
  BY <1>1 DEF ReadRow
<1>3. /\ t.pc = "rows" /\ DOMAIN t = DOMAIN s /\ t.id = s.id /\ t.next = s.next + 1
      /\ t.pending = more
  BY <1>1 DEF Reading
<1>4. DOMAIN new = Fields /\ new.from = <<s.id, s.next>>
  BY DEF Employee, Fields
<1> HIDE DEF new
<1>5. more = s.pending \/ more = s.pending \cup {new}
  OBVIOUS
<1> HIDE DEF more, t
<1>6. IsFiniteSet(more)
  BY <1>1, <1>5, FS_AddElement DEF Reading
<1>7. Reading(t)
  <2>1. \A e \in more : e = new \/ e \in s.pending
    BY <1>5
  <2>2. \A e \in more :
          DOMAIN e = Fields /\ \E n \in Nat : n > 0 /\ n < t.next /\ e.from = <<t.id, n>>
    BY <1>1, <1>3, <1>4, <2>1 DEF Reading
  <2>3. \A e \in s.pending : e.from # new.from
    BY <1>1, <1>4 DEF Reading
  <2>4. \A d, e \in more : d.from = e.from => d = e
    BY <1>1, <2>1, <2>3 DEF Reading
  <2> QED BY <1>1, <1>3, <1>6, <2>2, <2>4 DEF Reading
<1>8. /\ Number(t) = Number(s) /\ Hiring(t) /\ Hiring(s)
  BY <1>1, <1>3 DEF Number, Hiring
<1>9. /\ DOMAIN clerk' = Clerks /\ clerk'[c] = t
      /\ \A b \in Clerks \ {c} : clerk'[b] = clerk[b]
  BY <1>1, <1>2
<1>10. UNCHANGED <<employees, uploads, hired, served>>
  BY DEF ReadRow
<1>11. Serving(s, uploads, hired, served.hire)
  BY DEF StaffIInv
<1> HIDE DEF s
<1>12. Serving(t, uploads, hired, served.hire)
  BY <1>3, <1>7, <1>8, <1>11 DEF Serving
<1>13. \A b \in Clerks : Serving(clerk'[b], uploads', hired', served'.hire)
  BY <1>9, <1>10, <1>12 DEF StaffIInv
<1>14. \A b, d \in Clerks :
         b # d /\ Hiring(clerk'[b]) /\ Hiring(clerk'[d]) => Number(clerk'[b]) # Number(clerk'[d])
  BY <1>8, <1>9 DEF StaffIInv, s
<1> QED BY <1>9, <1>10, <1>13, <1>14 DEF StaffIInv

LEMMA StoreFileKeeps == ASSUME StaffIInv, NEW c \in Clerks, StoreFile(c) PROVE StaffIInv'
<1> DEFINE s == clerk[c]
           ids == {e.from : e \in s.pending}
           clash == Clash(s.pending, employees)
           count == Cardinality(s.pending)
<1>1. s.pc = "rows" /\ Reading(s) /\ Hiring(s) /\ Number(s) = s.id
  BY DEF StoreFile, StaffIInv, Serving, Hiring, Number
<1>2. count \in Nat /\ Cardinality(ids) = count
  <2>1. IsFiniteSet(s.pending)
    BY <1>1 DEF Reading
  <2> DEFINE f == [e \in s.pending |-> e.from]
  <2>2. f \in Bijection(s.pending, ids)
    BY <1>1 DEF Reading, Bijection, Injection, Surjection, IsInjective
  <2>3. ExistsBijection(s.pending, ids)
    BY <2>2 DEF ExistsBijection
  <2> QED BY <2>1, <2>3, FS_Bijection, FS_CardinalityType
<1>3. ids \subseteq {Number(s)} \X (Nat \ {0})
  BY <1>1 DEF Reading
<1>4. /\ clerk' = [clerk EXCEPT ![c] = NotServed] /\ UNCHANGED served
      /\ uploads' = Append(uploads, [id |-> Number(s), how |-> IF clash THEN "error" ELSE "answered",
                                     inserted |-> count])
      /\ IF clash THEN UNCHANGED <<employees, hired>>
         ELSE employees' = employees \cup s.pending /\ hired' = hired \cup ids
  BY <1>1 DEF StoreFile
<1>5. \A e \in s.pending : DOMAIN e = Fields
  BY <1>1 DEF Reading
<1>6. Table(employees)
  BY DEF StaffIInv
<1>7. CASE clash
  <2>1. hired' = hired \cup {} /\ {} \subseteq {Number(s)} \X (Nat \ {0}) /\ Table(employees')
    BY <1>4, <1>6, <1>7
  <2>2. uploads' = Append(uploads, [id |-> Number(s), how |-> "error", inserted |-> count])
    BY <1>4, <1>7
  <2>3. Cardinality({}) = IF "error" = "answered" THEN count ELSE 0
    BY FS_EmptySet
  <2>4. \E how \in {"error", "answered"}, k \in Nat :
              /\ uploads' = Append(uploads, [id |-> Number(s), how |-> how, inserted |-> k])
              /\ Cardinality({}) = IF how = "answered" THEN k ELSE 0
    BY <1>2, <2>2, <2>3
  <2> HIDE DEF ids, clash, count
  <2> QED BY <1>1, <1>4, <2>1, <2>4, StoreKeeps
<1>8. CASE ~clash
  <2>1. Table(employees')
    <3>1. ~Clash(employees \cup s.pending, {})
      BY <1>6, <1>8, ClashFree DEF Table
    <3> QED BY <1>4, <1>5, <1>6, <1>8, <3>1 DEF Table
  <2>2. uploads' = Append(uploads, [id |-> Number(s), how |-> "answered", inserted |-> count])
    BY <1>4, <1>8
  <2>3. \E how \in {"error", "answered"}, k \in Nat :
              /\ uploads' = Append(uploads, [id |-> Number(s), how |-> how, inserted |-> k])
              /\ Cardinality(ids) = IF how = "answered" THEN k ELSE 0
    BY <1>2, <2>2
  <2>4. hired' = hired \cup ids
    BY <1>4, <1>8
  <2> HIDE DEF ids, clash, count
  <2> QED BY <1>1, <1>3, <1>4, <2>1, <2>3, <2>4, StoreKeeps
<1> QED BY <1>7, <1>8

LEMMA StaffStep == StaffIInv /\ [DirectoryNext]_staffVars => StaffIInv'
<1> SUFFICES ASSUME StaffIInv, [DirectoryNext]_staffVars PROVE StaffIInv'
  OBVIOUS
<1>table. Table(employees) /\ served.hire \in Nat /\ "hire" \in DOMAIN served
  BY DEF StaffIInv
<1>1. ASSUME NEW c \in Clerks, BeginCreate(c) PROVE StaffIInv'
  <2>1. PICK code \in Codes \cup {Null}, email \in Emails :
          clerk' = [clerk EXCEPT ![c] = [pc |-> "create", new |-> Employee(<<served.hire + 1, 1>>,
                      [code |-> code, email |-> email, active |-> TRUE])]]
    BY <1>1 DEF BeginCreate
  <2> DEFINE e == Employee(<<served.hire + 1, 1>>, [code |-> code, email |-> email, active |-> TRUE])
             s == [pc |-> "create", new |-> e]
  <2>2. DOMAIN e = Fields /\ e.from = <<served.hire + 1, 1>>
    BY DEF Employee, Fields
  <2> HIDE DEF e
  <2>3. s.pc = "create" /\ s.new = e /\ Number(s) = served.hire + 1
    BY <2>2 DEF Number
  <2>4. clerk' = [clerk EXCEPT ![c] = s]
    BY <2>1 DEF e
  <2>5. served' = [served EXCEPT !.hire = @ + 1] /\ UNCHANGED <<employees, uploads, hired>>
    BY <1>1 DEF BeginCreate
  <2> HIDE DEF s
  <2> QED BY <2>2, <2>3, <2>4, <2>5, BeginKeeps
<1>2. ASSUME NEW c \in Clerks, Create(c) PROVE StaffIInv'
  <2> DEFINE new == clerk[c].new
  <2>1. /\ Hiring(clerk[c]) /\ DOMAIN new = Fields /\ new.from = <<Number(clerk[c]), 1>>
    BY <1>2 DEF Create, StaffIInv, Serving, Hiring
  <2>2. CASE Clash({new}, employees)
    <3>1. /\ clerk' = [clerk EXCEPT ![c] = NotServed] /\ NotServed.pc = "idle"
          /\ UNCHANGED <<employees, hired, uploads, served>>
      BY <1>2, <2>2 DEF Create, NotServed
    <3> QED BY <1>table, <3>1, SettledKeeps
  <2>3. CASE ~Clash({new}, employees)
    <3>1. /\ clerk' = [clerk EXCEPT ![c] = NotServed] /\ UNCHANGED <<uploads, served>>
          /\ employees' = employees \cup {new} /\ hired' = hired \cup {new.from}
      BY <1>2, <2>3 DEF Create
    <3>2. Table(employees')
      <4>1. ~Clash(employees \cup {new}, {})
        BY <1>table, <2>3, ClashFree DEF Table
      <4> QED BY <1>table, <2>1, <3>1, <4>1 DEF Table
    <3>3. {new.from} \subseteq {Number(clerk[c])} \X (Nat \ {0})
      BY <2>1
    <3> QED BY <2>1, <3>1, <3>2, <3>3, StoreKeeps
  <2> QED BY <2>2, <2>3
<1>3. ASSUME NEW c \in Clerks, BeginUpload(c) PROVE StaffIInv'
  <2>1. PICK f \in Files : clerk' = [clerk EXCEPT ![c] = [pc |-> "rows", id |-> served.hire + 1,
                                            file |-> f, next |-> 1, pending |-> {}]]
    BY <1>3 DEF BeginUpload
  <2> DEFINE s == [pc |-> "rows", id |-> served.hire + 1, file |-> f, next |-> 1, pending |-> {}]
  <2>2. s.pc = "rows" /\ Number(s) = served.hire + 1 /\ Reading(s)
    BY FS_EmptySet DEF Number, Reading
  <2>3. served' = [served EXCEPT !.hire = @ + 1] /\ UNCHANGED <<employees, uploads, hired>>
    BY <1>3 DEF BeginUpload
  <2>4. clerk' = [clerk EXCEPT ![c] = s]
    BY <2>1
  <2> HIDE DEF s
  <2> QED BY <2>2, <2>3, <2>4, BeginKeeps
<1>4. ASSUME NEW c \in Clerks, ReadRow(c) PROVE StaffIInv'
  BY <1>4, ReadKeeps
<1>5. ASSUME NEW c \in Clerks, StoreFile(c) PROVE StaffIInv'
  BY <1>5, StoreFileKeeps
<1>6. ASSUME NEW c \in Clerks, NEW pc \in {"update", "delete"}, Open(c, pc) PROVE StaffIInv'
  <2>1. PICK e \in employees : clerk' = [clerk EXCEPT ![c] = [pc |-> pc, of |-> e]]
    BY <1>6 DEF Open
  <2> DEFINE s == [pc |-> pc, of |-> e]
  <2>2. s.pc \in {"idle", "update", "delete"} /\ clerk' = [clerk EXCEPT ![c] = s]
    BY <2>1
  <2>3. /\ UNCHANGED <<employees, uploads, hired>> /\ served' = [served EXCEPT !.change = @ + 1]
    BY <1>6 DEF Open
  <2>4. "hire" \in DOMAIN served' /\ served'.hire = served.hire
    BY <1>table, <2>3
  <2> HIDE DEF s
  <2> QED BY <1>table, <2>2, <2>3, <2>4, SettledKeeps
<1>7. ASSUME NEW c \in Clerks, Update(c) PROVE StaffIInv'
  <2>1. PICK code \in Codes \cup {Null}, email \in Emails \cup {Null}, active \in BOOLEAN :
          LET old == Current(clerk[c].of.from)
              new == {[e EXCEPT !.code = IF clerk[c].of.code = code THEN @ ELSE code,
                                !.email = IF clerk[c].of.email = email THEN @ ELSE email,
                                !.active = IF clerk[c].of.active = active THEN @ ELSE active] : e \in old} IN
          employees' = IF Clash(new, employees \ old) THEN employees ELSE (employees \ old) \cup new
    BY <1>7 DEF Update
  <2> DEFINE old == Current(clerk[c].of.from)
             new == {[e EXCEPT !.code = IF clerk[c].of.code = code THEN @ ELSE code,
                               !.email = IF clerk[c].of.email = email THEN @ ELSE email,
                               !.active = IF clerk[c].of.active = active THEN @ ELSE active] : e \in old}
  <2>2. \A e \in new : DOMAIN e = Fields
    BY <1>table DEF Table, Current
  <2>3. employees' = IF Clash(new, employees \ old) THEN employees ELSE (employees \ old) \cup new
    BY <2>1
  <2> HIDE DEF old, new
  <2>4. Table(employees')
    <3>1. CASE Clash(new, employees \ old)
      BY <1>table, <2>3, <3>1
    <3>2. CASE ~Clash(new, employees \ old)
      <4>1. ~Clash(employees \ old, {})
        BY <1>table, ClashFree DEF Table, Clash
      <4>2. ~Clash((employees \ old) \cup new, {})
        BY <3>2, <4>1, ClashFree
      <4> QED BY <1>table, <2>2, <2>3, <3>2, <4>2 DEF Table
    <3> QED BY <3>1, <3>2
  <2>5. /\ clerk' = [clerk EXCEPT ![c] = NotServed] /\ NotServed.pc = "idle"
        /\ UNCHANGED <<hired, uploads, served>>
    BY <1>7 DEF Update, NotServed
  <2> QED BY <1>table, <2>4, <2>5, SettledKeeps
<1>8. ASSUME NEW c \in Clerks, Delete(c) PROVE StaffIInv'
  <2>1. employees' \subseteq employees
    BY <1>8 DEF Delete
  <2>2. Table(employees')
    BY <1>table, <2>1 DEF Table, Clash
  <2>3. /\ clerk' = [clerk EXCEPT ![c] = NotServed] /\ NotServed.pc = "idle"
        /\ UNCHANGED <<hired, uploads, served>>
    BY <1>8 DEF Delete, NotServed
  <2> QED BY <1>table, <2>2, <2>3, SettledKeeps
<1>9. CASE Pay \/ Book \/ UNCHANGED staffVars
  BY <1>9 DEF Pay, Book, staffVars, StaffIInv
<1> QED BY <1>1, <1>2, <1>3, <1>4, <1>5, <1>6, <1>7, <1>8, <1>9 DEF DirectoryNext

\* UploadsWhole holds: an upload stores what it counted or nothing, and no code or
\* address is held twice.
THEOREM UploadsAlwaysWhole == DirectorySpec => []UploadsWhole
<1>1. DirectoryInit => StaffIInv
  <2> SUFFICES ASSUME DirectoryInit PROVE StaffIInv
    OBVIOUS
  <2>1. Table(employees)
    BY DEF DirectoryInit, Table, Clash
  <2>2. \A c \in Clerks : clerk[c] = NotServed /\ ~Hiring(clerk[c])
    BY DEF DirectoryInit, NotServed, Hiring
  <2>3. \A c \in Clerks : Serving(clerk[c], uploads, hired, served.hire)
    BY <2>2 DEF Serving, Hiring, NotServed
  <2>4. uploads \in Seq(UploadRows) /\ DOMAIN uploads = {}
    BY DEF DirectoryInit
  <2> QED BY <2>1, <2>2, <2>3, <2>4 DEF DirectoryInit, StaffIInv
<1>2. StaffIInv => UploadsWhole
  <2> SUFFICES ASSUME StaffIInv PROVE UploadsWhole
    OBVIOUS
  <2>1. \A i \in DOMAIN uploads :
          Cardinality({id \in hired : id[1] = uploads[i].id})
            = IF uploads[i].how = "answered" THEN uploads[i].inserted ELSE 0
    BY DEF StaffIInv, Whole, Stored
  <2>2. \A c \in Clerks : clerk[c].pc = "rows" => \A id \in hired : id[1] # clerk[c].id
    BY DEF StaffIInv, Serving, Hiring, Number
  <2> QED BY <2>1, <2>2 DEF UploadsWhole, StaffIInv, Table
<1> QED BY <1>1, <1>2, StaffStep, PTL DEF DirectorySpec
-----------------------------------------------------------------------------
(* Bank files *)

\* A bounded, non-empty set of numbers has a greatest element: among the sets of the
\* elements above one of them, some set contains no other.
LEMMA MaxExists ==
  ASSUME NEW S \in SUBSET Nat, NEW b \in Nat, \A x \in S : x <= b, S # {}
  PROVE  Max(S) \in S /\ \A y \in S : Max(S) >= y
<1> DEFINE Above(x) == {y \in S : y > x}
           T == {Above(x) : x \in S}
<1>1. IsFiniteSet(S)
  BY FS_BoundedSetOfNaturals
<1>2. IsWellFoundedOn(StrictSubsetOrdering(S), SUBSET S)
  BY <1>1, FS_StrictSubsetOrderingWellFounded, FS_FiniteSubsetsOfFinite
<1>3. T \subseteq SUBSET S /\ T # {}
  OBVIOUS
<1>4. PICK t \in T : \A u \in T : ~(<<u, t>> \in StrictSubsetOrdering(S))
  BY <1>2, <1>3, WFMin
<1>5. PICK x \in S : t = Above(x)
  BY <1>4
<1>6. ASSUME NEW y \in S, y > x PROVE FALSE
  <2>1. Above(y) \subseteq Above(x)
    <3>1. \A z \in S : z \in Nat
      OBVIOUS
    <3>2. \A z \in S : z > y => z > x
      BY <1>6, <3>1
    <3> QED BY <3>2
  <2>a. y \in Above(x) /\ y \notin Above(y)
    BY <1>6
  <2>2. <<Above(y), Above(x)>> \in StrictSubsetOrdering(S)
    BY <1>3, <2>1, <2>a DEF StrictSubsetOrdering
  <2> QED BY <1>4, <1>5, <2>2
<1>7. \A y \in S : x >= y
  BY <1>6
<1> QED BY <1>7 DEF Max

\* The accounts money may go to, and may for ever: nothing takes that back.
Fit == {a \in vetted : account[a] # NoAccount /\ account[a].primary /\ a[2] <= PeriodEnd}

\* An account at most for everybody it is about, and one of their own that is fit.
Choice(c, fit) ==
  /\ DOMAIN c \subseteq Payees
  /\ \A e \in DOMAIN c :
       /\ c[e] \subseteq Starts /\ \A s \in c[e] : <<e, s>> \in fit
       /\ \A s, t \in c[e] : s = t

LinesOf(c) == {l \in AccountId : l[1] \in DOMAIN c /\ l[2] \in c[l[1]]}

Verdict == [on : AccountId, status : {"verified", "rejected"},
            read : {"pending_verification", "verified", "rejected"}]

Accounts ==
  /\ account \in [AccountId -> Account \cup {NoAccount}] /\ vetted \subseteq AccountId
  /\ \A a \in AccountId : account[a].status = "verified" => a \in vetted
  /\ verdict \in [Officers -> Verdict \cup {NoVerdict}]
  /\ \A o \in Officers : verdict[o] # NoVerdict => account[verdict[o].on] # NoAccount

CodeSet == Ifsc \cup {Malformed}
Codings == /\ codes \in [Branches -> Seq(CodeSet)]
           /\ \A b \in Branches : Len(codes[b]) > 0

\* The code is one of those had, from the i-th to the n-th.
HadCode(had, code, i, n) == \E k \in i .. n : had[k] = code

\* Every line has a code its branch had between the two.
LinesTrue(lines, since, till, acc, cod) ==
  \A l \in lines :
    /\ l.to \in AccountId /\ acc[l.to] # NoAccount /\ acc[l.to].branch \in Branches
    /\ HadCode(cod[acc[l.to].branch], l.code, since[acc[l.to].branch], till[acc[l.to].branch])

Filing ==
  filing # NotFiling =>
    /\ filing = [pc |-> "build", lines |-> filing.lines, bad |-> filing.bad, held |-> filing.held,
                 since |-> filing.since, chosen |-> filing.chosen]
    /\ Choice(filing.chosen, Fit)
    /\ PaidInto(filing) \subseteq LinesOf(filing.chosen)
    /\ filing.lines \subseteq [to : AccountId, code : CodeSet]
    /\ \A l, n \in filing.lines : l.to = n.to => l = n
    /\ batchItems # <<>> => filing.chosen = batchItems

\* How old the codes are that a file holds.
Timing ==
  filing # NotFiling =>
    /\ filing.since \in [Branches -> Nat \ {0}]
    /\ \A b \in Branches : filing.since[b] <= Len(codes[b])
    /\ \A k \in DOMAIN bankFiles, b \in Branches : bankFiles[k].till[b] <= filing.since[b]
    /\ LinesTrue(filing.lines, filing.since, CodesHad, account, codes)
    /\ \A h \in filing.held :
         h.branch \in Branches
         /\ HadCode(codes[h.branch], h.code, filing.since[h.branch], Len(codes[h.branch]))

FileShape == [lines : SUBSET [to : AccountId, code : CodeSet],
              since : [Branches -> Nat \ {0}], till : [Branches -> Nat \ {0}]]

\* Every file has the lines of the items.
Filed ==
  /\ bankFiles \in Seq(FileShape)
  /\ batchItems = <<>> => bankFiles = <<>>
  /\ batchItems # <<>> =>
       /\ DOMAIN batchItems = Payees /\ Choice(batchItems, Fit)
       /\ \A k \in DOMAIN bankFiles :
            /\ PaidInto(bankFiles[k]) = LinesOf(batchItems)
            /\ \A l, n \in bankFiles[k].lines : l.to = n.to => l = n

Timed ==
  /\ \A k \in DOMAIN bankFiles :
       /\ \A b \in Branches : bankFiles[k].since[b] <= bankFiles[k].till[b]
                              /\ bankFiles[k].till[b] <= Len(codes[b])
       /\ LinesTrue(bankFiles[k].lines, bankFiles[k].since, bankFiles[k].till, account, codes)
  /\ \A j, k \in DOMAIN bankFiles : j < k =>
       \A b \in Branches : bankFiles[j].till[b] <= bankFiles[k].since[b]

BankIInv == Accounts /\ Filing /\ Filed /\ Codings /\ Timing /\ Timed

\* An account keeps its owner's choice to be paid into it, and its verification is not
\* forgotten.
AccountsKept ==
  /\ vetted \subseteq vetted'
  /\ \A a \in AccountId : account[a] # NoAccount =>
       /\ account'[a] # NoAccount /\ account'[a].primary = account[a].primary
       /\ account'[a].branch = account[a].branch

\* A branch has had the codes it has had.
CodesKept ==
  \A b \in Branches :
    /\ Len(codes[b]) <= Len(codes'[b])
    /\ \A k \in 1 .. Len(codes[b]) : codes'[b][k] = codes[b][k]

LEMMA AccountsStep ==
  ASSUME Accounts, BankNext
  PROVE  Accounts' /\ AccountsKept
<1>1. ASSUME NEW a \in AccountId, NEW primary \in BOOLEAN, NEW sound \in BOOLEAN,
             NEW b \in Branches, AddAccount(a, primary, sound, b)
      PROVE  Accounts' /\ AccountsKept
  <2> DEFINE new == [primary |-> primary, sound |-> sound, branch |-> b,
                     status |-> "pending_verification"]
  <2>1. account' = [account EXCEPT ![a] = new] /\ UNCHANGED <<vetted, verdict>> /\ account[a] = NoAccount
    BY <1>1 DEF AddAccount
  <2>2. new \in Account /\ new # NoAccount /\ new.status # "verified"
    BY DEF Account, NoAccount
  <2> HIDE DEF new
  <2>3. /\ account' \in [AccountId -> Account \cup {NoAccount}] /\ account'[a] = new
        /\ \A c \in AccountId \ {a} : account'[c] = account[c]
    BY <2>1, <2>2 DEF Accounts
  <2>4. \A c \in AccountId : account'[c].status = "verified" => c \in vetted
    BY <2>2, <2>3 DEF Accounts
  <2>5. \A c \in AccountId : account[c] # NoAccount => c # a
    BY <2>1
  <2>6. \A o \in Officers : verdict[o] # NoVerdict => account'[verdict[o].on] # NoAccount
    BY <2>3, <2>5 DEF Accounts, Verdict
  <2> QED BY <2>1, <2>3, <2>4, <2>5, <2>6 DEF Accounts, AccountsKept
<1>2. ASSUME NEW o \in Officers, NEW a \in AccountId, NEW s \in {"verified", "rejected"}, Judge(o, a, s)
      PROVE  Accounts' /\ AccountsKept
  <2> DEFINE new == [on |-> a, status |-> s, read |-> account[a].status]
  <2>1. /\ verdict' = [verdict EXCEPT ![o] = new] /\ account[a] # NoAccount
        /\ UNCHANGED <<account, vetted>>
    BY <1>2 DEF Judge
  <2>2. account[a] \in Account
    BY <2>1 DEF Accounts
  <2>3. new \in Verdict /\ new.on = a
    BY <2>2 DEF Verdict, Account
  <2> HIDE DEF new
  <2>4. verdict' \in [Officers -> Verdict \cup {NoVerdict}]
    BY <2>1, <2>3 DEF Accounts
  <2>5. \A p \in Officers : verdict'[p] = IF p = o THEN new ELSE verdict[p]
    BY <2>1 DEF Accounts
  <2>6. \A p \in Officers : verdict'[p] # NoVerdict => account[verdict'[p].on] # NoAccount
    BY <2>1, <2>3, <2>5 DEF Accounts
  <2> QED BY <2>1, <2>4, <2>6 DEF Accounts, AccountsKept
<1>3. ASSUME NEW o \in Officers, CommitVerdict(o) PROVE Accounts' /\ AccountsKept
  <2> DEFINE v == verdict[o]
  <2>1. v \in Verdict /\ account[v.on] \in Account /\ v.on \in AccountId
    BY <1>3 DEF CommitVerdict, Accounts, Verdict
  <2>2. /\ verdict' = [verdict EXCEPT ![o] = NoVerdict]
        /\ \/ UNCHANGED <<account, vetted>>
           \/ /\ account' = [account EXCEPT ![v.on].status = v.status]
              /\ vetted' = IF v.status = "verified" THEN vetted \cup {v.on} ELSE vetted
    BY <1>3 DEF CommitVerdict
  <2>3. /\ verdict' \in [Officers -> Verdict \cup {NoVerdict}] /\ verdict'[o] = NoVerdict
        /\ \A p \in Officers \ {o} : verdict'[p] = verdict[p]
    BY <2>2 DEF Accounts
  <2>4. CASE UNCHANGED <<account, vetted>>
    BY <2>3, <2>4 DEF Accounts, AccountsKept
  <2>5. CASE /\ account' = [account EXCEPT ![v.on].status = v.status]
             /\ vetted' = IF v.status = "verified" THEN vetted \cup {v.on} ELSE vetted
    <3> DEFINE judged == [account[v.on] EXCEPT !.status = v.status]
    <3>1. /\ judged \in Account /\ judged # NoAccount
          /\ judged.primary = account[v.on].primary /\ judged.branch = account[v.on].branch
          /\ judged.status = v.status
      BY <2>1 DEF Account, Verdict, NoAccount
    <3>2. account' = [account EXCEPT ![v.on] = judged]
      BY <2>5
    <3> HIDE DEF judged, v
    <3>3. /\ account' \in [AccountId -> Account \cup {NoAccount}] /\ account'[v.on] = judged
          /\ \A c \in AccountId \ {v.on} : account'[c] = account[c]
      BY <2>1, <3>1, <3>2 DEF Accounts
    <3>4. vetted \subseteq vetted' /\ vetted' \subseteq AccountId
      BY <2>1, <2>5 DEF Accounts
    <3>5. \A c \in AccountId : account'[c].status = "verified" => c \in vetted'
      BY <2>1, <2>5, <3>1, <3>3, <3>4 DEF Accounts
    <3>6. AccountsKept
      BY <3>1, <3>3, <3>4 DEF AccountsKept
    <3>7. \A p \in Officers : verdict'[p] # NoVerdict => account'[verdict'[p].on] # NoAccount
      BY <2>3, <3>6 DEF Accounts, AccountsKept, Verdict
    <3> QED BY <2>3, <3>3, <3>4, <3>5, <3>6, <3>7 DEF Accounts
  <2> QED BY <2>2, <2>4, <2>5
<1>4. CASE UNCHANGED <<account, vetted, verdict>>
  BY <1>4 DEF Accounts, AccountsKept
<1>5. ASSUME NEW b \in Branches, NEW code \in CodeSet, Recode(b, code) PROVE UNCHANGED <<account, vetted, verdict>>
  BY <1>5 DEF Recode
<1>6. ASSUME NEW e \in Payees, Choose(e) \/ WriteLine(e) PROVE UNCHANGED <<account, vetted, verdict>>
  BY <1>6 DEF Choose, WriteLine
<1>7. ASSUME BeginFiling \/ CommitFiling \/ EndFiling PROVE UNCHANGED <<account, vetted, verdict>>
  BY <1>7 DEF BeginFiling, CommitFiling, EndFiling
<1> QED BY <1>1, <1>2, <1>3, <1>4, <1>5, <1>6, <1>7 DEF BankNext, CodeSet

\* The sequence t is s and one element more, which is x.
Grown(t, s, x) == \A k \in DOMAIN t : t[k] = x \/ (k \in DOMAIN s /\ t[k] = s[k])

LEMMA AppendEach ==
  ASSUME NEW S, NEW s \in Seq(S), NEW x \in S, NEW t, t = Append(s, x)
  PROVE  t \in Seq(S) /\ Grown(t, s, x)
<1>1. t \in Seq(S) /\ Len(t) = Len(s) + 1 /\ Len(s) \in Nat
  OBVIOUS
<1>2. t[Len(s) + 1] = x /\ \A k \in 1 .. Len(s) : t[k] = s[k]
  BY AppendProperties
<1>3. DOMAIN t = 1 .. Len(t) /\ DOMAIN s = 1 .. Len(s)
  BY <1>1
<1>4. \A k \in DOMAIN t : k = Len(s) + 1 \/ k \in 1 .. Len(s)
  BY <1>1, <1>3
<1> QED BY <1>1, <1>2, <1>3, <1>4, Zenon DEF Grown

\* What was fit to be chosen stays so.
LEMMA ChoiceKept ==
  ASSUME NEW c, NEW fit, NEW more, Choice(c, fit), fit \subseteq more
  PROVE  Choice(c, more)
BY DEF Choice

LEMMA FitKept ==
  ASSUME Accounts, AccountsKept
  PROVE  Fit \subseteq Fit'
BY DEF Fit, AccountsKept, Accounts

\* The newest account that is payable is fit.
LEMMA PayableFit ==
  ASSUME Accounts, NEW e \in Payees, Payable(e) # {}
  PROVE  Max(Payable(e)) \in Starts /\ <<e, Max(Payable(e))>> \in Fit
<1>1. Payable(e) \in SUBSET Nat /\ PeriodEnd \in Nat /\ \A s \in Payable(e) : s <= PeriodEnd
  BY BankingAssumption DEF Payable
<1>2. Max(Payable(e)) \in Payable(e)
  BY <1>1, MaxExists
<1>3. \A s \in Payable(e) : <<e, s>> \in Fit /\ s \in Starts
  BY DEF Payable, Fit, Accounts, AccountId
<1> QED BY <1>2, <1>3

LEMMA CodesStep ==
  ASSUME Codings, BankNext
  PROVE  Codings' /\ CodesKept
<1>1. ASSUME NEW b \in Branches, NEW code \in CodeSet, Recode(b, code) PROVE Codings' /\ CodesKept
  <2>1. codes' = [codes EXCEPT ![b] = Append(codes[b], code)]
    BY <1>1 DEF Recode, Codings
  <2>2. /\ Append(codes[b], code) \in Seq(CodeSet)
        /\ Len(Append(codes[b], code)) = Len(codes[b]) + 1
        /\ Len(codes[b]) \in Nat
        /\ \A k \in 1 .. Len(codes[b]) : Append(codes[b], code)[k] = codes[b][k]
    BY DEF Codings
  <2>3. /\ codes' \in [Branches -> Seq(CodeSet)]
        /\ \A c \in Branches : codes'[c] = IF c = b THEN Append(codes[b], code) ELSE codes[c]
    BY <2>1, <2>2 DEF Codings
  <2>4. \A c \in Branches : Len(codes[c]) \in Nat
    BY DEF Codings
  <2>5. Codings'
    BY <2>2, <2>3 DEF Codings
  <2>7. /\ Len(codes'[b]) = Len(codes[b]) + 1
        /\ \A k \in 1 .. Len(codes[b]) : codes'[b][k] = codes[b][k]
    BY <2>2, <2>3
  <2>6. CodesKept
    <3> SUFFICES ASSUME NEW c \in Branches
                 PROVE  /\ Len(codes[c]) <= Len(codes'[c])
                        /\ \A k \in 1 .. Len(codes[c]) : codes'[c][k] = codes[c][k]
      BY DEF CodesKept
    <3>1. CASE c = b
      <4>1. Len(codes[b]) <= Len(codes'[b])
        BY <2>4, <2>7
      <4> QED BY <2>7, <3>1, <4>1
    <3>2. CASE c # b
      BY <2>3, <2>4, <3>2
    <3> QED BY <3>1, <3>2
  <2> QED BY <2>5, <2>6
<1>2. CASE UNCHANGED codes
  <2>1. \A c \in Branches : Len(codes[c]) \in Nat
    BY DEF Codings
  <2> QED BY <1>2, <2>1 DEF Codings, CodesKept
<1>3. ASSUME NEW a \in AccountId, NEW primary \in BOOLEAN, NEW sound \in BOOLEAN,
             NEW b \in Branches, AddAccount(a, primary, sound, b)
      PROVE  UNCHANGED codes
  BY <1>3 DEF AddAccount
<1>4. ASSUME NEW o \in Officers, NEW a \in AccountId, NEW s \in {"verified", "rejected"}, Judge(o, a, s)
      PROVE  UNCHANGED codes
  BY <1>4 DEF Judge
<1>5. ASSUME NEW o \in Officers, CommitVerdict(o) PROVE UNCHANGED codes
  BY <1>5 DEF CommitVerdict
<1>6. ASSUME NEW e \in Payees, Choose(e) \/ WriteLine(e) PROVE UNCHANGED codes
  BY <1>6 DEF Choose, WriteLine
<1>7. ASSUME BeginFiling \/ CommitFiling \/ EndFiling PROVE UNCHANGED codes
  BY <1>7 DEF BeginFiling, CommitFiling, EndFiling
<1> QED BY <1>1, <1>2, <1>3, <1>4, <1>5, <1>6, <1>7 DEF BankNext, CodeSet

\* A line's code stays one that its branch had, while accounts are added and judged and
\* branches edited.
LEMMA LinesKept ==
  ASSUME NEW acc, NEW next, NEW cod, NEW longer, NEW lines, NEW since, NEW till, NEW more,
         \A a \in AccountId : acc[a] # NoAccount =>
           next[a] # NoAccount /\ next[a].branch = acc[a].branch,
         \A b \in Branches : \A k \in 1 .. till[b] : longer[b][k] = cod[b][k],
         \A b \in Branches : since[b] \in Nat \ {0} /\ till[b] \in Nat /\ more[b] \in Nat /\ till[b] <= more[b],
         LinesTrue(lines, since, till, acc, cod)
  PROVE  LinesTrue(lines, since, more, next, longer)
<1> SUFFICES ASSUME NEW l \in lines
             PROVE  /\ l.to \in AccountId /\ next[l.to] # NoAccount /\ next[l.to].branch \in Branches
                    /\ HadCode(longer[next[l.to].branch], l.code, since[next[l.to].branch],
                               more[next[l.to].branch])
  BY DEF LinesTrue
<1> DEFINE b == acc[l.to].branch
<1>1. /\ l.to \in AccountId /\ acc[l.to] # NoAccount /\ b \in Branches
      /\ HadCode(cod[b], l.code, since[b], till[b])
  BY DEF LinesTrue
<1>2. next[l.to] # NoAccount /\ next[l.to].branch = b
  BY <1>1
<1> HIDE DEF b
<1>3. PICK k \in since[b] .. till[b] : cod[b][k] = l.code
  BY <1>1 DEF HadCode
<1>4. /\ since[b] \in Nat \ {0} /\ till[b] \in Nat /\ more[b] \in Nat /\ till[b] <= more[b]
  BY <1>1
<1>5. k \in 1 .. till[b] /\ k \in since[b] .. more[b]
  BY <1>3, <1>4
<1>6. longer[b][k] = l.code
  BY <1>1, <1>3, <1>5
<1> QED BY <1>1, <1>2, <1>5, <1>6 DEF HadCode

\* The branch a line is written with is the account's, under a code it has, or had when
\* the line before was written.
LEMMA BranchTrue ==
  ASSUME BankIInv, filing # NotFiling, NEW a \in AccountId, account[a] # NoAccount
  PROVE  LET b == BranchOf(a) IN
         /\ b.branch = account[a].branch /\ b.branch \in Branches /\ b.code \in CodeSet
         /\ HadCode(codes[b.branch], b.code, filing.since[b.branch], Len(codes[b.branch]))
<1> DEFINE c == account[a].branch
<1>1. /\ c \in Branches /\ codes[c] \in Seq(CodeSet) /\ Len(codes[c]) \in Nat /\ Len(codes[c]) > 0
      /\ filing.since[c] \in Nat \ {0} /\ filing.since[c] <= Len(codes[c])
  BY DEF BankIInv, Accounts, Account, Codings, Timing
<1>2. CASE \E h \in filing.held : h.branch = c
  <2>1. BranchOf(a) \in filing.held /\ BranchOf(a).branch = c
    BY <1>2 DEF BranchOf
  <2>2. HadCode(codes[c], BranchOf(a).code, filing.since[c], Len(codes[c]))
    BY <2>1 DEF BankIInv, Timing
  <2>3. BranchOf(a).code \in CodeSet
    BY <1>1, <2>2 DEF HadCode
  <2> QED BY <1>1, <2>1, <2>2, <2>3
<1>3. CASE ~\E h \in filing.held : h.branch = c
  <2>1. BranchOf(a) = [branch |-> c, code |-> codes[c][Len(codes[c])]]
    BY <1>3 DEF BranchOf, Last
  <2>2. Len(codes[c]) \in filing.since[c] .. Len(codes[c]) /\ codes[c][Len(codes[c])] \in CodeSet
    BY <1>1
  <2> QED BY <1>1, <2>1, <2>2 DEF HadCode
<1> QED BY <1>2, <1>3

LEMMA FilingStep ==
  ASSUME BankIInv, BankNext
  PROVE  Filing' /\ Filed' /\ Timing' /\ Timed'
<1>0. /\ Accounts /\ Accounts' /\ AccountsKept /\ Fit \subseteq Fit'
      /\ Codings /\ Codings' /\ CodesKept
  BY AccountsStep, FitKept, CodesStep DEF BankIInv
<1>1. \A c : Choice(c, Fit) => Choice(c, Fit')
  BY <1>0, ChoiceKept
<1>a. /\ \A b \in Branches : Len(codes[b]) \in Nat /\ Len(codes'[b]) \in Nat /\ Len(codes[b]) <= Len(codes'[b])
      /\ CodesHad \in [Branches -> Nat] /\ CodesHad' \in [Branches -> Nat]
      /\ \A b \in Branches : CodesHad[b] = Len(codes[b]) /\ CodesHad'[b] = Len(codes'[b])
  BY <1>0 DEF Codings, CodesKept, CodesHad
<1>b. \A a \in AccountId : account[a] # NoAccount =>
        account'[a] # NoAccount /\ account'[a].branch = account[a].branch
  BY <1>0 DEF AccountsKept
<1>c. \A b \in Branches : \A k \in 1 .. Len(codes[b]) : codes'[b][k] = codes[b][k]
  BY <1>0 DEF CodesKept
<1>2. ASSUME UNCHANGED <<batchItems, bankFiles>> PROVE Filed' /\ Timed'
  <2>1. Filed'
    BY <1>1, <1>2 DEF BankIInv, Filed, PaidInto
  <2>2. ASSUME NEW k \in DOMAIN bankFiles
        PROVE  /\ \A b \in Branches : bankFiles[k].till[b] <= Len(codes'[b])
               /\ LinesTrue(bankFiles[k].lines, bankFiles[k].since, bankFiles[k].till, account', codes')
    <3> DEFINE f == bankFiles[k]
    <3>0. f \in FileShape
      BY DEF BankIInv, Filed
    <3>1. f.since \in [Branches -> Nat \ {0}] /\ f.till \in [Branches -> Nat \ {0}]
      BY <3>0 DEF FileShape
    <3>2. /\ \A b \in Branches : f.till[b] <= Len(codes[b])
          /\ LinesTrue(f.lines, f.since, f.till, account, codes)
      BY DEF BankIInv, Timed
    <3> HIDE DEF f
    <3>3. \A b \in Branches : f.till[b] <= Len(codes'[b])
      BY <1>a, <3>1, <3>2
    <3>4. \A b \in Branches : \A i \in 1 .. f.till[b] : codes'[b][i] = codes[b][i]
      BY <1>a, <1>c, <3>1, <3>2
    <3>5. LinesTrue(f.lines, f.since, f.till, account', codes')
      <4>1. \A b \in Branches : f.since[b] \in Nat \ {0} /\ f.till[b] \in Nat /\ f.till[b] <= f.till[b]
        BY <3>1
      <4> QED BY <1>b, <3>2, <3>4, <4>1, LinesKept
    <3> QED BY <3>3, <3>5 DEF f
  <2>3. Timed'
    BY <1>2, <2>2 DEF BankIInv, Timed
  <2> QED BY <2>1, <2>3
<1>d. ASSUME filing # NotFiling
      PROVE  /\ \A b \in Branches : filing.since[b] \in Nat \ {0} /\ filing.since[b] <= Len(codes'[b])
             /\ LinesTrue(filing.lines, filing.since, CodesHad', account', codes')
             /\ \A h \in filing.held :
                  h.branch \in Branches
                  /\ HadCode(codes'[h.branch], h.code, filing.since[h.branch], Len(codes'[h.branch]))
  <2>1. /\ filing.since \in [Branches -> Nat \ {0}]
        /\ \A b \in Branches : filing.since[b] <= Len(codes[b])
        /\ LinesTrue(filing.lines, filing.since, CodesHad, account, codes)
        /\ \A h \in filing.held :
             h.branch \in Branches
             /\ HadCode(codes[h.branch], h.code, filing.since[h.branch], Len(codes[h.branch]))
    BY <1>d DEF BankIInv, Timing
  <2>2. \A b \in Branches : filing.since[b] \in Nat \ {0} /\ filing.since[b] <= Len(codes'[b])
    <3> SUFFICES ASSUME NEW b \in Branches
                 PROVE  filing.since[b] \in Nat \ {0} /\ filing.since[b] <= Len(codes'[b])
      OBVIOUS
    <3>1. filing.since[b] \in Nat \ {0} /\ filing.since[b] <= Len(codes[b])
      BY <2>1
    <3>2. Len(codes[b]) \in Nat /\ Len(codes'[b]) \in Nat /\ Len(codes[b]) <= Len(codes'[b])
      BY <1>a
    <3> QED BY <3>1, <3>2
  <2>3. LinesTrue(filing.lines, filing.since, CodesHad', account', codes')
    <3>1. /\ \A b \in Branches : \A k \in 1 .. CodesHad[b] : codes'[b][k] = codes[b][k]
          /\ \A b \in Branches : /\ filing.since[b] \in Nat \ {0} /\ CodesHad[b] \in Nat
                                 /\ CodesHad'[b] \in Nat /\ CodesHad[b] <= CodesHad'[b]
      BY <1>a, <1>c, <2>1
    <3> HIDE DEF CodesHad
    <3> QED BY <1>b, <2>1, <3>1, LinesKept
  <2>4. ASSUME NEW h \in filing.held
        PROVE  HadCode(codes'[h.branch], h.code, filing.since[h.branch], Len(codes'[h.branch]))
    <3>1. PICK k \in filing.since[h.branch] .. Len(codes[h.branch]) : codes[h.branch][k] = h.code
      BY <2>1 DEF HadCode
    <3>2. k \in 1 .. Len(codes[h.branch]) /\ k \in filing.since[h.branch] .. Len(codes'[h.branch])
      BY <1>a, <2>1, <3>1
    <3>3. codes'[h.branch][k] = h.code
      BY <1>c, <2>1, <3>1, <3>2
    <3> QED BY <3>2, <3>3 DEF HadCode
  <2> QED BY <2>1, <2>2, <2>3, <2>4
<1>3. CASE UNCHANGED <<filing, batchItems, bankFiles>>
  <2>1. Filing'
    BY <1>1, <1>3 DEF BankIInv, Filing, PaidInto
  <2>2. Timing'
    BY <1>3, <1>d DEF BankIInv, Timing
  <2> QED BY <1>2, <1>3, <2>1, <2>2
<1>4. CASE BeginFiling
  <2> DEFINE c == IF Existing = <<>> THEN [e \in {} |-> {}] ELSE Existing
  <2>1. /\ filing' = [pc |-> "build", lines |-> {}, bad |-> FALSE, held |-> {}, since |-> CodesHad,
                      chosen |-> c]
        /\ UNCHANGED <<batchItems, bankFiles, account, codes>>
    BY <1>4 DEF BeginFiling
  <2>2. Choice(c, Fit) /\ (batchItems # <<>> => c = batchItems)
    BY DEF BankIInv, Filed, Choice, Existing
  <2>3. Choice(c, Fit')
    BY <1>1, <2>2
  <2> HIDE DEF c
  <2>4. Filing'
    BY <2>1, <2>2, <2>3 DEF Filing, PaidInto
  <2>5. Timing'
    <3>1. CodesHad \in [Branches -> Nat \ {0}]
      BY <1>0 DEF Codings, CodesHad
    <3>2. \A k \in DOMAIN bankFiles, b \in Branches : bankFiles[k].till[b] <= CodesHad[b]
      BY <1>a DEF BankIInv, Timed
    <3>3. \A b \in Branches : CodesHad[b] <= Len(codes'[b])
      BY <1>a
    <3> HIDE DEF CodesHad
    <3> QED BY <2>1, <3>1, <3>2, <3>3 DEF Timing, LinesTrue
  <2> QED BY <1>2, <2>1, <2>4, <2>5
<1>5. ASSUME NEW e \in Payees, Choose(e) PROVE Filing' /\ Filed' /\ Timing' /\ Timed'
  <2> DEFINE new == IF Payable(e) = {} THEN {} ELSE {Max(Payable(e))}
             c == [d \in DOMAIN filing.chosen \cup {e} |->
                    IF d # e THEN filing.chosen[d] ELSE new]
  <2>1. /\ filing.pc = "build" /\ e \notin DOMAIN filing.chosen
        /\ filing' = [filing EXCEPT !.chosen = c]
        /\ UNCHANGED <<account, vetted, batchItems, bankFiles, codes>>
    BY <1>5 DEF Choose
  <2>2. /\ filing = [pc |-> "build", lines |-> filing.lines, bad |-> filing.bad, held |-> filing.held,
                     since |-> filing.since, chosen |-> filing.chosen]
        /\ Choice(filing.chosen, Fit) /\ PaidInto(filing) \subseteq LinesOf(filing.chosen)
        /\ filing.lines \subseteq [to : AccountId, code : CodeSet]
        /\ \A l, n \in filing.lines : l.to = n.to => l = n
        /\ batchItems # <<>> => filing.chosen = batchItems
        /\ filing # NotFiling
    BY <2>1 DEF BankIInv, Filing, NotFiling
  <2>3. batchItems = <<>>
    BY <2>1, <2>2 DEF BankIInv, Filed
  <2>4. new \subseteq Starts /\ (\A s \in new : <<e, s>> \in Fit) /\ \A s, t \in new : s = t
    BY <1>0, PayableFit
  <2>5. DOMAIN c = {e} \cup DOMAIN filing.chosen
    OBVIOUS
  <2>6. \A d \in DOMAIN c : c[d] = IF d = e THEN new ELSE filing.chosen[d]
    OBVIOUS
  <2> HIDE DEF c, new
  <2>7. Choice(c, Fit)
    BY <2>2, <2>4, <2>5, <2>6 DEF Choice
  <2>8. LinesOf(filing.chosen) \subseteq LinesOf(c)
    BY <2>1, <2>5, <2>6 DEF LinesOf
  <2>9. filing' = [pc |-> "build", lines |-> filing.lines, bad |-> filing.bad, held |-> filing.held,
                   since |-> filing.since, chosen |-> c]
    BY <2>1, <2>2
  <2>10. Filing'
    BY <1>1, <2>1, <2>2, <2>3, <2>7, <2>8, <2>9 DEF Filing, PaidInto
  <2>11. Timing'
    BY <2>1, <2>2, <2>9, <1>d DEF BankIInv, Timing, NotFiling
  <2> QED BY <1>2, <2>1, <2>10, <2>11
<1>6. ASSUME NEW e \in Payees, WriteLine(e) PROVE Filing' /\ Filed' /\ Timing' /\ Timed'
  <2>1. PICK s \in filing.chosen[e] :
          filing' = [filing EXCEPT !.lines = @ \cup {[to |-> <<e, s>>, code |-> BranchOf(<<e, s>>).code]},
            !.held = {BranchOf(<<e, s>>)},
            !.bad = @ \/ BranchOf(<<e, s>>).code \notin Ifsc \/ ~account[<<e, s>>].sound]
    BY <1>6 DEF WriteLine
  <2> DEFINE b == BranchOf(<<e, s>>)
             new == [to |-> <<e, s>>, code |-> b.code]
             bad == filing.bad \/ b.code \notin Ifsc \/ ~account[<<e, s>>].sound
  <2>2. /\ filing.pc = "build" /\ DOMAIN filing.chosen = Payees
        /\ \A l \in filing.lines : l.to[1] # e
        /\ UNCHANGED <<batchItems, bankFiles, account, codes>>
    BY <1>6 DEF WriteLine
  <2>3. /\ filing = [pc |-> "build", lines |-> filing.lines, bad |-> filing.bad, held |-> filing.held,
                     since |-> filing.since, chosen |-> filing.chosen]
        /\ Choice(filing.chosen, Fit) /\ PaidInto(filing) \subseteq LinesOf(filing.chosen)
        /\ filing.lines \subseteq [to : AccountId, code : CodeSet]
        /\ \A l, n \in filing.lines : l.to = n.to => l = n
        /\ batchItems # <<>> => filing.chosen = batchItems
        /\ filing # NotFiling
    BY <2>2 DEF BankIInv, Filing, NotFiling
  <2>4. s \in Starts /\ <<e, s>> \in AccountId /\ <<e, s>> \in LinesOf(filing.chosen)
        /\ account[<<e, s>>] # NoAccount
    BY <2>2, <2>3 DEF Choice, LinesOf, AccountId, Fit
  <2>5. /\ b.branch = account[<<e, s>>].branch /\ b.branch \in Branches /\ b.code \in CodeSet
        /\ HadCode(codes[b.branch], b.code, filing.since[b.branch], Len(codes[b.branch]))
    BY <2>3, <2>4, BranchTrue
  <2> DEFINE more == filing.lines \cup {new}
             held == {b}
  <2>a. filing' = [filing EXCEPT !.lines = more, !.held = held, !.bad = bad]
    BY <2>1
  <2> HIDE DEF more, held, b, bad
  <2>b. filing' = [pc |-> "build", lines |-> more, bad |-> bad, held |-> held,
                   since |-> filing.since, chosen |-> filing.chosen]
    <3> DEFINE x == [filing EXCEPT !.lines = more]
               y == [x EXCEPT !.held = held]
    <3>1. x = [pc |-> "build", lines |-> more, bad |-> filing.bad, held |-> filing.held,
               since |-> filing.since, chosen |-> filing.chosen]
      BY <2>2, <2>3
    <3>2. filing' = [y EXCEPT !.bad = bad]
      BY <2>a
    <3> HIDE DEF x
    <3>3. y = [pc |-> "build", lines |-> more, bad |-> filing.bad, held |-> held,
               since |-> filing.since, chosen |-> filing.chosen]
      BY <3>1
    <3> HIDE DEF y
    <3> QED BY <3>2, <3>3
  <2>6. filing' = [pc |-> "build", lines |-> filing.lines \cup {new}, bad |-> bad, held |-> {b},
                   since |-> filing.since, chosen |-> filing.chosen]
    BY <2>b DEF more, held
  <2>7. new \in [to : AccountId, code : CodeSet] /\ new.to = <<e, s>> /\ new.code = b.code
        /\ \A l \in filing.lines : l.to # new.to
    BY <2>2, <2>4, <2>5
  <2>8. Filing'
    <3>1. PaidInto(filing') \subseteq LinesOf(filing.chosen)
      BY <2>3, <2>4, <2>6, <2>7 DEF PaidInto
    <3>2. \A l, n \in filing.lines \cup {new} : l.to = n.to => l = n
      BY <2>3, <2>7
    <3>3. filing.lines \cup {new} \subseteq [to : AccountId, code : CodeSet]
      BY <2>3, <2>7
    <3> HIDE DEF new
    <3>4. Choice(filing.chosen, Fit')
      BY <1>1, <2>3
    <3>5. PaidInto(filing)' = PaidInto(filing')
      BY DEF PaidInto
    <3> QED BY <2>2, <2>3, <2>6, <3>1, <3>2, <3>3, <3>4, <3>5 DEF Filing
  <2>9. Timing'
    <3>1. /\ filing'.since = filing.since /\ filing'.lines = filing.lines \cup {new}
          /\ filing'.held = {b}
      BY <2>6
    <3>2. LinesTrue(filing.lines \cup {new}, filing.since, CodesHad', account', codes')
      <4>1. LinesTrue(filing.lines, filing.since, CodesHad', account', codes')
        BY <1>d, <2>3
      <4>2. /\ account'[new.to] # NoAccount /\ account'[new.to].branch = b.branch
            /\ HadCode(codes'[b.branch], new.code, filing.since[b.branch], CodesHad'[b.branch])
        BY <1>a, <2>2, <2>4, <2>5, <2>7
      <4> HIDE DEF new
      <4> QED BY <2>5, <2>4, <2>7, <4>1, <4>2 DEF LinesTrue, new
    <3>3. filing.since \in [Branches -> Nat \ {0}]
          /\ (\A d \in Branches : filing.since[d] <= Len(codes[d]))
          /\ \A k \in DOMAIN bankFiles, d \in Branches : bankFiles[k].till[d] <= filing.since[d]
      BY <2>3 DEF BankIInv, Timing
    <3> HIDE DEF new
    <3> QED BY <2>2, <2>5, <3>1, <3>2, <3>3 DEF Timing
  <2> QED BY <1>2, <2>2, <2>8, <2>9
<1>7. CASE CommitFiling
  <2> DEFINE f == [lines |-> filing.lines, since |-> filing.since, till |-> CodesHad]
  <2>1. /\ filing.pc = "build" /\ Complete /\ filing.lines # {}
        /\ batchItems' = filing.chosen
        /\ bankFiles' = Append(bankFiles, f)
        /\ filing' = NotFiling
        /\ UNCHANGED <<account, codes>>
    BY <1>7 DEF CommitFiling
  <2>2. /\ Choice(filing.chosen, Fit) /\ PaidInto(filing) \subseteq LinesOf(filing.chosen)
        /\ filing.lines \subseteq [to : AccountId, code : CodeSet]
        /\ \A l, n \in filing.lines : l.to = n.to => l = n
        /\ batchItems # <<>> => filing.chosen = batchItems
        /\ filing # NotFiling
    BY <2>1 DEF BankIInv, Filing, NotFiling
  <2>3. PaidInto(filing) = LinesOf(filing.chosen)
    <3> SUFFICES ASSUME NEW l \in LinesOf(filing.chosen) PROVE l \in PaidInto(filing)
      BY <2>2
    <3>1. l[1] \in Payees /\ l[2] \in filing.chosen[l[1]] /\ l = <<l[1], l[2]>>
      BY <2>1 DEF LinesOf, AccountId, Complete
    <3>2. PICK n \in filing.lines : n.to[1] = l[1]
      BY <2>1, <3>1 DEF Complete
    <3>3. n.to \in PaidInto(filing)
      BY DEF PaidInto
    <3>4. n.to[2] \in filing.chosen[l[1]] /\ n.to = <<n.to[1], n.to[2]>>
      BY <2>2, <3>2, <3>3 DEF LinesOf, AccountId
    <3>5. n.to[2] = l[2]
      BY <2>1, <2>2, <3>1, <3>4 DEF Choice, Complete
    <3> QED BY <3>1, <3>2, <3>3, <3>4, <3>5
  <2>4. filing.chosen # <<>>
    <3>1. DOMAIN filing.chosen # {}
      BY <2>1, <2>3 DEF LinesOf, PaidInto
    <3> QED BY <3>1
  <2>5. f \in FileShape /\ bankFiles \in Seq(FileShape)
    <3>1. filing.since \in [Branches -> Nat \ {0}] /\ CodesHad \in [Branches -> Nat \ {0}]
      BY <1>0, <2>2 DEF BankIInv, Timing, Codings, CodesHad
    <3> QED BY <2>2, <3>1 DEF FileShape, BankIInv, Filed
  <2>6. /\ f.lines = filing.lines /\ f.since = filing.since /\ f.till = CodesHad
        /\ PaidInto(f) = PaidInto(filing)
    BY DEF PaidInto
  <2> HIDE DEF f
  <2>7. /\ bankFiles' \in Seq(FileShape) /\ Grown(bankFiles', bankFiles, f)
        /\ Len(bankFiles) \in Nat /\ DOMAIN bankFiles = 1 .. Len(bankFiles)
        /\ DOMAIN bankFiles' = 1 .. Len(bankFiles) + 1
        /\ bankFiles'[Len(bankFiles) + 1] = f
        /\ \A k \in DOMAIN bankFiles : bankFiles'[k] = bankFiles[k]
    <3>1. bankFiles' \in Seq(FileShape) /\ Grown(bankFiles', bankFiles, f)
      BY <2>1, <2>5, AppendEach
    <3>2. Len(bankFiles) \in Nat /\ DOMAIN bankFiles = 1 .. Len(bankFiles)
      BY <2>5
    <3>3. /\ DOMAIN bankFiles' = 1 .. Len(bankFiles) + 1
          /\ bankFiles'[Len(bankFiles) + 1] = f
          /\ \A k \in 1 .. Len(bankFiles) : bankFiles'[k] = bankFiles[k]
      BY <2>1, <2>5, AppendProperties
    <3> QED BY <3>1, <3>2, <3>3
  <2>8. Filed'
    <3>1. \A k \in DOMAIN bankFiles' :
            /\ PaidInto(bankFiles'[k]) = LinesOf(filing.chosen)
            /\ \A l, n \in bankFiles'[k].lines : l.to = n.to => l = n
      <4> SUFFICES ASSUME NEW k \in DOMAIN bankFiles'
                   PROVE  /\ PaidInto(bankFiles'[k]) = LinesOf(filing.chosen)
                          /\ \A l, n \in bankFiles'[k].lines : l.to = n.to => l = n
        OBVIOUS
      <4>1. CASE bankFiles'[k] = f
        BY <2>2, <2>3, <2>6, <4>1
      <4>2. CASE k \in DOMAIN bankFiles /\ bankFiles'[k] = bankFiles[k]
        BY <2>2, <4>2 DEF BankIInv, Filed
      <4> QED BY <2>7, <4>1, <4>2 DEF Grown
    <3>2. Choice(filing.chosen, Fit') /\ DOMAIN filing.chosen = Payees
      BY <1>1, <2>1, <2>2 DEF Complete
    <3> QED BY <2>1, <2>4, <2>7, <3>1, <3>2 DEF Filed, PaidInto
  <2>9. Timed'
    <3>1. /\ filing.since \in [Branches -> Nat \ {0}]
          /\ \A b \in Branches : filing.since[b] <= Len(codes[b])
          /\ \A k \in DOMAIN bankFiles, b \in Branches : bankFiles[k].till[b] <= filing.since[b]
          /\ LinesTrue(filing.lines, filing.since, CodesHad, account, codes)
      BY <2>2 DEF BankIInv, Timing
    <3>2. /\ \A b \in Branches : f.since[b] <= f.till[b] /\ f.till[b] <= Len(codes[b])
          /\ LinesTrue(f.lines, f.since, f.till, account, codes)
      BY <1>a, <2>6, <3>1
    <3>3. \A k \in DOMAIN bankFiles' :
            /\ \A b \in Branches : bankFiles'[k].since[b] <= bankFiles'[k].till[b]
                                   /\ bankFiles'[k].till[b] <= Len(codes[b])
            /\ LinesTrue(bankFiles'[k].lines, bankFiles'[k].since, bankFiles'[k].till, account, codes)
      <4> SUFFICES ASSUME NEW k \in DOMAIN bankFiles'
                   PROVE  /\ \A b \in Branches : bankFiles'[k].since[b] <= bankFiles'[k].till[b]
                                   /\ bankFiles'[k].till[b] <= Len(codes[b])
                          /\ LinesTrue(bankFiles'[k].lines, bankFiles'[k].since, bankFiles'[k].till, account, codes)
        OBVIOUS
      <4>1. CASE bankFiles'[k] = f
        BY <3>2, <4>1
      <4>2. CASE k \in DOMAIN bankFiles /\ bankFiles'[k] = bankFiles[k]
        BY <4>2 DEF BankIInv, Timed
      <4> QED BY <2>7, <4>1, <4>2 DEF Grown
    <3>4. ASSUME NEW j \in DOMAIN bankFiles', NEW k \in DOMAIN bankFiles', j < k, NEW b \in Branches
          PROVE  bankFiles'[j].till[b] <= bankFiles'[k].since[b]
      <4>1. j \in DOMAIN bankFiles /\ bankFiles'[j] = bankFiles[j]
        BY <2>7, <3>4
      <4>2. CASE k = Len(bankFiles) + 1
        BY <2>6, <2>7, <3>1, <4>1, <4>2
      <4>3. CASE k \in DOMAIN bankFiles
        BY <2>7, <3>4, <4>1, <4>3 DEF BankIInv, Timed
      <4> QED BY <2>7, <4>2, <4>3
    <3> QED BY <2>1, <3>3, <3>4 DEF Timed
  <2> QED BY <2>1, <2>8, <2>9 DEF Filing, Timing
<1>8. CASE EndFiling
  <2>1. filing' = NotFiling /\ UNCHANGED <<batchItems, bankFiles>>
    BY <1>8 DEF EndFiling
  <2> QED BY <1>2, <2>1 DEF Filing, Timing
<1>9. ASSUME NEW a \in AccountId, NEW primary \in BOOLEAN, NEW sound \in BOOLEAN,
             NEW b \in Branches, AddAccount(a, primary, sound, b)
      PROVE  UNCHANGED <<filing, batchItems, bankFiles>>
  BY <1>9 DEF AddAccount
<1>10. ASSUME NEW o \in Officers, NEW a \in AccountId, NEW s \in {"verified", "rejected"}, Judge(o, a, s)
       PROVE  UNCHANGED <<filing, batchItems, bankFiles>>
  BY <1>10 DEF Judge
<1>11. ASSUME NEW o \in Officers, CommitVerdict(o) PROVE UNCHANGED <<filing, batchItems, bankFiles>>
  BY <1>11 DEF CommitVerdict
<1>12. ASSUME NEW b \in Branches, NEW code \in CodeSet, Recode(b, code)
       PROVE  UNCHANGED <<filing, batchItems, bankFiles>>
  BY <1>12 DEF Recode
<1> QED BY <1>3, <1>4, <1>5, <1>6, <1>7, <1>8, <1>9, <1>10, <1>11, <1>12 DEF BankNext, CodeSet

LEMMA BankInvariant == BankSpec => []BankIInv
<1>1. BankInit => BankIInv
  <2> SUFFICES ASSUME BankInit PROVE BankIInv
    OBVIOUS
  <2>1. Codings
    <3>1. \A b \in Branches : \E c \in Ifsc : codes[b] = <<c>>
      BY DEF BankInit
    <3>2. \A c \in Ifsc : <<c>> \in Seq(CodeSet) /\ Len(<<c>>) > 0
      BY DEF CodeSet
    <3>3. codes \in [Branches -> Seq(CodeSet)]
      <4>1. {<<c>> : c \in Ifsc} \subseteq Seq(CodeSet)
        BY <3>2
      <4>2. codes \in [Branches -> {<<c>> : c \in Ifsc}]
        BY DEF BankInit
      <4> QED BY <4>1, <4>2
    <3> QED BY <3>1, <3>2, <3>3 DEF Codings
  <2> QED BY <2>1 DEF BankInit, BankIInv, Accounts, Filing, Filed, NoAccount, Timing, Timed
<1>2. BankIInv /\ [BankNext]_bankVars => BankIInv'
  <2>1. BankIInv /\ BankNext => BankIInv'
    BY AccountsStep, CodesStep, FilingStep DEF BankIInv
  <2>2. BankIInv /\ UNCHANGED bankVars => BankIInv'
    BY DEF bankVars, BankIInv, Accounts, Filing, Filed, Fit, Codings, Timing, Timed, CodesHad, PaidInto
  <2> QED BY <2>1, <2>2
<1> QED BY <1>1, <1>2, PTL DEF BankSpec

\* All bank files of a batch pay the same people into the same accounts, each once, and
\* only into accounts of their own that an officer had verified, however accounts are
\* added and judged while the files are written; and under the same code, unless the
\* branch was edited between the beginning of the one and the end of the other.
THEOREM FilesAlwaysAgree == BankSpec => []FilesAgree
<1>1. BankIInv => FilesAgree
  <2> SUFFICES ASSUME BankIInv, NEW j \in DOMAIN bankFiles, NEW k \in DOMAIN bankFiles, j <= k
               PROVE  /\ PaidInto(bankFiles[j]) = PaidInto(bankFiles[k])
                      /\ PaidInto(bankFiles[k]) \subseteq vetted
                      /\ \A l, n \in bankFiles[k].lines : l.to[1] = n.to[1] => l = n
                      /\ \A l \in bankFiles[k].lines : account[l.to].primary /\ l.to[2] <= PeriodEnd
                      /\ \A l \in bankFiles[j].lines, n \in bankFiles[k].lines :
                           account[n.to].branch = account[l.to].branch
                           /\ bankFiles[j].since[account[l.to].branch]
                                = bankFiles[k].till[account[l.to].branch]
                           => l.code = n.code
    BY DEF FilesAgree
  <2> DEFINE f == bankFiles[j]
             g == bankFiles[k]
  <2>1. batchItems # <<>>
    BY DEF BankIInv, Filed
  <2>2. /\ PaidInto(f) = LinesOf(batchItems) /\ PaidInto(g) = LinesOf(batchItems)
        /\ Choice(batchItems, Fit) /\ \A l, n \in g.lines : l.to = n.to => l = n
    BY <2>1 DEF BankIInv, Filed
  <2>3. \A l \in LinesOf(batchItems) :
          l = <<l[1], l[2]>> /\ l[1] \in DOMAIN batchItems /\ l[2] \in batchItems[l[1]]
    BY DEF LinesOf, AccountId
  <2>4. \A l \in LinesOf(batchItems) : l \in Fit
    BY <2>2, <2>3 DEF Choice
  <2>5. \A l, n \in LinesOf(batchItems) : l[1] = n[1] => l = n
    BY <2>2, <2>3 DEF Choice
  <2>6. \A l \in g.lines : l.to \in LinesOf(batchItems)
    BY <2>2 DEF PaidInto
  <2>7. ASSUME NEW l \in f.lines, NEW n \in g.lines, account[n.to].branch = account[l.to].branch,
               f.since[account[l.to].branch] = g.till[account[l.to].branch]
        PROVE  l.code = n.code
    <3> DEFINE b == account[l.to].branch
    <3>1. /\ b \in Branches
          /\ HadCode(codes[b], l.code, f.since[b], f.till[b])
          /\ HadCode(codes[b], n.code, g.since[b], g.till[b])
      BY <2>7 DEF BankIInv, Timed, LinesTrue
    <3> HIDE DEF b
    <3>2. /\ f.since[b] \in Nat /\ f.till[b] \in Nat /\ g.since[b] \in Nat /\ g.till[b] \in Nat
          /\ f.since[b] <= f.till[b] /\ g.since[b] <= g.till[b]
      <4>1. f \in FileShape /\ g \in FileShape
        BY DEF BankIInv, Filed
      <4>2. /\ f.since[b] \in Nat /\ f.till[b] \in Nat /\ g.since[b] \in Nat /\ g.till[b] \in Nat
        BY <3>1, <4>1 DEF FileShape
      <4> QED BY <3>1, <4>2 DEF BankIInv, Timed
    <3>3. f.since[b] = g.till[b]
      BY <2>7 DEF b
    <3>4. f.till[b] = f.since[b] /\ g.since[b] = f.since[b]
      <4>1. CASE j = k
        BY <3>2, <3>3, <4>1
      <4>2. CASE j < k
        <5>1. f.till[b] <= g.since[b]
          BY <3>1, <4>2 DEF BankIInv, Timed
        <5> QED BY <3>2, <3>3, <5>1
      <4>3. j \in Nat /\ k \in Nat
        BY DEF BankIInv, Filed
      <4> QED BY <4>1, <4>2, <4>3
    <3> HIDE DEF f, g
    <3>5. PICK i \in f.since[b] .. f.till[b] : codes[b][i] = l.code
      BY <3>1 DEF HadCode
    <3>6. PICK m \in g.since[b] .. g.till[b] : codes[b][m] = n.code
      BY <3>1 DEF HadCode
    <3> QED BY <3>2, <3>3, <3>4, <3>5, <3>6
  <2> QED BY <2>2, <2>4, <2>5, <2>6, <2>7 DEF Fit
<1> QED BY <1>1, BankInvariant, PTL
-----------------------------------------------------------------------------
(* The outbox of events *)

\* What a task holds was claimed by it alone, once, and not marked yet.
Claimed ==
  \A w \in Dispatchers : \A i \in DOMAIN batch[w] :
    batch[w][i] \in DOMAIN events /\ events[batch[w][i]].status = "processing"
ClaimedOnce ==
  \A v, w \in Dispatchers : \A i \in DOMAIN batch[v], j \in DOMAIN batch[w] :
    batch[v][i] = batch[w][j] => v = w /\ i = j


\* Of a task's batch only the head may have been handed over, and has been when given
\* says so.
HeldCount ==
  \A w \in Dispatchers :
    /\ w \in given => batch[w] # <<>>
    /\ \A i \in DOMAIN batch[w] :
         events[batch[w][i]].handed = (IF w \in given /\ i = 1 THEN 1 ELSE 0)

\* HandedOnce but for what it says of the events that are processing.
Counts ==
  \A i \in DOMAIN events :
    /\ events[i].handed <= 1
    /\ events[i].status = "pending" => events[i].handed = 0
    /\ events[i].status = "processed" => events[i].handed = 1

OutboxIInv ==
  /\ events \in Seq(Event) /\ batch \in [Dispatchers -> Seq(Nat)]
  /\ given \subseteq Dispatchers
  /\ Claimed /\ ClaimedOnce /\ HeldCount /\ Counts

LEMMA HandedEvent ==
  ASSUME NEW e \in Event, NEW n \in Nat
  PROVE  /\ [e EXCEPT !.handed = n] \in Event
         /\ [e EXCEPT !.status = "processed"] \in Event
BY DEF Event

LEMMA OutboxStep == OutboxIInv /\ [OutboxNext]_outboxVars => OutboxIInv'
<1> SUFFICES ASSUME OutboxIInv, [OutboxNext]_outboxVars PROVE OutboxIInv'
  OBVIOUS
<1>0. /\ events \in [1 .. Len(events) -> Event] /\ Len(events) \in Nat
      /\ DOMAIN events = 1 .. Len(events)
  BY LenProperties DEF OutboxIInv
<1>1. ASSUME NEW k \in Keys, Publish(k) PROVE OutboxIInv'
  <2>1. UNCHANGED <<batch, given>>
    BY <1>1 DEF Publish
  <2>2. CASE UNCHANGED events
    BY <2>1, <2>2 DEF OutboxIInv, Claimed, ClaimedOnce, HeldCount, Counts
  <2>3. CASE events' = Append(events, [key |-> k, status |-> "pending", handed |-> 0])
    <3>1. [key |-> k, status |-> "pending", handed |-> 0] \in Event
      BY DEF Event
    <3>2. /\ events' \in Seq(Event)
          /\ Len(events') = Len(events) + 1 /\ DOMAIN events' = 1 .. Len(events) + 1
          /\ events'[Len(events) + 1] = [key |-> k, status |-> "pending", handed |-> 0]
          /\ \A i \in DOMAIN events : i \in DOMAIN events' /\ events'[i] = events[i]
      BY <2>3, <3>1 DEF OutboxIInv, Claimed, ClaimedOnce
    <3>3. Counts'
      <4> SUFFICES ASSUME NEW i \in DOMAIN events'
                   PROVE  /\ events'[i].handed <= 1
                          /\ events'[i].status = "pending" => events'[i].handed = 0
                          /\ events'[i].status = "processed" => events'[i].handed = 1
        BY DEF Counts
      <4>1. CASE i = Len(events) + 1
        BY <3>2, <4>1
      <4>2. CASE i \in DOMAIN events
        BY <3>2, <4>2 DEF Counts, OutboxIInv
      <4> QED BY <1>0, <3>2, <4>1, <4>2
    <3>4. Claimed' /\ ClaimedOnce' /\ HeldCount'
      BY <2>1, <3>2 DEF OutboxIInv, Claimed, ClaimedOnce, HeldCount
    <3> QED BY <2>1, <3>2, <3>3, <3>4 DEF OutboxIInv
  <2> QED BY <1>1, <2>2, <2>3 DEF Publish
<1>2. ASSUME NEW w \in Dispatchers, Claim(w) PROVE OutboxIInv'
  <2> DEFINE oldest == {i \in Claimable : Cardinality({j \in Claimable : j < i}) < Limit}
  <2>1. PICK claimed \in [1 .. Cardinality(oldest) -> oldest] :
          /\ \A i, j \in DOMAIN claimed : i < j => claimed[i] < claimed[j]
          /\ batch' = [batch EXCEPT ![w] = claimed]
    BY <1>2 DEF Claim
  <2>2. events' = [i \in DOMAIN events |->
          IF i \in oldest THEN [events[i] EXCEPT !.status = "processing"] ELSE events[i]]
    BY <1>2 DEF Claim
  <2>3. oldest \in SUBSET (1 .. Len(events)) /\ \A i \in oldest : events[i].status = "pending"
    BY DEF Claimable, OutboxIInv, Claimed, ClaimedOnce
  <2>4. Cardinality(oldest) \in Nat
    <3>2. IsFiniteSet(1 .. Len(events))
      BY <1>0, FS_Interval
    <3>3. IsFiniteSet(oldest)
      BY <2>3, <3>2, FS_Subset
    <3> QED BY <3>3, FS_CardinalityType
  <2> HIDE DEF oldest
  <2>5. /\ claimed \in Seq(Nat) /\ DOMAIN claimed = 1 .. Cardinality(oldest)
        /\ \A i \in DOMAIN claimed : claimed[i] \in oldest
        /\ \A i, j \in DOMAIN claimed : claimed[i] = claimed[j] => i = j
    <3>1. claimed \in [1 .. Cardinality(oldest) -> Nat]
      <4>1. oldest \subseteq Nat
        BY <1>0, <2>3
      <4> QED BY <4>1
    <3>2. \A i \in DOMAIN claimed : i \in Nat /\ claimed[i] \in Nat
      BY <2>4, <3>1
    <3>3. \A i, j \in DOMAIN claimed : claimed[i] = claimed[j] => i = j
      BY <2>1, <3>2
    <3> QED BY <2>4, <3>1, <3>3
  <2>6. /\ batch' \in [Dispatchers -> Seq(Nat)] /\ batch'[w] = claimed
        /\ \A v \in Dispatchers \ {w} : batch'[v] = batch[v]
    BY <2>1, <2>5 DEF OutboxIInv, Claimed, ClaimedOnce
  <2>7. /\ events' \in Seq(Event) /\ DOMAIN events' = DOMAIN events
        /\ \A i \in DOMAIN events :
             /\ events'[i].handed = events[i].handed
             /\ i \in oldest => events[i].status = "pending" /\ events'[i].status = "processing"
             /\ i \notin oldest => events'[i].status = events[i].status
    <3>2. \A i \in DOMAIN events : [events[i] EXCEPT !.status = "processing"] \in Event
      BY <1>0 DEF Event
    <3>3. events' \in [1 .. Len(events) -> Event]
      BY <2>2, <1>0, <3>2
    <3>4. events' \in Seq(Event) /\ DOMAIN events' = DOMAIN events
      BY <1>0, <3>3
    <3> QED BY <2>2, <2>3, <1>0, <3>4 DEF Event
  <2>a. ASSUME NEW v \in Dispatchers \ {w}, NEW i \in DOMAIN batch[v]
        PROVE  /\ batch[v][i] \in DOMAIN events /\ batch[v][i] \notin oldest
               /\ events[batch[v][i]].status = "processing"
    BY <2>3 DEF OutboxIInv, Claimed
  <2>8. Claimed'
    <3> SUFFICES ASSUME NEW v \in Dispatchers, NEW i \in DOMAIN batch'[v]
                 PROVE  /\ batch'[v][i] \in DOMAIN events'
                        /\ events'[batch'[v][i]].status = "processing"
      BY DEF Claimed
    <3>1. CASE v = w
      <4>1. batch'[v][i] \in oldest
        BY <2>5, <2>6, <3>1
      <4> QED BY <1>0, <2>3, <2>7, <4>1
    <3>2. CASE v # w
      <4>1. batch'[v] = batch[v] /\ i \in DOMAIN batch[v]
        BY <2>6, <3>2
      <4> QED BY <2>7, <2>a, <3>2, <4>1
    <3> QED BY <3>1, <3>2
  <2>9. ClaimedOnce'
    <3> SUFFICES ASSUME NEW v \in Dispatchers, NEW u \in Dispatchers,
                        NEW i \in DOMAIN batch'[v], NEW j \in DOMAIN batch'[u],
                        batch'[v][i] = batch'[u][j]
                 PROVE  v = u /\ i = j
      BY DEF ClaimedOnce
    <3>1. CASE v = w /\ u = w
      BY <2>5, <2>6, <3>1
    <3>2. CASE v # w /\ u # w
      BY <2>6, <3>2 DEF OutboxIInv, ClaimedOnce
    <3>3. CASE v = w /\ u # w
      <4>1. batch'[v][i] \in oldest
        BY <2>5, <2>6, <3>3
      <4>2. batch'[u] = batch[u] /\ j \in DOMAIN batch[u]
        BY <2>6, <3>3
      <4> QED BY <2>a, <3>3, <4>1, <4>2
    <3>4. CASE v # w /\ u = w
      <4>1. batch'[u][j] \in oldest
        BY <2>5, <2>6, <3>4
      <4>2. batch'[v] = batch[v] /\ i \in DOMAIN batch[v]
        BY <2>6, <3>4
      <4> QED BY <2>a, <3>4, <4>1, <4>2
    <3> QED BY <3>1, <3>2, <3>3, <3>4
  <2>10. Counts'
    <3> SUFFICES ASSUME NEW i \in DOMAIN events
                 PROVE  /\ events'[i].handed <= 1
                        /\ events'[i].status = "pending" => events'[i].handed = 0
                        /\ events'[i].status = "processed" => events'[i].handed = 1
      BY <2>7 DEF Counts
    <3>1. CASE i \in oldest
      BY <2>7, <3>1 DEF OutboxIInv, Counts
    <3>2. CASE i \notin oldest
      BY <2>7, <3>2 DEF OutboxIInv, Counts
    <3> QED BY <3>1, <3>2
  <2>11. given' = given /\ w \notin given
    BY <1>2 DEF Claim, OutboxIInv, HeldCount
  <2>12. HeldCount'
    <3> SUFFICES ASSUME NEW v \in Dispatchers
                 PROVE  /\ v \in given => batch'[v] # <<>>
                        /\ \A i \in DOMAIN batch'[v] :
                             events'[batch'[v][i]].handed = (IF v \in given /\ i = 1 THEN 1 ELSE 0)
      BY <2>11 DEF HeldCount
    <3>1. CASE v = w
      <4>1. \A i \in DOMAIN claimed : events'[claimed[i]].handed = 0
        <5> SUFFICES ASSUME NEW i \in DOMAIN claimed PROVE events'[claimed[i]].handed = 0
          OBVIOUS
        <5>1. claimed[i] \in oldest /\ claimed[i] \in DOMAIN events
          BY <1>0, <2>3, <2>5
        <5> QED BY <2>7, <5>1 DEF OutboxIInv, Counts
      <4> QED BY <2>6, <2>11, <3>1, <4>1
    <3>2. CASE v # w
      <4>1. batch'[v] = batch[v]
        BY <2>6, <3>2
      <4>2. \A i \in DOMAIN batch[v] : events'[batch[v][i]].handed = events[batch[v][i]].handed
        BY <2>7, <2>a, <3>2
      <4> QED BY <4>1, <4>2 DEF OutboxIInv, HeldCount
    <3> QED BY <3>1, <3>2
  <2> QED BY <2>6, <2>7, <2>8, <2>9, <2>10, <2>11, <2>12 DEF OutboxIInv
<1>3. ASSUME NEW w \in Dispatchers, HandOver(w) PROVE OutboxIInv'
  <2> DEFINE e == Head(batch[w])
  <2>1. /\ batch[w] \in Seq(Nat) /\ batch[w] # <<>> /\ w \notin given
        /\ events' = [events EXCEPT ![e].handed = @ + 1]
        /\ batch' = batch /\ given' = given \cup {w}
    BY <1>3 DEF HandOver, OutboxIInv
  <2>2. e = batch[w][1] /\ 1 \in DOMAIN batch[w]
    BY <2>1
  <2>3. e \in DOMAIN events /\ events[e].status = "processing" /\ events[e].handed = 0
    BY <2>1, <2>2 DEF OutboxIInv, Claimed, HeldCount
  <2> HIDE DEF e
  <2>4. /\ events' \in Seq(Event) /\ DOMAIN events' = DOMAIN events
        /\ events'[e].status = "processing" /\ events'[e].handed = 1
        /\ \A i \in DOMAIN events \ {e} : events'[i] = events[i]
    <3> DEFINE done == [events[e] EXCEPT !.handed = 1]
    <3>1. events' = [events EXCEPT ![e] = done]
      BY <2>1, <2>3
    <3>2. events[e] \in Event
      BY <1>0, <2>3
    <3>3. done.status = "processing" /\ done.handed = 1
      BY <2>3, <3>2 DEF Event
    <3>4. done \in Event
      BY <3>2, HandedEvent
    <3> HIDE DEF done
    <3> QED BY <1>0, <2>3, <3>1, <3>3, <3>4
  <2>5. Claimed' /\ ClaimedOnce'
    BY <2>1, <2>4 DEF OutboxIInv, Claimed, ClaimedOnce
  <2>6. HeldCount'
    <3> SUFFICES ASSUME NEW v \in Dispatchers
                 PROVE  /\ v \in given' => batch[v] # <<>>
                        /\ \A i \in DOMAIN batch[v] :
                             events'[batch[v][i]].handed = (IF v \in given' /\ i = 1 THEN 1 ELSE 0)
      BY <2>1 DEF HeldCount
    <3>1. v \in given' => batch[v] # <<>>
      BY <2>1 DEF OutboxIInv, HeldCount
    <3>2. ASSUME NEW i \in DOMAIN batch[v]
          PROVE  events'[batch[v][i]].handed = (IF v \in given' /\ i = 1 THEN 1 ELSE 0)
      <4>1. CASE v = w /\ i = 1
        BY <2>1, <2>2, <2>4, <4>1
      <4>2. CASE ~(v = w /\ i = 1)
        <5>1. batch[v][i] # e
          BY <2>2, <4>2 DEF OutboxIInv, ClaimedOnce
        <5>2. events'[batch[v][i]] = events[batch[v][i]]
          BY <2>4, <5>1 DEF OutboxIInv, Claimed
        <5>3. (v \in given' /\ i = 1) <=> (v \in given /\ i = 1)
          BY <2>1, <4>2
        <5> QED BY <5>2, <5>3 DEF OutboxIInv, HeldCount
      <4> QED BY <4>1, <4>2
    <3> QED BY <3>1, <3>2
  <2>7. Counts'
    BY <2>4 DEF OutboxIInv, Counts
  <2> QED BY <2>1, <2>4, <2>5, <2>6, <2>7 DEF OutboxIInv
<1>4. ASSUME NEW w \in Dispatchers, Mark(w) PROVE OutboxIInv'
  <2> DEFINE e == Head(batch[w])
  <2>1. /\ batch[w] \in Seq(Nat) /\ batch[w] # <<>> /\ w \in given
        /\ events' = [events EXCEPT ![e].status = "processed"]
        /\ batch' = [batch EXCEPT ![w] = Tail(batch[w])] /\ given' = given \ {w}
    BY <1>4 DEF Mark, OutboxIInv, HeldCount
  <2>2. /\ e = batch[w][1] /\ 1 \in DOMAIN batch[w]
        /\ Tail(batch[w]) \in Seq(Nat)
        /\ \A i \in DOMAIN Tail(batch[w]) :
             i + 1 \in DOMAIN batch[w] /\ i + 1 # 1 /\ Tail(batch[w])[i] = batch[w][i + 1] /\ i \in Nat
    BY <2>1
  <2>3. e \in DOMAIN events /\ events[e].status = "processing" /\ events[e].handed = 1
    BY <2>1, <2>2 DEF OutboxIInv, Claimed, HeldCount
  <2> HIDE DEF e
  <2>4. /\ events' \in Seq(Event) /\ DOMAIN events' = DOMAIN events
        /\ events'[e].status = "processed" /\ events'[e].handed = 1
        /\ \A i \in DOMAIN events \ {e} : events'[i] = events[i]
    <3> DEFINE done == [events[e] EXCEPT !.status = "processed"]
    <3>1. events' = [events EXCEPT ![e] = done]
      BY <2>1
    <3>2. events[e] \in Event
      BY <1>0, <2>3
    <3>3. done.status = "processed" /\ done.handed = 1
      BY <2>3, <3>2 DEF Event
    <3>4. done \in Event
      BY <3>2, HandedEvent
    <3> HIDE DEF done
    <3> QED BY <1>0, <2>3, <3>1, <3>3, <3>4
  <2>5. /\ batch' \in [Dispatchers -> Seq(Nat)] /\ batch'[w] = Tail(batch[w])
        /\ \A v \in Dispatchers \ {w} : batch'[v] = batch[v]
    BY <2>1, <2>2 DEF OutboxIInv
  <2>6. ASSUME NEW v \in Dispatchers, NEW i \in DOMAIN batch'[v]
        PROVE  \E k \in DOMAIN batch[v] :
                 /\ batch'[v][i] = batch[v][k] /\ k = (IF v = w THEN i + 1 ELSE i)
                 /\ i \in Nat /\ batch[v][k] # e
                 /\ events'[batch[v][k]] = events[batch[v][k]]
                 /\ v = w => k # 1
    <3>1. CASE v = w
      <4>1. batch'[v][i] = batch[w][i + 1] /\ i + 1 \in DOMAIN batch[w] /\ i + 1 # 1 /\ i \in Nat
        BY <2>2, <2>5, <3>1
      <4>2. batch[w][i + 1] # e
        BY <2>2, <4>1 DEF OutboxIInv, ClaimedOnce
      <4>3. events'[batch[w][i + 1]] = events[batch[w][i + 1]]
        BY <2>4, <4>1, <4>2 DEF OutboxIInv, Claimed
      <4> QED BY <3>1, <4>1, <4>2, <4>3
    <3>2. CASE v # w
      <4>1. batch'[v][i] = batch[v][i] /\ i \in DOMAIN batch[v] /\ i \in Nat
        BY <2>5, <3>2 DEF OutboxIInv
      <4>2. batch[v][i] # e
        BY <2>2, <3>2, <4>1 DEF OutboxIInv, ClaimedOnce
      <4>3. events'[batch[v][i]] = events[batch[v][i]]
        BY <2>4, <4>1, <4>2 DEF OutboxIInv, Claimed
      <4> QED BY <3>2, <4>1, <4>2, <4>3
    <3> QED BY <3>1, <3>2
  <2>7. Claimed'
    BY <2>4, <2>6 DEF OutboxIInv, Claimed
  <2>8. ASSUME NEW v \in Dispatchers, NEW u \in Dispatchers,
               NEW i \in DOMAIN batch'[v], NEW j \in DOMAIN batch'[u], batch'[v][i] = batch'[u][j]
        PROVE  v = u /\ i = j
    <3>1. PICK k \in DOMAIN batch[v] :
            batch'[v][i] = batch[v][k] /\ k = (IF v = w THEN i + 1 ELSE i) /\ i \in Nat
      BY <2>6
    <3>2. PICK l \in DOMAIN batch[u] :
            batch'[u][j] = batch[u][l] /\ l = (IF u = w THEN j + 1 ELSE j) /\ j \in Nat
      BY <2>6
    <3>3. v = u /\ k = l
      <4>1. batch[v][k] = batch[u][l]
        BY <2>8, <3>1, <3>2
      <4> QED BY <4>1 DEF OutboxIInv, ClaimedOnce
    <3> QED BY <3>1, <3>2, <3>3
  <2>9. HeldCount'
    <3> SUFFICES ASSUME NEW v \in Dispatchers
                 PROVE  /\ v \in given' => batch'[v] # <<>>
                        /\ \A i \in DOMAIN batch'[v] :
                             events'[batch'[v][i]].handed = (IF v \in given' /\ i = 1 THEN 1 ELSE 0)
      BY DEF HeldCount
    <3>1. v \in given' => batch'[v] # <<>>
      BY <2>1, <2>5 DEF OutboxIInv, HeldCount
    <3>2. ASSUME NEW i \in DOMAIN batch'[v]
          PROVE  events'[batch'[v][i]].handed = (IF v \in given' /\ i = 1 THEN 1 ELSE 0)
      <4>1. PICK k \in DOMAIN batch[v] :
              /\ batch'[v][i] = batch[v][k] /\ k = (IF v = w THEN i + 1 ELSE i)
              /\ events'[batch[v][k]] = events[batch[v][k]]
              /\ v = w => k # 1
        BY <2>6
      <4>2. events[batch[v][k]].handed = (IF v \in given /\ k = 1 THEN 1 ELSE 0)
        BY <4>1 DEF OutboxIInv, HeldCount
      <4>3. (v \in given' /\ i = 1) <=> (v \in given /\ k = 1)
        BY <2>1, <4>1
      <4> QED BY <4>1, <4>2, <4>3
    <3> QED BY <3>1, <3>2
  <2>10. Counts'
    BY <2>4 DEF OutboxIInv, Counts
  <2> QED BY <2>1, <2>4, <2>5, <2>7, <2>8, <2>9, <2>10 DEF OutboxIInv, ClaimedOnce
<1>5. ASSUME NEW w \in Dispatchers, Abandon(w) PROVE OutboxIInv'
  <2>1. events' = events /\ batch' = [batch EXCEPT ![w] = <<>>] /\ given' = given \ {w}
    BY <1>5 DEF Abandon
  <2>2. /\ batch' \in [Dispatchers -> Seq(Nat)] /\ DOMAIN batch'[w] = {}
        /\ \A v \in Dispatchers \ {w} : batch'[v] = batch[v]
    BY <2>1 DEF OutboxIInv
  <2>3. HeldCount'
    BY <2>1, <2>2 DEF OutboxIInv, HeldCount
  <2> QED BY <2>1, <2>2, <2>3 DEF OutboxIInv, Claimed, ClaimedOnce, Counts
<1>6. CASE UNCHANGED outboxVars
  BY <1>6 DEF outboxVars, OutboxIInv, Claimed, ClaimedOnce, HeldCount, Counts
<1> QED BY <1>1, <1>2, <1>3, <1>4, <1>5, <1>6 DEF OutboxNext

\* With any number of dispatchers, whichever of them stop wherever, an event is handed
\* over at most once, and what was handed over and is neither marked nor being marked
\* was left by a dispatcher that stopped.
THEOREM HandedAlwaysOnce == OutboxSpec => []HandedOnce
<1>1. OutboxInit => OutboxIInv
  BY DEF OutboxInit, OutboxIInv, Claimed, ClaimedOnce, HeldCount, Counts
<1>2. OutboxIInv => HandedOnce
  <2> SUFFICES ASSUME OutboxIInv, NEW i \in DOMAIN events,
                      events[i].status = "processing" /\ events[i].handed = 1, ~Abandoned(i)
               PROVE  \E w \in given : Head(batch[w]) = i
    BY DEF OutboxIInv, Counts, HandedOnce
  <2>1. PICK w \in Dispatchers : \E n \in DOMAIN batch[w] : batch[w][n] = i
    BY DEF Abandoned, Range
  <2>2. PICK n \in DOMAIN batch[w] : batch[w][n] = i
    BY <2>1
  <2>3. w \in given /\ n = 1
    BY <2>2 DEF OutboxIInv, HeldCount
  <2>4. batch[w] \in Seq(Nat)
    BY DEF OutboxIInv
  <2>5. Head(batch[w]) = i
    BY <2>2, <2>3, <2>4
  <2> QED BY <2>3, <2>5
<1> QED BY <1>1, <1>2, OutboxStep, PTL DEF OutboxSpec
-----------------------------------------------------------------------------
(* Requests with an idempotency key: an answer that is stored is never replaced, and  *)
(* is the answer of an execution that committed; the inductive invariant says so of   *)
(* the store, of requests that are about to store, and of every answer replayed.      *)

StoredAnswer == [body : Bodies, answer : Nat \ {0}]
Execution == [key : CallKeys, body : Bodies, answer : Nat \ {0}]

\* The types the proof needs.
CallShape ==
  /\ stored \in [CallKeys -> StoredAnswer \cup {NotStored}]
  /\ call \in [Callers -> {NoCall} \cup [pc : {"execute"}, key : CallKeys, body : Bodies]
                            \cup [pc : {"store"}, of : Execution]]
  /\ executed \subseteq Execution /\ IsFiniteSet(executed)

\* What is stored, and what is about to be, was executed.
StoredWasExecuted ==
  /\ \A k \in CallKeys : stored[k] # NotStored =>
       Answer(k, stored[k].body, stored[k].answer) \in executed
  /\ \A c \in Callers : call[c].pc = "store" => call[c].of \in executed

\* What was replayed is stored.
ReplayedIsStored ==
  \A a \in replayed :
    /\ a \in executed /\ a.key \in CallKeys
    /\ stored[a.key] = [body |-> a.body, answer |-> a.answer]

CallsIInv == CallShape /\ StoredWasExecuted /\ ReplayedIsStored
------------------------------------------------------------------------------
LEMMA AnswerIsNotNone ==
  ASSUME NEW a \in StoredAnswer
  PROVE  a # NotStored
BY DEF StoredAnswer, NotStored

LEMMA AnswerIsExecution ==
  ASSUME NEW k \in CallKeys, NEW b \in Bodies, NEW n \in Nat \ {0}
  PROVE  Answer(k, b, n) \in Execution
BY DEF Answer, Execution

LEMMA CallsStart == CallsInit => CallsIInv
<1> SUFFICES ASSUME CallsInit PROVE CallsIInv
  OBVIOUS
<1>1. CallShape
  BY FS_EmptySet DEF CallsInit, CallShape
<1>2. StoredWasExecuted
  BY DEF CallsInit, StoredWasExecuted, NoCall
<1>3. ReplayedIsStored
  BY DEF CallsInit, ReplayedIsStored
<1> QED BY <1>1, <1>2, <1>3 DEF CallsIInv

LEMMA AskingKeeps ==
  ASSUME CallsIInv, NEW c \in Callers, NEW k \in CallKeys, NEW b \in Bodies, Ask(c, k, b)
  PROVE  CallsIInv'
<1> USE DEF CallsIInv
<1>0. UNCHANGED <<stored, executed>>
  BY DEF Ask
<1>1. CASE Replayable(k, b)
  <2>1. /\ UNCHANGED call
        /\ replayed' = replayed \cup {Answer(k, b, stored[k].answer)}
    BY <1>1 DEF Ask
  <2>2. /\ stored[k] \in StoredAnswer /\ stored[k] # NotStored /\ stored[k].body = b
    BY <1>1 DEF Replayable, CallShape
  <2>3. Answer(k, b, stored[k].answer) \in executed
    BY <2>2 DEF StoredWasExecuted
  <2>4. stored[k] = [body |-> b, answer |-> stored[k].answer]
    BY <2>2 DEF StoredAnswer
  <2>5. ReplayedIsStored'
    <3> DEFINE a == Answer(k, b, stored[k].answer)
    <3>1. a \in executed /\ a.key = k /\ a.body = b /\ a.answer = stored[k].answer
      BY <2>2, <2>3 DEF Answer
    <3>2. stored[a.key] = [body |-> a.body, answer |-> a.answer]
      BY <2>4, <3>1
    <3> HIDE DEF a
    <3>3. replayed' = replayed \cup {a}
      BY <2>1 DEF a
    <3> QED BY <1>0, <3>1, <3>2, <3>3 DEF ReplayedIsStored
  <2> QED BY <1>0, <2>1, <2>5 DEF CallShape, StoredWasExecuted
<1>2. CASE ~Replayable(k, b)
  <2>1. /\ UNCHANGED replayed
        /\ call' = [call EXCEPT ![c] = [pc |-> "execute", key |-> k, body |-> b]]
    BY <1>2 DEF Ask
  <2>2. CallShape'
    BY <1>0, <2>1 DEF CallShape
  <2>3. StoredWasExecuted'
    BY <1>0, <2>1 DEF StoredWasExecuted, CallShape
  <2>4. ReplayedIsStored'
    BY <1>0, <2>1 DEF ReplayedIsStored
  <2> QED BY <2>2, <2>3, <2>4
<1> QED BY <1>1, <1>2

LEMMA ExecutingKeeps ==
  ASSUME CallsIInv, NEW c \in Callers, Execute(c)
  PROVE  CallsIInv'
<1> USE DEF CallsIInv
<1> DEFINE n == Cardinality(executed) + 1
           a == Answer(call[c].key, call[c].body, n)
<1>1. n \in Nat \ {0}
  BY FS_CardinalityType DEF CallShape
<1>2. call[c].key \in CallKeys /\ call[c].body \in Bodies
  BY DEF Execute, CallShape, NoCall
<1>3. a \in Execution
  BY <1>1, <1>2, AnswerIsExecution
<1> HIDE DEF n
<1>4. /\ executed' = executed \cup {a}
      /\ call' = [call EXCEPT ![c] = [pc |-> "store", of |-> a]]
      /\ UNCHANGED <<stored, replayed>>
  BY DEF Execute, n
<1> HIDE DEF a
<1>5. IsFiniteSet(executed')
  BY <1>4, FS_AddElement DEF CallShape
<1>6. CallShape'
  BY <1>3, <1>4, <1>5 DEF CallShape
<1>7. StoredWasExecuted'
  BY <1>4 DEF StoredWasExecuted, CallShape
<1>8. ReplayedIsStored'
  BY <1>4 DEF ReplayedIsStored
<1> QED BY <1>6, <1>7, <1>8

LEMMA StoringKeeps ==
  ASSUME CallsIInv, NEW c \in Callers, Store(c)
  PROVE  CallsIInv'
<1> USE DEF CallsIInv
<1> DEFINE a == call[c].of
           mine == [body |-> a.body, answer |-> a.answer]
<1>1. a \in Execution /\ a \in executed
  BY DEF Store, CallShape, NoCall, StoredWasExecuted
<1>2. /\ stored' = [stored EXCEPT ![a.key] = Kept(a.key, mine)]
      /\ call' = [call EXCEPT ![c] = NoCall]
      /\ UNCHANGED <<executed, replayed>>
  BY DEF Store
<1>3. a.key \in CallKeys /\ mine \in StoredAnswer /\ Answer(a.key, mine.body, mine.answer) = a
  BY <1>1 DEF Execution, StoredAnswer, Answer
<1>4. \A k \in CallKeys : stored'[k] = stored[k] \/ (stored[k] = NotStored /\ k = a.key /\ stored'[k] = mine)
  BY <1>2, <1>3 DEF Kept, CallShape
<1>5. stored' \in [CallKeys -> StoredAnswer \cup {NotStored}]
  BY <1>2, <1>3 DEF Kept, CallShape
<1> HIDE DEF a, mine
<1>6. CallShape'
  BY <1>2, <1>5 DEF CallShape
<1>7. StoredWasExecuted'
  <2>1. ASSUME NEW k \in CallKeys, stored'[k] # NotStored
        PROVE  Answer(k, stored'[k].body, stored'[k].answer) \in executed
    BY <1>1, <1>3, <1>4, <2>1 DEF StoredWasExecuted
  <2>2. ASSUME NEW d \in Callers, call'[d].pc = "store"
        PROVE  call'[d].of \in executed
    BY <1>2, <2>2 DEF StoredWasExecuted, CallShape, NoCall
  <2> QED BY <1>2, <2>1, <2>2 DEF StoredWasExecuted
<1>8. ReplayedIsStored'
  <2>1. ASSUME NEW r \in replayed
        PROVE  stored'[r.key] = [body |-> r.body, answer |-> r.answer]
    <3>1. r \in Execution /\ r.key \in CallKeys
          /\ stored[r.key] = [body |-> r.body, answer |-> r.answer]
      BY DEF ReplayedIsStored, CallShape
    <3>2. [body |-> r.body, answer |-> r.answer] \in StoredAnswer
      BY <3>1 DEF Execution, StoredAnswer
    <3> QED BY <1>4, <3>1, <3>2, AnswerIsNotNone
  <2> QED BY <1>2, <2>1 DEF ReplayedIsStored
<1> QED BY <1>6, <1>7, <1>8

LEMMA EndingCallKeeps ==
  ASSUME CallsIInv, NEW c \in Callers, ExecuteFails(c) \/ LoseCall(c)
  PROVE  CallsIInv'
<1> USE DEF CallsIInv
<1>1. /\ call' = [call EXCEPT ![c] = NoCall]
      /\ UNCHANGED <<stored, executed, replayed>>
  BY DEF ExecuteFails, LoseCall
<1>2. CallShape'
  BY <1>1 DEF CallShape
<1>3. StoredWasExecuted'
  BY <1>1 DEF StoredWasExecuted, CallShape, NoCall
<1>4. ReplayedIsStored'
  BY <1>1 DEF ReplayedIsStored
<1> QED BY <1>2, <1>3, <1>4

LEMMA CallsStep == CallsIInv /\ [CallsNext]_callVars => CallsIInv'
<1> SUFFICES ASSUME CallsIInv, [CallsNext]_callVars PROVE CallsIInv'
  OBVIOUS
<1>1. ASSUME NEW c \in Callers, NEW k \in CallKeys, NEW b \in Bodies, Ask(c, k, b)
      PROVE  CallsIInv'
  BY <1>1, AskingKeeps
<1>2. ASSUME NEW c \in Callers, Execute(c) PROVE CallsIInv'
  BY <1>2, ExecutingKeeps
<1>3. ASSUME NEW c \in Callers, Store(c) PROVE CallsIInv'
  BY <1>3, StoringKeeps
<1>4. ASSUME NEW c \in Callers, ExecuteFails(c) \/ LoseCall(c) PROVE CallsIInv'
  BY <1>4, EndingCallKeeps
<1>5. CASE UNCHANGED callVars
  BY <1>5 DEF callVars, CallsIInv, CallShape, StoredWasExecuted, ReplayedIsStored
<1> QED BY <1>1, <1>2, <1>3, <1>4, <1>5 DEF CallsNext

\* However many requests with one key execute at once, end early or ask again, every
\* answer that is replayed is one an execution of the same body gave, and stays stored.
THEOREM ReplayAlwaysTruthful == CallsSpec => []ReplayTruthful
<1>1. CallsIInv => ReplayTruthful
  BY DEF CallsIInv, ReplayedIsStored, ReplayTruthful
<1> QED BY <1>1, CallsStart, CallsStep, PTL DEF CallsSpec
=============================================================================
