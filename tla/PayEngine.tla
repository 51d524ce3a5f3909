----------------------------- MODULE PayEngine -----------------------------
(***************************************************************************)
(* Salary Engine v2 (services/salary_engine_v2.py) on one employee: the    *)
(* bundle of a day (template components, derived variables, groups) becomes*)
(* a graph, the graph an order, and the order pay lines, prorated by       *)
(* attendance on the way (services/payroll_attendance_proration.py).       *)
(*                                                                         *)
(* Nothing in the code keeps names apart: a component and a variable may   *)
(* have one code, two components too, and the display name of a component  *)
(* is a name of the context like its code.                                 *)
(*                                                                         *)
(* What is abstracted: a percentage is always 50 %, the attendance factor  *)
(* of a short month 1/2, and a formula adds the names it reads; amounts are*)
(* whole and divisible, so rounding to two places does nothing.  A value   *)
(* carries, beside its amount, how often the factor went into it.  The     *)
(* employee has no amounts of his own for a code, and no name is that of an*)
(* attendance scalar.                                                      *)
(***************************************************************************)
EXTENDS Naturals, Sequences, FiniteSets, SequencesExt, FiniteSetsExt

CONSTANTS
  Names,   \* what ctx may have a value for: codes, display names and "CTC"
  Setups,  \* the bundles the engine is run on
  Sorted   \* nodes in the order of sorted(nodes): comp: before dv: before grp: before sys:

NoCode == ""
Kinds == {"comp", "dv", "grp", "sys"}

\* How a definition reads: of the names `of`, as a percentage, a formula, or a formula
\* that reads an attendance scalar too.
Reading == {"percentage", "formula", "days"}

ASSUME SortedIsList == Sorted \in Seq(Kinds \X STRING)
ASSUME EngineAssumption ==
  /\ NoCode \notin Names
  /\ \A s \in Setups :
       LET comps == Range(s.template) \cup UNION {Range(s.items[g]) : g \in DOMAIN s.items} IN
       /\ s.short \in BOOLEAN /\ s.vars \subseteq Names
       /\ s.template \in Seq(comps) /\ \A g \in DOMAIN s.items : s.items[g] \in Seq(comps)
       /\ {<<"comp", s.code[c]>> : c \in {d \in Range(s.template) : s.code[d] # NoCode}}
            \cup {<<"dv", v>> : v \in s.vars} \cup {<<"grp", g>> : g \in DOMAIN s.items}
            \cup {<<"sys", g>> : g \in DOMAIN s.statutory} \subseteq Range(Sorted)
       /\ \A c \in comps :
            /\ s.code[c] \in Names \cup {NoCode} /\ s.name[c] \in Names
            /\ s.def[c].how \in Reading \cup {"fixed", "empty", "broken", "system", "other"}
            /\ IsFiniteSet(s.def[c].of) /\ s.def[c].of \subseteq Names
            /\ s.def[c].how = "days" => s.signal[c]
       /\ \A v \in s.vars :
            /\ s.expr[v].how \in {"formula", "days", "broken"}
            /\ IsFiniteSet(s.expr[v].of) /\ s.expr[v].of \subseteq Names

VARIABLES
  setup,   \* the bundle of this run
  stage,   \* sort, eval, done; cycle when the graph has one, raised on an exception
  path,    \* nodes being visited, outermost first (temp of _toposort)
  order,   \* nodes visited (perm, out)
  step,    \* how many nodes of order have been evaluated
  queue,   \* items of the group being evaluated that are left
  last,    \* the local variable `amount` of the group loop
  env,     \* ctx: what every name evaluates to so far
  lines,   \* pay lines, in the order they were added
  errors   \* has the result an error?  A payroll refuses such a result.

engineVars == <<setup, stage, path, order, step, queue, last, env, lines, errors>>
------------------------------------------------------------------------------
(* The bundle *)

SortedSet == Range(Sorted)
Template == Range(setup.template)     \* components linked to the template
Items == UNION {Range(setup.items[g]) : g \in DOMAIN setup.items}
Comps == Template \cup Items
Code(c) == setup.code[c]
TemplateCodes == {Code(c) : c \in Template} \ {NoCode}

\* comp_by_code, comp_link_by_code: of the components of one code the last counts.
Linked(k) == setup.template[Max({i \in DOMAIN setup.template : Code(setup.template[i]) = k})]

Nodes ==
  {<<"comp", k>> : k \in TemplateCodes} \cup {<<"dv", v>> : v \in setup.vars}
    \cup {<<"grp", g>> : g \in DOMAIN setup.items} \cup {<<"sys", g>> : g \in DOMAIN setup.statutory}

CTC == 1024
Unset == [amt |-> 0, cuts |-> 0, set |-> FALSE]
Value(a, c) == [amt |-> a, cuts |-> c, set |-> TRUE]
Zero == Value(0, 0)

\* What ctx holds before anything is computed.
Given == [x \in Names \cup {"CTC"} |-> IF x = "CTC" THEN Value(CTC, 0) ELSE Unset]

\* How a component, with its link, or a variable gets its amount.  exact says whether
\* the names are written as the codes are: any other spelling is found in ctx but not
\* in the graph.  "empty" is a formula without text, "broken" one that is refused;
\* a system component or one of an unsupported type gets no line of its own.
Definition(c) == setup.def[c]
DefinitionOf(n) == IF n[1] = "dv" THEN setup.expr[n[2]] ELSE Definition(Linked(n[2]))

\* The names validate_formula and percentage_of depend on; CTC is reserved in formulas.
Dependencies(d) ==
  IF d.how \notin Reading \/ ~d.exact THEN {}
  ELSE IF d.how = "percentage" THEN d.of ELSE d.of \ {"CTC"}

\* Mutant: what a component refers to through a variable is not ordered.
Edges_NoVariables(n) ==
  CASE n[1] = "grp" -> {<<"comp", Code(c)>> : c \in Range(setup.items[n[2]])}
    [] n[1] = "sys" -> {<<"dv", w>> : w \in {x \in setup.wage : setup.statutory[n[2]] # "unregistered"}}
    [] OTHER -> {<<n[1], x>> : x \in Dependencies(DefinitionOf(n))}

\* Nodes a node is evaluated after, if they are in the graph.
Edges(n) ==
  CASE n[1] = "grp" -> {<<"comp", Code(c)>> : c \in Range(setup.items[n[2]])}
    [] n[1] = "sys" -> {<<"dv", w>> : w \in {x \in setup.wage : setup.statutory[n[2]] # "unregistered"}}
    [] OTHER -> {"dv", "comp"} \X Dependencies(DefinitionOf(n))

\* Errors that are found while the graph is built.
Unfit ==
  \/ \E c \in Template : Code(c) = NoCode \/ Definition(c).how \in {"broken", "other"}
  \/ \E v \in setup.vars : setup.expr[v].how = "broken"

PayInit ==
  /\ setup \in Setups
  /\ stage = "sort" /\ path = <<>> /\ order = <<>>
  /\ step = 0 /\ queue = <<>> /\ last = Unset
  /\ env = Given
  /\ lines = <<>> /\ errors = Unfit
------------------------------------------------------------------------------
(* _toposort: depth first, roots in sorted order, the dependencies of a node in *)
(* the order of a Python set, which differs from process to process.            *)

Left == Nodes \ (Range(order) \cup Range(path))
NextRoot == Sorted[Min({i \in DOMAIN Sorted : Sorted[i] \in Left})]

\* What still has to be visited before the node.
Waiting(n) == (Edges(n) \cap Nodes) \ Range(order)

VisitRoot ==
  /\ stage = "sort" /\ path = <<>> /\ Left # {}
  /\ path' = <<NextRoot>>
  /\ UNCHANGED <<setup, stage, order, step, queue, last, env, lines, errors>>

VisitDependency(m) ==
  /\ stage = "sort" /\ path # <<>>
  /\ m \in Waiting(Last(path)) \ Range(path)
  /\ path' = Append(path, m)
  /\ UNCHANGED <<setup, stage, order, step, queue, last, env, lines, errors>>

\* CircularDependencyError: the result has the error and no line.
FindCycle ==
  /\ stage = "sort" /\ path # <<>>
  /\ Waiting(Last(path)) \cap Range(path) # {}
  /\ stage' = "cycle" /\ errors' = TRUE
  /\ UNCHANGED <<setup, path, order, step, queue, last, env, lines>>

FinishVisit ==
  /\ stage = "sort" /\ path # <<>>
  /\ Waiting(Last(path)) = {}
  /\ order' = Append(order, Last(path))
  /\ path' = Front(path)
  /\ UNCHANGED <<setup, stage, step, queue, last, env, lines, errors>>

Sorting ==
  /\ stage = "sort" /\ path = <<>> /\ Left = {}
  /\ stage' = "eval"
  /\ UNCHANGED <<setup, path, order, step, queue, last, env, lines, errors>>
------------------------------------------------------------------------------
(* Proration *)

\* Mutant: a template that opts out is not prorated in a short month either.
Prorating_OptOut == setup.flag = "on"

\* effective_template_proration_enabled: the flag of the template or the
\* organisation, or a factor below one, which an opt-out does not stop.
Prorating == setup.flag = "on" \/ setup.short

Cut(v) == IF setup.short THEN Value(v.amt \div 2, v.cuts + 1) ELSE v
Half(v) == Value(v.amt \div 2, v.cuts)

\* should_apply_auto_wage_proration: earnings in auto mode that are proratable, unless
\* a formula of the component or its link names an attendance scalar (signal), be it
\* the one that is evaluated or one left over from another calculation type.
CutBy(c) ==
  /\ Prorating
  /\ setup.cat[c] = "earning" /\ setup.open[c]
  /\ ~setup.signal[c]

Emitted(c, v) == IF CutBy(c) THEN Cut(v) ELSE v
------------------------------------------------------------------------------
(* Evaluation *)

\* What the names add up to; one that has no value yet counts as zero.
Lookup(e, ns) ==
  LET known == {x \in ns : e[x].set} IN
  Value(SumFunction([x \in known |-> e[x].amt]), Max({0} \cup {e[x].cuts : x \in known}))

\* What a definition gives on the names e; a broken formula an error and zero.
Amount(d, e) ==
  CASE d.how = "fixed" -> Value(CTC, 0)
    [] d.how = "percentage" -> Half(Lookup(e, d.of))
    [] d.how = "formula" -> Lookup(e, d.of)
    [] d.how = "days" -> Cut(Lookup(e, d.of))
    [] OTHER -> Zero

\* A derived variable; one of pf_wage_proration_dv_codes gets the factor as well.
VariableAmount(v, e) ==
  IF v \in setup.wage THEN Cut(Amount(setup.expr[v], e)) ELSE Amount(setup.expr[v], e)

Current == order[step + 1]
Subject == Current[2]
Evaluating(kind) == stage = "eval" /\ queue = <<>> /\ step < Len(order) /\ Current[1] = kind

\* A line of the component, whose value goes to ctx under its code and its name.
AddLine(c, v) ==
  /\ lines' = Append(lines, [comp |-> c, code |-> Code(c), val |-> v])
  /\ env' = [x \in DOMAIN env |-> IF x \in {Code(c), setup.name[c]} THEN v ELSE env[x]]

EvalVariable ==
  /\ Evaluating("dv")
  /\ env' = [env EXCEPT ![Subject] = VariableAmount(Subject, env)]
  /\ step' = step + 1
  /\ UNCHANGED <<setup, stage, path, order, queue, last, lines, errors>>

EvalComponent ==
  /\ Evaluating("comp")
  /\ LET c == Linked(Subject) IN
     IF Definition(c).how \in {"system", "other"} THEN UNCHANGED <<env, lines>>
     ELSE AddLine(c, Emitted(c, Amount(Definition(c), env)))
  /\ step' = step + 1
  /\ UNCHANGED <<setup, stage, path, order, queue, last, errors>>

EvalGroup ==
  /\ Evaluating("grp")
  /\ queue' = setup.items[Subject]
  /\ step' = step + 1
  /\ UNCHANGED <<setup, stage, path, order, last, env, lines, errors>>

\* Only PF has a statutory engine, and its module is missing: what is enabled raises,
\* and the other groups leave an error.
EvalStatutory ==
  /\ Evaluating("sys")
  /\ stage' = IF setup.statutory[Subject] = "enabled" THEN "raised" ELSE stage
  /\ errors' = (errors \/ setup.statutory[Subject] = "unregistered")
  /\ step' = step + 1
  /\ UNCHANGED <<setup, path, order, queue, last, env, lines>>

\* Is there a line of the code, from the template or an earlier group?
AlreadyPaid(k) == \E i \in DOMAIN lines : lines[i].code = k

\* What the group loop finds for a component: a fixed amount is what ctx has for its
\* code, if it has; a definition that is not read leaves `amount` as the item before,
\* of this group or an earlier one, left it.
ItemAmount(c) ==
  LET d == Definition(c) IN
  CASE d.how = "fixed" /\ env[Code(c)].set -> env[Code(c)]
    [] d.how \in {"empty", "system", "other"} /\ last.set -> last
    [] OTHER -> Amount(d, env)

\* One item of the group.  A formula that is refused, and nothing left in `amount`, is
\* an error and a zero line.
EvalItem ==
  LET c == Head(queue)
      how == Definition(c).how IN
  /\ stage = "eval" /\ queue # <<>>
  /\ queue' = Tail(queue)
  /\ IF Code(c) = NoCode \/ AlreadyPaid(Code(c)) THEN UNCHANGED <<last, env, lines, errors>>
     ELSE /\ AddLine(c, Emitted(c, ItemAmount(c)))
          /\ last' = IF how \in {"empty", "system", "other", "broken"} THEN last ELSE ItemAmount(c)
          /\ errors' = (errors \/ how = "broken"
                           \/ (how \in {"empty", "system", "other"} /\ ~last.set))
  /\ UNCHANGED <<setup, stage, path, order, step>>

EvalEnd ==
  /\ stage = "eval" /\ queue = <<>> /\ step = Len(order)
  /\ stage' = "done"
  /\ UNCHANGED <<setup, path, order, step, queue, last, env, lines, errors>>

PayNext ==
  \/ VisitRoot \/ (\E m \in SortedSet : VisitDependency(m)) \/ FindCycle \/ FinishVisit
  \/ Sorting
  \/ EvalVariable \/ EvalComponent \/ EvalGroup \/ EvalStatutory \/ EvalItem \/ EvalEnd

PaySpec == PayInit /\ [][PayNext]_engineVars
------------------------------------------------------------------------------
(* Totals *)

Paid(cats) ==
  SumFunction([i \in DOMAIN lines |->
                 IF setup.cat[lines[i].comp] \in cats THEN lines[i].val.amt ELSE 0])

\* Mutant: what the employer pays on top counts as the employee's earnings.
EngineEarnings_Employer == Paid({"earning", "benefit", "employer_contribution"})

\* A category the engine does not know is an earning.
EngineEarnings == Paid({"earning", "benefit"})
EngineTakes == Paid({"deduction", "statutory"})

\* apply_category_amount_to_totals: the same lines in the summary, the payslip, the
\* register and the bank file; there an unknown category is a deduction.
BucketEarnings == Paid({"earning"})
BucketTakes == Paid({"deduction", "statutory", "benefit"})

\* The legacy calculator (calculate_salary), for components whose name is their
\* code: they are taken in template order under lower-case names, a name that comes
\* later reads as zero, so does a formula with a name in upper case or an attendance
\* scalar; no variables, no proration.
LegacyAmount(c, e) ==
  LET d == Definition(c) IN
  CASE d.how = "fixed" -> Value(CTC, 0)
    [] d.how = "percentage" -> Half(Lookup(e, d.of))
    [] d.how = "formula" -> IF d.exact THEN Zero ELSE Lookup(e, d.of)
    [] OTHER -> Zero

Legacy ==
  LET after[n \in 0 .. Len(setup.template)] ==
        IF n = 0 THEN Given
        ELSE LET c == setup.template[n] IN
             [after[n - 1] EXCEPT ![setup.name[c]] = LegacyAmount(c, after[n - 1])]
  IN after[Len(setup.template)]
------------------------------------------------------------------------------
(* Properties *)

ValueOK(v) == v.amt \in Nat /\ v.cuts \in Nat /\ v.set \in BOOLEAN

\* Type correctness.
PayTypeOK ==
  /\ stage \in {"sort", "eval", "done", "cycle", "raised"} /\ errors \in BOOLEAN
  /\ path \in Seq(Nodes) /\ order \in Seq(Nodes)
  /\ IsInjective(path) /\ IsInjective(order) /\ Range(path) \cap Range(order) = {}
  /\ step \in 0 .. Len(order)
  /\ queue \in Seq(Items) /\ ValueOK(last)
  /\ \A x \in DOMAIN env : ValueOK(env[x])
  /\ \A i \in DOMAIN lines : /\ lines[i].comp \in Comps /\ lines[i].code = Code(lines[i].comp)
                             /\ ValueOK(lines[i].val)

\* What a node is written in terms of and the graph holds as a node: of a name that a
\* component and a variable share, both.
Uses(n) ==
  {m \in Nodes :
     \/ n[1] = "grp" /\ m[1] = "comp" /\ \E c \in Range(setup.items[n[2]]) : m[2] = Code(c)
     \/ n[1] = "sys" /\ setup.statutory[n[2]] # "unregistered" /\ m[1] = "dv" /\ m[2] \in setup.wage
     \/ /\ n[1] \in {"comp", "dv"} /\ m[1] \in {"comp", "dv"}
        /\ m[2] \in Dependencies(DefinitionOf(n))}

Cyclic == \E S \in SUBSET Nodes : S # {} /\ \A n \in S : Uses(n) \cap S # {}

\* Whatever order sets iterate in, the sort refuses exactly the bundles whose
\* definitions go round in a circle, and puts every node of the others after the
\* nodes it is written in terms of.
SortRight ==
  /\ stage = "cycle" => Cyclic
  /\ stage \in {"eval", "raised", "done"} =>
       /\ ~Cyclic
       /\ Range(order) = Nodes
       /\ \A i \in DOMAIN order : Uses(order[i]) \subseteq {order[j] : j \in 1 .. i - 1}

\* A result a payroll takes.
Accepted == stage = "done" /\ ~errors

\* Codes the template pays by itself.
Emitting == {k \in TemplateCodes : Definition(Linked(k)).how \notin {"system", "other"}}

\* Does some part of the bundle write the name, and does nothing write it but nodes
\* that come before those that read it?  (A component that only a group holds, and a
\* display name that is not the code, are written without the graph knowing.)
Called(x) == x \in setup.vars \/ \E c \in Comps : x \in {Code(c), setup.name[c]}
Tracked(x) ==
  \A c \in Comps : x \in {Code(c), setup.name[c]} => x = Code(c) /\ x \in Emitting

\* A definition that reads tracked names, written as the codes are, and a CTC nobody
\* else is called.
Ordered(d) ==
  d.how \in Reading =>
    \A x \in d.of : IF x = "CTC" THEN ~Called(x) ELSE d.exact /\ Tracked(x)

\* The amounts of a payroll are what the definitions give on the final amounts, in
\* whatever order they were computed: each line of the template, and each name that
\* the graph knows.  A code that a component and a variable share is final as one of
\* the two, the one computed later, which the order of sets decides.
FinalAmounts ==
  Accepted =>
    /\ \A i \in DOMAIN lines :
         LET k == lines[i].code
             d == Definition(Linked(k)) IN
         k \in Emitting /\ Ordered(d) =>
           lines[i].comp = Linked(k) /\ lines[i].val = Emitted(Linked(k), Amount(d, env))
    /\ \A x \in Emitting \cup setup.vars :
         Tracked(x) /\ (x \in setup.vars => Ordered(setup.expr[x])) =>
           \/ x \in setup.vars /\ env[x] = VariableAmount(x, env)
           \/ \E i \in DOMAIN lines : lines[i].code = x /\ lines[i].val = env[x]

\* A code that the template and several groups hold is paid once, and none is left out
\* but those of system components outside the groups.
PaidOnce ==
  /\ \A i, j \in DOMAIN lines : lines[i].code = lines[j].code => i = j
  /\ Accepted => {lines[i].code : i \in DOMAIN lines} =
       Emitting \cup ({Code(c) : c \in Items} \ {NoCode})

\* The pay is what the definitions say: each node computed once, after those it is
\* written in terms of, each amount as defined, and every code of the template and the
\* groups on one line of the payslip.
PaidAsDefined == SortRight /\ FinalAmounts /\ PaidOnce

\* Is the code of the component, or what it reads, no name of anything else?
Alone(c) ==
  /\ Code(c) \notin setup.vars
  /\ \A d \in Comps : d # c => Code(c) \notin {Code(d), setup.name[d]}

\* A short month reaches every earning that is open to it, whatever the template's flag
\* says: by the factor, or by the attendance scalar its formula reads (one that is only
\* left over in the component stops the factor).  An earning made of CTC and fixed
\* amounts it reaches just once.
ShortMonthReachesPay ==
  Accepted /\ setup.short =>
    \A i \in DOMAIN lines :
      LET c == lines[i].comp
          how == Definition(c).how IN
      setup.cat[c] = "earning" =>
        /\ (how = "days" \/ (setup.open[c] /\ ~setup.signal[c])) /\ lines[i].val.amt > 0 =>
             lines[i].val.cuts >= 1
        /\ \/ how = "fixed" /\ Alone(c)
           \/ how \in Reading /\ Definition(c).of \subseteq {"CTC"} /\ ~Called("CTC")
           => lines[i].val.cuts <= 1

\* Engine, payslip, register and bank file agree on the net pay, as long as every
\* category is one of the four they all know.
NetAgrees ==
  Accepted /\ (\A i \in DOMAIN lines : setup.cat[lines[i].comp] # "benefit") =>
    EngineEarnings + BucketTakes = BucketEarnings + EngineTakes

\* In a full month the legacy calculator pays the fixed amounts and percentages of a
\* template what the engine does, when the template lists each component after the
\* ones it is a percentage of and no name of it has another use.
LegacyAgrees ==
  Accepted /\ ~setup.short /\ ~Called("CTC") =>
    ((\A i \in DOMAIN setup.template :
        LET c == setup.template[i]
            d == Definition(c) IN
        /\ setup.name[c] = Code(c) /\ Alone(c)
        /\ \/ d.how = "fixed"
           \/ /\ d.how = "percentage" /\ d.exact
              /\ d.of \subseteq {"CTC"} \cup {Code(setup.template[j]) : j \in 1 .. i - 1})
     => \A i \in DOMAIN lines :
          lines[i].comp \in Template => Legacy[lines[i].code].amt = lines[i].val.amt)

\* Engine, buckets and legacy calculator agree on what an employee gets.
CalculatorsAgree == NetAgrees /\ LegacyAgrees
=============================================================================
