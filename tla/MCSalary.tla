------------------------------ MODULE MCSalary ------------------------------
(* The salary configuration, the engine that is run on its bundles and the bank  *)
(* accounts the pay goes to, on small instances.  They share nothing that may    *)
(* change meanwhile: a behaviour is about one of them, as focus says.            *)
EXTENDS SalaryConfig, PayEngine, BankAccounts, TLC

CONSTANTS p1, p2
VARIABLE focus

Symmetry == Permutations(Publishers)

\* Two template components A and B, a derived variable V, and two groups: G holds C
\* and D, H holds C and A, which the template has already.
Parts == {"A", "B", "C", "D"}
MCNames == Parts \cup {"V", "CTC"}
MCSorted == <<<<"comp", "A">>, <<"comp", "B">>, <<"dv", "B">>, <<"dv", "C">>, <<"dv", "V">>,
              <<"grp", "G">>, <<"grp", "H">>, <<"sys", "ESI">>, <<"sys", "PF">>>>

Def(how, names, exact) == [how |-> how, of |-> names, exact |-> exact]
Fixed == Def("fixed", {}, TRUE)
Each(hows, names) == {Def(h, {n}, TRUE) : h \in hows, n \in names}

DefsOfA ==
  {Fixed, Def("formula", {"B", "V"}, TRUE), Def("formula", {"B"}, FALSE)}
  \cup Each({"percentage"}, {"CTC", "B", "V"}) \cup Each({"formula"}, {"B", "V"})
  \cup Each({"days"}, {"CTC", "B"})
DefsOfB ==
  {Fixed, Def("formula", {"A"}, FALSE)}
  \cup Each({"percentage"}, {"CTC", "A", "C"}) \cup Each({"formula"}, {"V"})
  \cup Each({"days"}, {"A"})
DefsOfV == Each({"formula"}, {"A", "B", "CTC"}) \cup Each({"days"}, {"CTC"})

\* Which components are prorated in auto mode, the flag of the template, whether V
\* is a provident fund wage; or another category for B.
Plain == [open |-> Parts, cat |-> "earning", wage |-> {}, flag |-> "on"]
Variants ==
  {[open |-> o, cat |-> "earning", wage |-> w, flag |-> f] :
     o \in {Parts, {"B", "C"}}, w \in {{}, {"V"}}, f \in {"on", "off"}}
  \cup {[Plain EXCEPT !.cat = c] :
     c \in {"deduction", "employer_contribution", "statutory", "benefit"}}

Own == [c \in Parts |-> c]
BundleOf(a, b, v, x, s) ==
  [template |-> <<"B", "A">>, vars |-> {"V"}, code |-> Own, name |-> Own,
   items |-> [g \in {"G", "H"} |-> IF g = "G" THEN <<"C", "D">> ELSE <<"C", "A">>],
   statutory |-> [g \in {} |-> "disabled"],
   def |-> [c \in Parts |->
      CASE c = "A" -> a [] c = "B" -> b
        [] c = "C" -> Def("percentage", {"A"}, TRUE) [] c = "D" -> Def("empty", {}, TRUE)],
   expr |-> [y \in {"B", "C", "V"} |-> v],
   signal |-> [c \in Parts |-> (c = "A" /\ a.how = "days") \/ (c = "B" /\ b.how = "days")],
   cat |-> [c \in Parts |-> IF c = "B" THEN x.cat ELSE "earning"],
   open |-> [c \in Parts |-> c \in x.open],
   wage |-> x.wage, flag |-> x.flag, short |-> s]

UsualSetups ==
  {BundleOf(a, b, v, x, s) :
     a \in DefsOfA, b \in DefsOfB, v \in DefsOfV, x \in Variants, s \in BOOLEAN}

\* Names with two uses: a code or a display name that is another component's, the
\* variable's or CTC; C, in the groups only, of fixed amount, B of a type without a line.
OddSetups ==
  {[BundleOf(a, b, v, Plain, s) EXCEPT !.vars = {y}, !.def["C"] = Fixed, !.code = k, !.name = n] :
     a \in Each({"formula"}, {"B", "CTC"}), b \in {Fixed, Def("system", {}, TRUE)},
     v \in Each({"formula"}, {"A", "CTC"}), y \in {"B", "C", "V"}, s \in BOOLEAN,
     k \in {Own, [Own EXCEPT !["B"] = "A"], [Own EXCEPT !["B"] = NoCode]},
     n \in {Own, [Own EXCEPT !["C"] = "B"], [Own EXCEPT !["B"] = "CTC"]}}

\* Bundles that end in an error or an exception, or nearly: codes and amounts that are
\* missing, definitions that are refused, a formula left over, statutory groups.
Faults(s) ==
  {[s EXCEPT !.items["G"] = <<"D">>], [s EXCEPT !.code["C"] = NoCode],
   [s EXCEPT !.def["B"] = Def("other", {}, TRUE)], [s EXCEPT !.def["C"] = Def("broken", {}, TRUE)],
   [s EXCEPT !.items["G"] = <<"B", "C", "D">>, !.def["B"] = Def("system", {}, TRUE)],
   [s EXCEPT !.signal["A"] = TRUE],
   [s EXCEPT !.wage = {"V"}, !.statutory = [g \in {"PF"} |-> "enabled"]],
   [s EXCEPT !.wage = {"V"}, !.statutory = [g \in {"PF"} |-> "disabled"]],
   [s EXCEPT !.statutory = [g \in {"ESI"} |-> "unregistered"]]}
FaultySetups ==
  UNION {Faults(BundleOf(Fixed, Fixed, v, Plain, s)) : v \in DefsOfV, s \in BOOLEAN}

MCSetups == UsualSetups \cup (OddSetups \cup FaultySetups)

Parked == CHOOSE s \in FaultySetups : TRUE

\* Which code the branch has first does not matter.
MCInit ==
  /\ ConfigInit /\ BankInit /\ codes["u"] = <<"i1">>
  /\ \/ focus \in {"config", "bank"} /\ setup = Parked
     \/ focus = "engine"
  /\ PayInit

MCNext ==
  \/ focus = "config" /\ ConfigNext /\ UNCHANGED <<engineVars, bankVars, focus>>
  \/ focus = "engine" /\ PayNext /\ UNCHANGED <<configVars, bankVars, focus>>
  \/ focus = "bank" /\ BankNext /\ UNCHANGED <<configVars, engineVars, focus>>

MCSpec == MCInit /\ [][MCNext]_<<configVars, engineVars, bankVars, focus>>
------------------------------------------------------------------------------
\* The types of the three.
SalaryTypeOK == ConfigTypeOK /\ PayTypeOK /\ BankTypeOK
=============================================================================
