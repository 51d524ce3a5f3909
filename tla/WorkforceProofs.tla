-------------------------- MODULE WorkforceProofs --------------------------
(* Proofs about attendance, leave, rosters and payable days, for every number *)
(* of requests, days, rules and planners.                                     *)
EXTENDS MCWorkforce, FiniteSetTheorems, SequenceTheorems, NaturalsInduction, TLAPS
-----------------------------------------------------------------------------
(* Days of attendance *)

\* A set of numbers has a least element ...
LEMMA MinExists ==
  ASSUME NEW S \in SUBSET Nat, S # {}
  PROVE  \E x \in S : \A y \in S : x <= y
<1>1. PICK x \in S : \A y \in S : ~(<<y, x>> \in OpToRel(<, Nat))
  BY NatLessThanWellFounded, WFMin
<1>2. \A y \in S : ~(y < x)
  BY <1>1 DEF OpToRel
<1> QED BY <1>2

\* ... so that a set that has 0, and with a number the next, has them all.
LEMMA AllNumbers ==
  ASSUME NEW K, 0 \in K, \A n \in Nat : n \in K => n + 1 \in K
  PROVE  Nat \subseteq K
<1> SUFFICES ASSUME Nat \ K # {} PROVE FALSE
  OBVIOUS
<1>1. PICK x \in Nat \ K : \A y \in Nat \ K : x <= y
  BY MinExists
<1>2. x # 0 /\ x - 1 \in Nat
  BY <1>1
<1>3. x - 1 \in K
  BY <1>1, <1>2
<1> QED BY <1>1, <1>2, <1>3

LEMMA MinTime == Min(Times) \in Nat
<1>1. PICK x \in Times : \A y \in Times : x <= y
  BY MinExists, WorkDayAssumption
<1> QED BY <1>1, WorkDayAssumption DEF Min

RuleList == Seq([type : STRING, n : Int])

\* What every list of rules makes of a day, half way or at its end.
OutcomeOK(o) ==
  /\ DOMAIN o = {"grace", "status", "frac", "late", "early", "over"}
  /\ o.status \in {"P", "HD", "A"} /\ o.frac \in {0, Half, Full}
  /\ o.status = "HD" <=> o.frac = Half
  /\ o.frac = 0 => o.status = "A"

LEMMA RuleKeeps ==
  ASSUME NEW o, OutcomeOK(o), NEW rule, NEW ps
  PROVE  OutcomeOK(Rule(o, rule, ps))
<1>1. ASSUME NEW u, OutcomeOK(u) PROVE OutcomeOK(HalfDay(u))
  BY <1>1 DEF OutcomeOK, HalfDay, Half
<1>2. ASSUME NEW v
      PROVE  /\ OutcomeOK([o EXCEPT !.grace = v]) /\ OutcomeOK([o EXCEPT !.late = v])
             /\ OutcomeOK([o EXCEPT !.early = v]) /\ OutcomeOK([o EXCEPT !.over = v])
  BY DEF OutcomeOK
<1>3. OutcomeOK([o EXCEPT !.status = "A", !.frac = 0])
  BY DEF OutcomeOK, Half
<1> DEFINE r == Rule(o, rule, ps)
<1>4. \/ \E v : \/ r = [o EXCEPT !.grace = v] \/ r = [o EXCEPT !.late = v]
                \/ r = [o EXCEPT !.early = v] \/ r = [o EXCEPT !.over = v]
                \/ r = HalfDay([o EXCEPT !.late = v])
      \/ r = HalfDay(o) \/ r = [o EXCEPT !.status = "A", !.frac = 0] \/ r = o
  BY DEF Rule
<1> SUFFICES OutcomeOK(r)
  OBVIOUS
<1> HIDE DEF r
<1>5. ASSUME NEW v, \/ r = [o EXCEPT !.grace = v] \/ r = [o EXCEPT !.late = v]
                    \/ r = [o EXCEPT !.early = v] \/ r = [o EXCEPT !.over = v]
      PROVE  OutcomeOK(r)
  BY <1>2, <1>5
<1>6. ASSUME NEW v, r = HalfDay([o EXCEPT !.late = v]) PROVE OutcomeOK(r)
  BY <1>1, <1>2, <1>6
<1>7. CASE r = HalfDay(o)
  BY <1>1, <1>7
<1>8. CASE r = [o EXCEPT !.status = "A", !.frac = 0] \/ r = o
  BY <1>3, <1>8
<1> QED BY <1>4, <1>5, <1>6, <1>7, <1>8, Zenon

\* The rules are applied one after the other: the function Outcome goes by exists, and
\* all its values are sound.
Applied(f, k, ps) ==
  f = [n \in 0 .. k |-> IF n = 0 THEN Blank ELSE Rule(f[n - 1], policy[n], ps)]

LEMMA AppliedExists == ASSUME NEW ps, NEW m \in Nat PROVE \E f : Applied(f, m, ps)
<1> DEFINE K == {k \in Nat : \E f : Applied(f, k, ps)}
<1>1. 0 \in K
  <2> DEFINE f == [n \in 0 .. 0 |-> Blank]
  <2>1. Applied(f, 0, ps)
    BY DEF Applied
  <2> QED BY <2>1
<1>2. ASSUME NEW k \in Nat, k \in K PROVE k + 1 \in K
  <2>1. PICK f : Applied(f, k, ps)
    BY <1>2
  <2> DEFINE g == [n \in 0 .. k + 1 |-> IF n = k + 1 THEN Rule(f[k], policy[k + 1], ps) ELSE f[n]]
  <2>2. \A n \in 0 .. k : g[n] = f[n]
    OBVIOUS
  <2>3. \A n \in 0 .. k : f[n] = IF n = 0 THEN Blank ELSE Rule(f[n - 1], policy[n], ps)
    BY <2>1 DEF Applied
  <2>4. \A n \in 0 .. k + 1 : g[n] = IF n = 0 THEN Blank ELSE Rule(g[n - 1], policy[n], ps)
    <3> TAKE n \in 0 .. k + 1
    <3>1. CASE n = k + 1
      BY <2>2, <3>1
    <3>2. CASE n # k + 1
      <4>1. n \in 0 .. k /\ (n # 0 => n - 1 \in 0 .. k)
        BY <3>2
      <4> QED BY <2>2, <2>3, <4>1
    <3> QED BY <3>1, <3>2
  <2>5. g = [n \in 0 .. k + 1 |-> g[n]]
    OBVIOUS
  <2> HIDE DEF g
  <2>6. Applied(g, k + 1, ps)
    BY <2>4, <2>5 DEF Applied
  <2> QED BY <2>6
<1> HIDE DEF K
<1>3. Nat \subseteq K
  BY <1>1, <1>2, AllNumbers
<1> QED BY <1>3 DEF K

LEMMA OutcomeSound == ASSUME NEW ps, policy \in RuleList PROVE OutcomeOK(Outcome(ps))
<1> DEFINE m == Len(policy)
           f == CHOOSE g : Applied(g, m, ps)
           K == {k \in Nat : k <= m => OutcomeOK(f[k])}
<1>1. m \in Nat
  BY DEF RuleList
<1>2. Outcome(ps) = f[m]
  BY DEF Outcome, Applied
<1> HIDE DEF m
<1>3. Applied(f, m, ps)
  BY <1>1, AppliedExists
<1> HIDE DEF f
<1>4. \A n \in 0 .. m : f[n] = IF n = 0 THEN Blank ELSE Rule(f[n - 1], policy[n], ps)
  BY <1>3 DEF Applied
<1>5. 0 \in K
  <2>1. OutcomeOK(Blank)
    BY DEF OutcomeOK, Blank, Full, Half
  <2> QED BY <1>1, <1>4, <2>1
<1>6. ASSUME NEW k \in Nat, k \in K PROVE k + 1 \in K
  <2> SUFFICES ASSUME k + 1 <= m PROVE OutcomeOK(f[k + 1])
    OBVIOUS
  <2>1. OutcomeOK(f[k])
    BY <1>1, <1>6
  <2>2. f[k + 1] = Rule(f[k], policy[k + 1], ps)
    BY <1>1, <1>4
  <2> QED BY <2>1, <2>2, RuleKeeps
<1> HIDE DEF K
<1>7. Nat \subseteq K
  BY <1>5, <1>6, AllNumbers
<1> QED BY <1>1, <1>2, <1>7 DEF K
------------------------------------------------------------------------------
(* Honest punching *)

Punches == [type : {"IN", "OUT"}, at : Times]

LEMMA PunchesFinite == IsFiniteSet(Punches)
<1> DEFINE K == {"IN", "OUT"} \X Times
           f == [c \in K |-> [type |-> c[1], at |-> c[2]]]
<1>1. IsFiniteSet(K)
  <2>1. IsFiniteSet({"IN", "OUT"})
    <3>1. IsFiniteSet({"IN"})
      BY FS_Singleton
    <3>2. {"IN", "OUT"} = {"IN"} \cup {"OUT"}
      OBVIOUS
    <3> QED BY <3>1, <3>2, FS_AddElement
  <2> QED BY <2>1, WorkDayAssumption, FS_Product
<1>2. f \in Surjection(K, Punches)
  <2>1. f \in [K -> Punches]
    BY DEF Punches
  <2>2. ASSUME NEW p \in Punches PROVE \E c \in K : f[c] = p
    <3>1. <<p.type, p.at>> \in K /\ p = [type |-> p.type, at |-> p.at]
      BY DEF Punches
    <3>2. f[<<p.type, p.at>>] = p
      BY <3>1
    <3> QED BY <3>1, <3>2
  <2> HIDE DEF f
  <2> QED BY <2>1, <2>2 DEF Surjection
<1> HIDE DEF f, K
<1> QED BY <1>1, <1>2, FS_Surjection

\* A punch-in stays the first, or an earlier one does.
LEMMA FirstInEarlier ==
  ASSUME NEW ps \in SUBSET Punches, NEW p \in Punches, FirstIn(ps) # None
  PROVE  LET qs == ps \cup {p} IN
         /\ FirstIn(ps) \in Nat /\ FirstIn(qs) \in Nat /\ FirstIn(qs) # None /\ FirstIn(qs) <= FirstIn(ps)
<1> DEFINE qs == ps \cup {p}
           I == {q.at : q \in {q \in ps : q.type = "IN"}}
           J == {q.at : q \in {q \in qs : q.type = "IN"}}
<1>1. /\ FirstIn(ps) = IF I = {} THEN None ELSE Min(I)
      /\ FirstIn(qs) = IF J = {} THEN None ELSE Min(J)
  BY DEF FirstIn
<1>2. I \subseteq J /\ I \in SUBSET Nat /\ J \in SUBSET Nat /\ 0 \notin J
  BY WorkDayAssumption DEF Punches
<1> HIDE DEF I, J, qs
<1>3. I # {} /\ J # {}
  BY <1>1, <1>2
<1>4. ASSUME NEW S \in SUBSET Nat, S # {} PROVE Min(S) \in S /\ \A y \in S : Min(S) <= y
  <2>1. PICK x \in S : \A y \in S : x <= y
    BY <1>4, MinExists
  <2> QED BY <2>1 DEF Min
<1>5. Min(I) \in I /\ Min(J) \in J /\ \A y \in J : Min(J) <= y
  BY <1>2, <1>3, <1>4
<1>6. FirstIn(ps) \in Nat /\ FirstIn(qs) \in Nat /\ FirstIn(qs) # None /\ FirstIn(qs) <= FirstIn(ps)
  BY <1>1, <1>2, <1>3, <1>5 DEF None
<1> QED BY <1>6 DEF qs

\* A day that one more punch leaves without a punch-out was without one before.
LEMMA LoneBefore ==
  ASSUME NEW ps \in SUBSET Punches, NEW p \in Punches, FirstIn(ps) # None, Lone(ps \cup {p})
  PROVE  Lone(ps)
<1> DEFINE qs == ps \cup {p}
<1>1. ps # {}
  BY DEF FirstIn
<1>2. qs \subseteq Punches
  OBVIOUS
<1>3. ps \subseteq qs
  OBVIOUS
<1>4. Cardinality(qs) = 1 /\ \A q \in qs : q.type = "IN"
  BY DEF Lone
<1> HIDE DEF qs
<1>5. IsFiniteSet(qs)
  BY <1>2, PunchesFinite, FS_Subset
<1>6. IsFiniteSet(ps) /\ Cardinality(ps) <= 1
  BY <1>3, <1>4, <1>5, FS_Subset
<1>7. Cardinality(ps) = 1
  BY <1>1, <1>6, FS_EmptySet, FS_CardinalityType
<1> QED BY <1>3, <1>4, <1>7 DEF Lone

\* What half the rules make of a day, and of the day with one more punch.
Between(o, u) ==
  /\ OutcomeOK(o) /\ OutcomeOK(u) /\ o.grace = u.grace /\ o.grace \in Int
  /\ o.frac \in {Half, Full} /\ u.frac \in {Half, Full} /\ o.frac <= u.frac

LEMMA HalfDayIs ==
  ASSUME NEW o, OutcomeOK(o)
  PROVE  /\ HalfDay(o).grace = o.grace /\ HalfDay(o).frac = Half
         /\ \A v : /\ [o EXCEPT !.late = v].grace = o.grace /\ [o EXCEPT !.late = v].frac = o.frac
                   /\ HalfDay([o EXCEPT !.late = v]).grace = o.grace
                   /\ HalfDay([o EXCEPT !.late = v]).frac = Half
                   /\ [o EXCEPT !.grace = v].grace = v /\ [o EXCEPT !.grace = v].frac = o.frac
                   /\ [o EXCEPT !.early = v].grace = o.grace /\ [o EXCEPT !.early = v].frac = o.frac
                   /\ [o EXCEPT !.over = v].grace = o.grace /\ [o EXCEPT !.over = v].frac = o.frac
BY DEF OutcomeOK, HalfDay

\* The minutes late by a rule.
LateIn(o, ps) == Minus(FirstIn(ps), Office.start + o.grace)

\* One rule, when the day has a punch-in: whether it makes it a half day.
Halved(o, rule, ps) ==
  \/ /\ rule.type = "late_entry" /\ LateIn(o, ps) > 0
     /\ rule.n > 0 /\ LateIn(o, ps) >= rule.n
  \/ rule.type = "missing_punch" /\ Lone(ps) /\ rule.n > 0

LEMMA RuleIs ==
  ASSUME NEW o, OutcomeOK(o), NEW rule, NEW ps, FirstIn(ps) # None
  PROVE  LET r == Rule(o, rule, ps) IN
         /\ r.grace = (IF rule.type = "grace_time" THEN rule.n ELSE o.grace)
         /\ r.frac = (IF Halved(o, rule, ps) THEN Half ELSE o.frac)
<1> DEFINE r == Rule(o, rule, ps)
<1> SUFFICES /\ r.grace = (IF rule.type = "grace_time" THEN rule.n ELSE o.grace)
             /\ r.frac = (IF Halved(o, rule, ps) THEN Half ELSE o.frac)
  OBVIOUS
<1>1. CASE rule.type = "grace_time"
  <2>1. r = [o EXCEPT !.grace = rule.n] /\ ~Halved(o, rule, ps)
    BY <1>1 DEF Rule, Halved
  <2> HIDE DEF r
  <2> QED BY <1>1, <2>1, HalfDayIs
<1>2. CASE rule.type = "late_entry"
  <2> DEFINE l == LateIn(o, ps)
             noted == [o EXCEPT !.late = AtLeast(o.late, l)]
  <2>1. r = IF l > 0 THEN IF rule.n > 0 /\ l >= rule.n THEN HalfDay(noted) ELSE noted ELSE o
    BY <1>2 DEF Rule, LateIn
  <2>2. Halved(o, rule, ps) <=> l > 0 /\ rule.n > 0 /\ l >= rule.n
    BY <1>2 DEF Halved
  <2>3. /\ HalfDay(noted).grace = o.grace /\ HalfDay(noted).frac = Half
        /\ noted.grace = o.grace /\ noted.frac = o.frac
    BY HalfDayIs
  <2> HIDE DEF r, l, noted
  <2> QED BY <1>2, <2>1, <2>2, <2>3
<1>3. CASE rule.type = "missing_punch"
  <2>1. r = IF Lone(ps) /\ rule.n > 0 THEN HalfDay(o) ELSE o
    BY <1>3 DEF Rule
  <2>2. Halved(o, rule, ps) <=> Lone(ps) /\ rule.n > 0
    BY <1>3 DEF Halved
  <2> HIDE DEF r
  <2> QED BY <1>3, <2>1, <2>2, HalfDayIs
<1>4. CASE rule.type \notin {"grace_time", "late_entry", "missing_punch"}
  <2>1. r = o \/ \E v : r = [o EXCEPT !.early = v] \/ r = [o EXCEPT !.over = v]
    BY <1>4 DEF Rule
  <2>2. ~Halved(o, rule, ps)
    BY <1>4 DEF Halved
  <2> HIDE DEF r
  <2>3. CASE r = o
    BY <1>4, <2>2, <2>3
  <2>4. ASSUME NEW v, r = [o EXCEPT !.early = v] \/ r = [o EXCEPT !.over = v]
        PROVE  r.grace = o.grace /\ r.frac = o.frac
    <3>1. CASE r = [o EXCEPT !.early = v]
      BY <3>1 DEF OutcomeOK
    <3>2. CASE r = [o EXCEPT !.over = v]
      BY <3>2 DEF OutcomeOK
    <3> QED BY <2>4, <3>1, <3>2
  <2> QED BY <1>4, <2>1, <2>2, <2>3, <2>4
<1> QED BY <1>1, <1>2, <1>3, <1>4

LEMMA RuleNeverCosts ==
  ASSUME NEW o, NEW u, Between(o, u), NEW rule \in [type : STRING, n : Int],
         NEW ps \in SUBSET Punches, NEW p \in Punches, FirstIn(ps) # None
  PROVE  Between(Rule(o, rule, ps), Rule(u, rule, ps \cup {p}))
<1> DEFINE qs == ps \cup {p}
           v == Rule(o, rule, ps)
           w == Rule(u, rule, qs)
<1>1. /\ FirstIn(ps) \in Nat /\ FirstIn(qs) \in Nat /\ FirstIn(qs) # None
      /\ FirstIn(qs) <= FirstIn(ps)
  BY FirstInEarlier
<1>2. Lone(qs) => Lone(ps)
  BY LoneBefore
<1>3. OutcomeOK(o) /\ OutcomeOK(u) /\ OutcomeOK(v) /\ OutcomeOK(w)
  BY RuleKeeps DEF Between
<1> HIDE DEF qs
<1>4. /\ v.grace = (IF rule.type = "grace_time" THEN rule.n ELSE o.grace)
      /\ v.frac = (IF Halved(o, rule, ps) THEN Half ELSE o.frac)
  BY <1>3, RuleIs
<1>5. /\ w.grace = (IF rule.type = "grace_time" THEN rule.n ELSE u.grace)
      /\ w.frac = (IF Halved(u, rule, qs) THEN Half ELSE u.frac)
  BY <1>1, <1>3, RuleIs
<1> HIDE DEF v, w
<1>6. Halved(u, rule, qs) => Halved(o, rule, ps)
  <2>1. LateIn(u, qs) <= LateIn(o, ps) /\ LateIn(u, qs) \in Int /\ LateIn(o, ps) \in Int
    BY <1>1 DEF LateIn, Minus, Between, Office
  <2>2. rule.n \in Int
    OBVIOUS
  <2> QED BY <1>2, <2>1, <2>2 DEF Halved
<1>7. v.grace = w.grace /\ v.grace \in Int
  BY <1>4, <1>5 DEF Between
<1>8. v.frac \in {Half, Full} /\ w.frac \in {Half, Full} /\ v.frac <= w.frac
  BY <1>4, <1>5, <1>6 DEF Between, Half, Full
<1>9. Between(v, w)
  BY <1>3, <1>7, <1>8 DEF Between
<1> QED BY <1>9 DEF v, w, qs

LEMMA OutcomeNeverCosts ==
  ASSUME policy \in RuleList, NEW ps \in SUBSET Punches, NEW p \in Punches, FirstIn(ps) # None
  PROVE  Between(Outcome(ps), Outcome(ps \cup {p}))
<1> DEFINE qs == ps \cup {p}
           m == Len(policy)
           f == CHOOSE h : Applied(h, m, ps)
           g == CHOOSE h : Applied(h, m, qs)
           K == {k \in Nat : k <= m => Between(f[k], g[k])}
<1>1. m \in Nat /\ \A n \in 1 .. m : policy[n] \in [type : STRING, n : Int]
  <2> DEFINE R == [type : STRING, n : Int]
  <2>1. policy \in Seq(R)
    BY DEF RuleList
  <2> HIDE DEF R
  <2>2. m \in Nat /\ \A n \in 1 .. m : policy[n] \in R
    BY <2>1
  <2> QED BY <2>2 DEF R
<1>2. Outcome(ps) = f[m] /\ Outcome(qs) = g[m]
  BY DEF Outcome, Applied
<1> SUFFICES Between(f[m], g[m])
  BY <1>2
<1> HIDE DEF m
<1>3. Applied(f, m, ps) /\ Applied(g, m, qs)
  BY <1>1, AppliedExists
<1> HIDE DEF f, g
<1>4. \A n \in 0 .. m : /\ f[n] = IF n = 0 THEN Blank ELSE Rule(f[n - 1], policy[n], ps)
                        /\ g[n] = IF n = 0 THEN Blank ELSE Rule(g[n - 1], policy[n], qs)
  BY <1>3 DEF Applied
<1>5. 0 \in K
  <2>1. Between(Blank, Blank)
    BY DEF Between, OutcomeOK, Blank, Full, Half
  <2> QED BY <1>1, <1>4, <2>1
<1>6. ASSUME NEW k \in Nat, k \in K PROVE k + 1 \in K
  <2> SUFFICES ASSUME k + 1 <= m PROVE Between(f[k + 1], g[k + 1])
    OBVIOUS
  <2>1. Between(f[k], g[k])
    BY <1>1, <1>6
  <2>2. f[k + 1] = Rule(f[k], policy[k + 1], ps) /\ g[k + 1] = Rule(g[k], policy[k + 1], qs)
    <3>1. k + 1 \in 0 .. m /\ k + 1 # 0 /\ (k + 1) - 1 = k
      BY <1>1
    <3> HIDE DEF qs
    <3> QED BY <1>4, <3>1
  <2>3. policy[k + 1] \in [type : STRING, n : Int]
    BY <1>1
  <2>4. Between(Rule(f[k], policy[k + 1], ps), Rule(g[k], policy[k + 1], qs))
    BY <2>1, <2>3, RuleNeverCosts
  <2> QED BY <2>2, <2>4
<1> HIDE DEF K
<1>7. Nat \subseteq K
  BY <1>5, <1>6, AllNumbers
<1> QED BY <1>1, <1>7 DEF K

LEMMA PunchesNeverCost == policy \in RuleList => PunchNeverCosts
<1> SUFFICES ASSUME policy \in RuleList,
                    NEW ps \in SUBSET Punches, NEW p \in Punches, FirstIn(ps) # None
             PROVE  Outcome(ps).frac <= Outcome(ps \cup {p}).frac
  BY DEF PunchNeverCosts, Punches
<1> QED BY OutcomeNeverCosts DEF Between

\* Under every list of rules and every shift, no punch after a punch-in lowers the
\* fraction of a day that is paid.
THEOREM RulesNeverCostPay == MCSpec => []RulesNeverCost
<1>1. MCInit => policy \in RuleList
  BY WorkDayAssumption DEF MCInit, DayInit, RuleList
<1>2. policy \in RuleList /\ [MCNext]_<<dayVars, ownLeaveVars, rosterVars, ownPeriodVars, focus>>
        => (policy \in RuleList)'
  <2> SUFFICES ASSUME [MCNext]_<<dayVars, ownLeaveVars, rosterVars, ownPeriodVars, focus>> PROVE policy' = policy
    OBVIOUS
  <2>1. ASSUME DayNext PROVE policy' = policy
    BY <2>1 DEF DayNext, BeginIngest, StorePunch, ReadDay, ReadRow, WriteDay, BeginMark, MarkCalendar,
                CommitMark, Refresh, MirrorMark, StartJob, JobItem, EndJob
  <2> QED BY <2>1 DEF MCNext, dayVars, ownDayVars
<1>3. policy \in RuleList => RulesNeverCost
  BY PunchesNeverCost DEF RulesNeverCost
<1> QED BY <1>1, <1>2, <1>3, PTL DEF MCSpec
------------------------------------------------------------------------------
(* Who may write *)

\* A mark that was begun: it updates only rows that are there.
Begun(q, stored) ==
  q.pc = "mark" =>
    /\ q.status \in {"P", "HD", "A"} /\ q.days \subseteq Days
    /\ q.how = "update" => \A d \in q.days : stored[d] # NoDay

RowFields == {"in", "out", "status", "frac", "pay", "late", "over", "by", "torn"}
Fractions(row) ==
  /\ row.status = "HD" <=> row.frac = Half
  /\ row.frac = 0 => row.status = "A" /\ row.by = "punch"
  /\ row.by = "punch" => row.pay = row.frac
RowOK(row) == DOMAIN row = RowFields /\ row.torn \in BOOLEAN /\ (~row.torn => Fractions(row))

\* Every row has its fraction after its status, and no mark has lost its row.
RowsIInv ==
  /\ policy \in RuleList /\ DOMAIN att = Days /\ DOMAIN req = Actors
  /\ \A d \in Days : att[d] = NoDay \/ RowOK(att[d])
  /\ \A r \in Actors : Begun(req[r], att)

LEMMA RowIsThere == ASSUME NEW row, RowOK(row) PROVE row # NoDay
BY DEF RowOK, RowFields, NoDay

\* Rows are written soundly, and no mark begins.
LEMMA RowsKept ==
  ASSUME RowsIInv, UNCHANGED policy, DOMAIN att' = Days,
         \A d \in Days : att'[d] = att[d] \/ RowOK(att'[d]), DOMAIN req' = Actors,
         \A r \in Actors : req'[r] = req[r] \/ req'[r].pc # "mark"
  PROVE  RowsIInv'
<1>1. \A d \in Days : att[d] # NoDay => att'[d] # NoDay
  BY RowIsThere
<1>2. \A r \in Actors : Begun(req[r], att')
  BY <1>1 DEF RowsIInv, Begun
<1>3. \A r \in Actors : Begun(req'[r], att')
  BY <1>2 DEF Begun
<1>4. Actors' = Actors
  BY DEF Actors
<1> QED BY <1>3, <1>4 DEF RowsIInv

LEMMA DerivedOK ==
  ASSUME policy \in RuleList, NEW ps
  PROVE  RowOK(Derived(ps)) /\ Derived(ps).by = "punch" /\ ~Derived(ps).torn
<1> DEFINE o == Outcome(ps)
           row == FromPunches(ps, o)
<1>1. OutcomeOK(o)
  BY OutcomeSound
<1> HIDE DEF o
<1>2. /\ DOMAIN row = RowFields /\ row.torn = FALSE /\ row.status = o.status
      /\ row.frac = o.frac /\ row.pay = o.frac /\ row.by = "punch"
  BY DEF FromPunches, RowFields
<1> HIDE DEF row
<1>3. Fractions(row)
  BY <1>1, <1>2 DEF Fractions, OutcomeOK
<1>4. row.torn \in BOOLEAN
  BY <1>2, Zenon
<1>5. Derived(ps) = row
  BY DEF Derived, row, o
<1> QED BY <1>2, <1>3, <1>4, <1>5 DEF RowOK

\* Single columns are written over a row: the whole row is the new one if the row is the
\* one that was read.
LEMMA RewrittenOK ==
  ASSUME NEW row, NEW was, NEW new, RowOK(new), new.by = "punch", ~new.torn
  PROVE  RowOK(Rewritten(row, was, new))
<1> DEFINE w == Rewritten(row, was, new)
<1>1. DOMAIN w = RowFields /\ w.by = "punch" /\ w.torn = (row # was)
  BY DEF Rewritten, RowOK, RowFields
<1>2. \A c \in RowFields \ {"by", "torn"} : w[c] = IF new[c] # was[c] THEN new[c] ELSE row[c]
  BY DEF Rewritten, RowOK
<1> HIDE DEF w
<1>3. ASSUME ~w.torn PROVE Fractions(w)
  <2>1. \A c \in RowFields \ {"by", "torn"} : w[c] = new[c]
    BY <1>1, <1>2, <1>3
  <2>2. w.status = new.status /\ w.frac = new.frac /\ w.pay = new.pay
    BY <2>1 DEF RowFields
  <2> QED BY <1>1, <2>2 DEF RowOK, Fractions
<1>4. w.torn \in BOOLEAN
  BY <1>1, Zenon
<1> QED BY <1>1, <1>3, <1>4 DEF RowOK, w

LEMMA MarkedOK == ASSUME NEW s \in {"P", "HD", "A"} PROVE RowOK(Marked(s))
<1> DEFINE row == Marked(s)
<1>1. /\ DOMAIN row = RowFields /\ row.torn = FALSE /\ row.status = s
      /\ row.frac = FractionOf(s) /\ row.by = "hr"
  BY DEF Marked, RowFields
<1> HIDE DEF row
<1>2. Fractions(row)
  BY <1>1 DEF Fractions, FractionOf, Half, Full
<1>3. row.torn \in BOOLEAN
  BY <1>1, Zenon
<1> QED BY <1>1, <1>2, <1>3 DEF RowOK, row

LEMMA BulkMarkedOK ==
  ASSUME NEW s \in {"P", "HD", "A"}, NEW old, RowOK(old)
  PROVE  RowOK(BulkMarked(old, s))
<1> DEFINE row == BulkMarked(old, s)
<1>1. /\ DOMAIN row = RowFields /\ row.torn = FALSE /\ row.status = s
      /\ row.frac = FractionOf(s) /\ row.by = "hr"
  BY DEF BulkMarked, RowFields, RowOK
<1> HIDE DEF row
<1>2. Fractions(row)
  BY <1>1 DEF Fractions, FractionOf, Half, Full
<1>3. row.torn \in BOOLEAN
  BY <1>1, Zenon
<1> QED BY <1>1, <1>2, <1>3 DEF RowOK, row

LEMMA UpdatedOK ==
  ASSUME NEW s \in {"P", "HD", "A"}, NEW old, RowOK(old), NEW was
  PROVE  RowOK(Updated(old, was, s))
<1> DEFINE row == Updated(old, was, s)
<1>1. /\ DOMAIN row = RowFields /\ row.by = "hr"
      /\ row.status = (IF s # was.status THEN s ELSE old.status)
      /\ row.frac = (IF FractionOf(s) # was.frac THEN FractionOf(s) ELSE old.frac)
  BY DEF Updated, RowFields, RowOK
<1>2. row.torn = (old.torn \/ old # was)
  BY DEF Updated, RowFields, RowOK
<1> HIDE DEF row
<1>3. ASSUME ~row.torn PROVE Fractions(row)
  <2>1. old = was
    BY <1>2, <1>3
  <2>2. row.status = s /\ row.frac = FractionOf(s)
    BY <1>1, <2>1
  <2> QED BY <1>1, <2>2 DEF Fractions, FractionOf, Half, Full
<1>4. row.torn \in BOOLEAN
  BY <1>2, Zenon
<1> QED BY <1>1, <1>3, <1>4 DEF RowOK, row

LEMMA RecomputeKeeps ==
  ASSUME RowsIInv, NEW r \in Actors, WriteDay(r)
  PROVE  DOMAIN att' = Days /\ \A e \in Days : att'[e] = att[e] \/ RowOK(att'[e])
<1> DEFINE d == req[r].day
           new == Derived(req[r].of)
           row == IF req[r].was = NoDay THEN new ELSE Rewritten(att[d], req[r].was, new)
<1>1. policy \in RuleList /\ DOMAIN att = Days
  BY DEF RowsIInv
<1>2. att' = att \/ att' = [att EXCEPT ![d] = row]
  BY DEF WriteDay
<1>3. RowOK(new) /\ new.by = "punch" /\ ~new.torn
  BY <1>1, DerivedOK
<1> HIDE DEF new
<1>4. RowOK(row)
  BY <1>3, RewrittenOK
<1> HIDE DEF row, d
<1>5. CASE att' = att
  BY <1>1, <1>5
<1>6. CASE att' = [att EXCEPT ![d] = row]
  BY <1>1, <1>4, <1>6
<1> QED BY <1>2, <1>5, <1>6

LEMMA CommitKeeps == ASSUME RowsIInv, NEW r \in Requests, CommitMark(r) PROVE RowsIInv'
<1> DEFINE q == req[r]
<1>1. /\ q.pc = "mark" /\ q.status \in {"P", "HD", "A"} /\ q.days \subseteq Days
      /\ q.how = "update" => \A d \in q.days : att[d] # NoDay
      /\ DOMAIN att = Days /\ \A d \in Days : att[d] = NoDay \/ RowOK(att[d])
  <2>1. r \in Actors
    BY DEF Actors
  <2> QED BY <2>1 DEF CommitMark, RowsIInv, Begun
<1>2. DOMAIN att' = Days /\ \A d \in Days : att'[d] = att[d] \/ RowOK(att'[d])
  <2>1. CASE UNCHANGED att
    BY <1>1, <2>1
  <2>2. CASE ~UNCHANGED att
    <3>1. att' = [d \in Days |->
            CASE d \notin q.days -> att[d]
              [] d \in q.days /\ q.how = "update" -> Updated(att[d], q.was, q.status)
              [] d \in q.days /\ q.how # "update" ->
                   IF att[d] = NoDay THEN Marked(q.status) ELSE BulkMarked(att[d], q.status)]
      BY <2>2 DEF CommitMark
    <3>2. \A d \in Days : att[d] # NoDay => RowOK(Updated(att[d], q.was, q.status))
      BY <1>1, UpdatedOK
    <3>3. \A d \in Days : att[d] # NoDay => RowOK(BulkMarked(att[d], q.status))
      BY <1>1, BulkMarkedOK
    <3>4. RowOK(Marked(q.status))
      BY <1>1, MarkedOK
    <3> HIDE DEF q
    <3>5. ASSUME NEW d \in Days PROVE att'[d] = att[d] \/ RowOK(att'[d])
      <4>1. CASE d \notin q.days
        BY <3>1, <4>1
      <4>2. CASE d \in q.days /\ q.how = "update"
        <5>1. att'[d] = Updated(att[d], q.was, q.status)
          BY <3>1, <4>2
        <5> QED BY <1>1, <3>2, <4>2, <5>1
      <4>3. CASE d \in q.days /\ q.how # "update"
        <5>1. att'[d] = IF att[d] = NoDay THEN Marked(q.status) ELSE BulkMarked(att[d], q.status)
          BY <3>1, <4>3
        <5> QED BY <3>3, <3>4, <5>1
      <4> QED BY <4>1, <4>2, <4>3
    <3> QED BY <3>1, <3>5
  <2> QED BY <2>1, <2>2
<1>3. PICK s \in {[pc |-> "refresh", day |-> CHOOSE d \in q.days : TRUE], Idle} :
        req' = [req EXCEPT ![r] = s]
  BY DEF CommitMark
<1>4. s.pc # "mark"
  BY <1>3 DEF Idle
<1>5. DOMAIN req' = Actors /\ \A t \in Actors : req'[t] = req[t] \/ req'[t].pc # "mark"
  BY <1>3, <1>4 DEF RowsIInv
<1>6. UNCHANGED policy
  BY DEF CommitMark
<1> QED BY <1>2, <1>5, <1>6, RowsKept

LEMMA BeginMarkKeeps ==
  ASSUME RowsIInv, NEW r \in Requests, NEW how, NEW ds \in SUBSET Days, NEW s \in {"P", "HD", "A"},
         BeginMark(r, how, ds, s)
  PROVE  RowsIInv'
<1> DEFINE was == IF how = "update" THEN att[CHOOSE d \in ds : TRUE] ELSE NoDay
           q == [pc |-> "mark", how |-> how, days |-> ds, status |-> s, was |-> was]
<1>1. /\ req' = [req EXCEPT ![r] = q] /\ UNCHANGED <<policy, att>>
      /\ how = "update" => \A d \in ds : att[d] # NoDay
  BY DEF BeginMark
<1>2. q.status = s /\ q.days = ds /\ q.how = how
  OBVIOUS
<1> HIDE DEF q
<1>3. Begun(q, att)
  BY <1>1, <1>2 DEF Begun
<1>4. Actors' = Actors
  BY DEF Actors
<1> QED BY <1>1, <1>3, <1>4 DEF RowsIInv

\* Every step on a request but the beginning of a mark moves it to a stage that is none.
LEMMA NotToMark ==
  ASSUME NEW r,
         \/ \E d, p : BeginIngest(r, d, p)
         \/ StorePunch(r) \/ ReadDay(r) \/ ReadRow(r) \/ Refresh(r) \/ MirrorMark(r)
  PROVE  /\ \E s : req' = [req EXCEPT ![r] = s] /\ s.pc # "mark"
         /\ UNCHANGED <<policy, att>>
<1> DEFINE d == req[r].day
<1>1. ASSUME NEW e, NEW p, BeginIngest(r, e, p)
      PROVE  \E s : req' = [req EXCEPT ![r] = s] /\ s.pc # "mark"
  <2> DEFINE s == [pc |-> "insert", day |-> e, punch |-> p, dup |-> Duplicate(e, p), copy |-> NoDay]
  <2>1. req' = [req EXCEPT ![r] = s] /\ s.pc # "mark"
    BY <1>1 DEF BeginIngest
  <2> HIDE DEF s
  <2> QED BY <2>1
<1>2. ASSUME StorePunch(r) PROVE \E s : req' = [req EXCEPT ![r] = s] /\ s.pc # "mark"
  <2> DEFINE s == [pc |-> "recompute", day |-> d, copy |-> req[r].copy]
  <2>1. req' = [req EXCEPT ![r] = s] /\ s.pc # "mark"
    BY <1>2 DEF StorePunch
  <2> HIDE DEF s
  <2> QED BY <2>1
<1>3. Idle.pc # "mark"
  BY DEF Idle
<1>4. ASSUME ReadDay(r) PROVE \E s : req' = [req EXCEPT ![r] = s] /\ s.pc # "mark"
  <2> DEFINE s == [pc |-> "row", day |-> d, of |-> Counted(d), copy |-> req[r].copy]
  <2>1. (req' = [req EXCEPT ![r] = s] \/ req' = [req EXCEPT ![r] = Idle]) /\ s.pc # "mark"
    BY <1>4 DEF ReadDay, Done
  <2> HIDE DEF s
  <2> QED BY <1>3, <2>1
<1>5. ASSUME ReadRow(r) PROVE \E s : req' = [req EXCEPT ![r] = s] /\ s.pc # "mark"
  <2> DEFINE s == [pc |-> "write", day |-> d, of |-> req[r].of,
                   was |-> IF req[r].copy # NoDay THEN req[r].copy ELSE att[d]]
  <2>1. req' = [req EXCEPT ![r] = s] /\ s.pc # "mark"
    BY <1>5 DEF ReadRow
  <2> HIDE DEF s
  <2> QED BY <2>1
<1>6. ASSUME Refresh(r) PROVE \E s : req' = [req EXCEPT ![r] = s] /\ s.pc # "mark"
  <2> DEFINE s == [pc |-> "mirror", day |-> d, copy |-> att[d]]
  <2>1. req' = [req EXCEPT ![r] = s] /\ s.pc # "mark"
    BY <1>6 DEF Refresh
  <2> HIDE DEF s
  <2> QED BY <2>1
<1>7. ASSUME MirrorMark(r) PROVE \E s : req' = [req EXCEPT ![r] = s] /\ s.pc # "mark"
  <2> DEFINE p == [type |-> "IN", at |-> Min(Times)]
             s == [pc |-> "insert", day |-> d, punch |-> p, dup |-> Duplicate(d, p),
                   copy |-> req[r].copy]
  <2>1. (req' = [req EXCEPT ![r] = s] \/ req' = [req EXCEPT ![r] = Idle]) /\ s.pc # "mark"
    BY <1>7 DEF MirrorMark, Done
  <2> HIDE DEF s
  <2> QED BY <1>3, <2>1
<1>8. UNCHANGED <<policy, att>>
  BY DEF BeginIngest, StorePunch, ReadDay, ReadRow, Refresh, MirrorMark
<1> QED BY <1>1, <1>2, <1>4, <1>5, <1>6, <1>7, <1>8

LEMMA RowsStep == RowsIInv /\ [DayNext]_dayVars => RowsIInv'
<1> SUFFICES ASSUME RowsIInv, [DayNext]_dayVars PROVE RowsIInv'
  OBVIOUS
<1>0. DOMAIN req = Actors /\ DOMAIN att = Days /\ Requests \subseteq Actors /\ Worker \in Actors
  BY DEF RowsIInv, Actors
<1>1. ASSUME NEW r \in Actors, NEW s, req' = [req EXCEPT ![r] = s], s.pc # "mark",
             UNCHANGED <<policy, att>>
      PROVE  RowsIInv'
  <2>1. \A t \in Actors : req'[t] = req[t] \/ req'[t].pc # "mark"
    BY <1>0, <1>1
  <2> QED BY <1>0, <1>1, <2>1, RowsKept
<1>2. ASSUME NEW r \in Requests, \/ \E d \in Days, p \in [type : {"IN", "OUT"}, at : Times] :
                                      BeginIngest(r, d, p)
                                 \/ StorePunch(r) \/ Refresh(r) \/ MirrorMark(r)
      PROVE  RowsIInv'
  BY <1>0, <1>1, <1>2, NotToMark
<1>3. ASSUME NEW r \in Actors, ReadDay(r) \/ ReadRow(r) PROVE RowsIInv'
  BY <1>1, <1>3, NotToMark
<1>4. ASSUME NEW r \in Actors, WriteDay(r) PROVE RowsIInv'
  <2>1. req' = [req EXCEPT ![r] = Idle] /\ Idle.pc # "mark" /\ UNCHANGED policy
    BY <1>4 DEF WriteDay, Done, Idle
  <2>2. DOMAIN att' = Days /\ \A e \in Days : att'[e] = att[e] \/ RowOK(att'[e])
    BY <1>4, RecomputeKeeps
  <2> QED BY <1>0, <2>1, <2>2, RowsKept
<1>5. ASSUME NEW r \in Requests, NEW how, NEW ds \in SUBSET Days, NEW s \in {"P", "HD", "A"},
             BeginMark(r, how, ds, s)
      PROVE  RowsIInv'
  BY <1>5, BeginMarkKeeps
<1>6. ASSUME NEW r \in Requests, CommitMark(r) PROVE RowsIInv'
  BY <1>6, CommitKeeps
<1>7. ASSUME NEW d \in Days, JobItem(d) PROVE RowsIInv'
  <2> DEFINE s == [pc |-> "recompute", day |-> d, copy |-> NoDay]
  <2>1. req' = req \/ req' = [req EXCEPT ![Worker] = s]
    BY <1>7 DEF JobItem
  <2>2. s.pc # "mark" /\ UNCHANGED <<policy, att>>
    BY <1>7 DEF JobItem
  <2> HIDE DEF s
  <2>3. CASE req' = req
    BY <1>0, <2>2, <2>3, RowsKept
  <2> QED BY <1>0, <1>1, <2>1, <2>2, <2>3
<1>8. CASE UNCHANGED <<policy, att, req>>
  BY <1>0, <1>8, RowsKept
<1>9. ASSUME NEW ds, StartJob(ds) \/ EndJob PROVE UNCHANGED <<policy, att, req>>
  BY <1>9 DEF StartJob, EndJob
<1> QED BY <1>2, <1>3, <1>4, <1>5, <1>6, <1>7, <1>8, <1>9 DEF DayNext, dayVars, MarkCalendar

LEMMA RowsInvariant == DaySpec => []RowsIInv
<1>1. DayInit => RowsIInv
  <2> SUFFICES ASSUME DayInit PROVE RowsIInv
    OBVIOUS
  <2>1. \A r \in Actors : Begun(req[r], att)
    BY DEF DayInit, Begun, Idle
  <2> QED BY <2>1, WorkDayAssumption DEF DayInit, RowsIInv, RuleList
<1> QED BY <1>1, RowsStep, PTL DEF DaySpec

\* FractionFollowsStatus holds for every sequence of rules: the paid fraction of a day
\* goes with its status through punches, jobs, marks and bulk loads in any order, though
\* a recompute writes single columns, unless it or an update met a row it had not read.
THEOREM FractionAlwaysFollows == DaySpec => []FractionFollowsStatus
<1>1. RowsIInv => FractionFollowsStatus
  <2> SUFFICES ASSUME RowsIInv, NEW d \in Days, att[d] # NoDay, ~att[d].torn
               PROVE  Fractions(att[d])
    BY DEF FractionFollowsStatus, Fractions
  <2> QED BY DEF RowsIInv, RowOK
<1> QED BY <1>1, RowsInvariant, PTL

\* LockedDaysKept: while the period is locked nobody new gets past the check, whether it
\* is a request or an item of a job, and only who was past it when the lock came still
\* changes a day.
THEOREM LockedDaysAlwaysKept == DaySpec => LockedDaysKept
<1> DEFINE Kept == Closed => /\ (Closed' => Past' \subseteq Past)
                             /\ (att' # att => \E r \in Past : req'[r] # req[r])
           Later == {"row", "write", "mark"}
<1>1. ASSUME RowsIInv, [DayNext]_dayVars, Closed PROVE Kept
  <2>0. DOMAIN req = Actors /\ ~Unlocked /\ Requests \subseteq Actors /\ Worker \in Actors
    BY <1>1 DEF RowsIInv, Unlocked, Actors
  <2>1. ASSUME NEW r \in Actors, NEW s, req' = [req EXCEPT ![r] = s],
               s.pc \notin Later \/ r \in Past, att' = att \/ (r \in Past /\ s # req[r])
        PROVE  Kept
    <3>1. \A t \in Actors : req'[t] = req[t] \/ (t = r /\ req'[t] = s)
      BY <2>0, <2>1
    <3>2. Past' \subseteq Past
      BY <2>1, <3>1 DEF Past, Actors
    <3>3. req'[r] = s
      BY <2>0, <2>1
    <3> QED BY <2>1, <3>2, <3>3
  <2>2. ASSUME NEW r \in Requests, NEW d \in Days, NEW p, BeginIngest(r, d, p) PROVE Kept
    <3> DEFINE s == [pc |-> "insert", day |-> d, punch |-> p, dup |-> Duplicate(d, p), copy |-> NoDay]
    <3>1. req' = [req EXCEPT ![r] = s] /\ s.pc = "insert" /\ UNCHANGED att
      BY <2>2 DEF BeginIngest
    <3> HIDE DEF s
    <3> QED BY <2>0, <2>1, <3>1
  <2>3. ASSUME NEW r \in Requests, StorePunch(r) PROVE Kept
    <3> DEFINE s == [pc |-> "recompute", day |-> req[r].day, copy |-> req[r].copy]
    <3>1. req' = [req EXCEPT ![r] = s] /\ s.pc = "recompute" /\ UNCHANGED att
      BY <2>3 DEF StorePunch
    <3> HIDE DEF s
    <3> QED BY <2>0, <2>1, <3>1
  <2>4. ASSUME NEW r \in Actors, ReadDay(r) \/ WriteDay(r) PROVE Kept
    <3>1. req' = [req EXCEPT ![r] = Idle] /\ (att' = att \/ req[r].pc = "write")
      BY <2>0, <2>4 DEF ReadDay, WriteDay, Done
    <3>2. Idle.pc = "idle"
      BY DEF Idle
    <3>3. att' = att \/ (r \in Past /\ Idle # req[r])
      BY <3>1, <3>2 DEF Past
    <3> QED BY <2>1, <3>1, <3>2, <3>3
  <2>5. ASSUME NEW r \in Actors, ReadRow(r) PROVE Kept
    <3> DEFINE s == [pc |-> "write", day |-> req[r].day, of |-> req[r].of,
                     was |-> IF req[r].copy # NoDay THEN req[r].copy ELSE att[req[r].day]]
    <3>1. req' = [req EXCEPT ![r] = s] /\ UNCHANGED att /\ r \in Past
      BY <2>5 DEF ReadRow, Past
    <3> HIDE DEF s
    <3> QED BY <2>1, <3>1
  <2>6. ASSUME NEW r \in Requests, CommitMark(r) PROVE Kept
    <3> DEFINE q == req[r]
    <3>1. PICK s \in {[pc |-> "refresh", day |-> CHOOSE d \in q.days : TRUE], Idle} :
            req' = [req EXCEPT ![r] = s]
      BY <2>6 DEF CommitMark
    <3>2. s.pc \in {"refresh", "idle"} /\ q.pc = "mark"
      BY <2>6, <3>1 DEF Idle, CommitMark
    <3>3. r \in Past /\ s # q
      BY <2>0, <3>2 DEF Past
    <3> QED BY <2>0, <2>1, <3>1, <3>2, <3>3
  <2>7. ASSUME NEW r \in Requests, MirrorMark(r) PROVE Kept
    <3> DEFINE p == [type |-> "IN", at |-> Min(Times)]
               s == [pc |-> "insert", day |-> req[r].day, punch |-> p,
                     dup |-> Duplicate(req[r].day, p), copy |-> req[r].copy]
    <3>1. /\ req' = [req EXCEPT ![r] = s] \/ req' = [req EXCEPT ![r] = Idle]
          /\ s.pc = "insert" /\ Idle.pc = "idle" /\ UNCHANGED att
      BY <2>7 DEF MirrorMark, Done, Idle
    <3> HIDE DEF s
    <3> QED BY <2>0, <2>1, <3>1
  <2>8. ASSUME NEW r \in Requests, Refresh(r) PROVE Kept
    <3> DEFINE s == [pc |-> "mirror", day |-> req[r].day, copy |-> att[req[r].day]]
    <3>1. req' = [req EXCEPT ![r] = s] /\ s.pc = "mirror" /\ UNCHANGED att
      BY <2>8 DEF Refresh
    <3> HIDE DEF s
    <3> QED BY <2>0, <2>1, <3>1
  <2>9. CASE UNCHANGED <<req, att>>
    BY <2>9 DEF Past
  <2>10. ASSUME NEW d \in Days, JobItem(d) PROVE Kept
    <3> DEFINE s == [pc |-> "recompute", day |-> d, copy |-> NoDay]
    <3>1. (req' = req \/ req' = [req EXCEPT ![Worker] = s]) /\ s.pc = "recompute" /\ UNCHANGED att
      BY <2>10 DEF JobItem
    <3> HIDE DEF s
    <3> QED BY <2>0, <2>1, <2>9, <3>1
  <2>11. ASSUME NEW ds, StartJob(ds) \/ EndJob PROVE UNCHANGED <<req, att>>
    BY <2>11 DEF StartJob, EndJob
  <2>12. ASSUME NEW r \in Requests, NEW how, NEW ds, NEW s, BeginMark(r, how, ds, s) PROVE FALSE
    BY <2>0, <2>12 DEF BeginMark
  <2> HIDE DEF Kept
  <2> QED BY <1>1, <2>2, <2>3, <2>4, <2>5, <2>6, <2>7, <2>8, <2>9, <2>10, <2>11, <2>12
          DEF DayNext, dayVars, MarkCalendar
<1>2. RowsIInv /\ [DayNext]_dayVars => [Kept]_dayVars
  BY <1>1
<1> HIDE DEF Kept
<1>3. DaySpec => [][Kept]_dayVars
  BY <1>2, RowsInvariant, PTL DEF DaySpec
<1> QED BY <1>3 DEF LockedDaysKept, Kept
------------------------------------------------------------------------------
(* Punches *)

\* Is the row w in the window of a punch p of the day d?
Near(w, d, p) == w.day = d /\ w.type = p.type /\ w.at <= p.at + 1 /\ p.at <= w.at + 1

\* A punch about to be stored, not as a duplicate, meets no other within the window but
\* those stored since it was checked, while it was in between.
Checked(q, stored) ==
  q.pc = "insert" =>
    /\ q.punch.at \in Nat
    /\ ~q.dup => \A i \in DOMAIN stored : Near(stored[i], q.day, q.punch) => ~stored[i].seen

PunchIInv ==
  /\ DOMAIN req = Actors /\ raw \in Seq(Range(raw))
  /\ \A i \in DOMAIN raw : raw[i].at \in Nat
  /\ \A r \in Requests : Checked(req[r], raw)
  /\ NoDoubleCount

LEMMA DuplicateNear ==
  ASSUME NEW d, NEW p, ~Duplicate(d, p), NEW i \in DOMAIN raw
  PROVE  ~Near(raw[i], d, p)
BY DEF Duplicate, Near, Stored, Range

\* A request goes on without storing a punch; one that is about to has just checked it.
LEMMA CheckedKeeps ==
  ASSUME PunchIInv, NEW r \in Actors, NEW s, req' = [req EXCEPT ![r] = s], UNCHANGED raw,
         Checked(s, raw)
  PROVE  PunchIInv'
<1>1. NoDoubleCount'
  BY DEF PunchIInv, NoDoubleCount
<1>2. Actors' = Actors /\ Requests \subseteq Actors
  BY DEF Actors
<1> QED BY <1>1, <1>2 DEF PunchIInv

LEMMA NewlyChecked ==
  ASSUME NEW d, NEW p, p.at \in Nat, NEW copy
  PROVE  Checked([pc |-> "insert", day |-> d, punch |-> p, dup |-> Duplicate(d, p), copy |-> copy], raw)
<1> DEFINE dup == Duplicate(d, p)
           q == [pc |-> "insert", day |-> d, punch |-> p, dup |-> dup, copy |-> copy]
<1>1. q.dup = dup /\ q.day = d /\ q.punch = p
  OBVIOUS
<1>2. ~dup => \A i \in DOMAIN raw : ~Near(raw[i], d, p)
  BY DuplicateNear
<1> HIDE DEF dup, q
<1>3. Checked(q, raw)
  BY <1>1, <1>2 DEF Checked
<1> QED BY <1>3 DEF q, dup

LEMMA StoreKeeps == ASSUME PunchIInv, NEW r \in Requests, StorePunch(r) PROVE PunchIInv'
<1> DEFINE seen == Inserting = {r}
           w == [day |-> req[r].day, type |-> req[r].punch.type, at |-> req[r].punch.at,
                 dup |-> req[r].dup, seen |-> seen]
           s == [pc |-> "recompute", day |-> req[r].day, copy |-> req[r].copy]
           n == Len(raw) + 1
<1>0. Actors' = Actors /\ Requests \subseteq Actors
  BY DEF Actors
<1>1. /\ raw' = Append(raw, w) /\ req[r].pc = "insert"
      /\ req' = [q \in Actors |-> IF q = r THEN s ELSE req[q]] /\ s.pc = "recompute"
  BY DEF StorePunch, PunchIInv
<1>2. /\ w.day = req[r].day /\ w.type = req[r].punch.type /\ w.at = req[r].punch.at
      /\ w.dup = req[r].dup /\ w.seen = seen
  OBVIOUS
<1>3. ASSUME NEW t \in Requests \ {r}, req[t].pc = "insert" PROVE ~w.seen
  BY <1>3 DEF Inserting
<1>4. /\ w.at \in Nat
      /\ ~w.dup => \A i \in DOMAIN raw : Near(raw[i], w.day, w) => ~raw[i].seen
  BY <1>1, <1>2 DEF PunchIInv, Checked, Near
<1> HIDE DEF w, s, seen
<1>5. /\ raw \in Seq(Range(raw)) /\ n \notin DOMAIN raw /\ n \in Nat
      /\ raw' \in Seq(Range(raw) \cup {w})
      /\ DOMAIN raw' = DOMAIN raw \cup {n} /\ raw'[n] = w
      /\ \A i \in DOMAIN raw : raw'[i] = raw[i]
  <2>1. raw \in Seq(Range(raw))
    BY DEF PunchIInv
  <2>2. raw \in Seq(Range(raw) \cup {w})
    BY <2>1, SeqMonotonic
  <2> HIDE DEF n
  <2> DEFINE T == Range(raw) \cup {w}
  <2>3. raw \in Seq(T) /\ w \in T
    BY <2>2
  <2> HIDE DEF T
  <2>4. /\ raw' \in Seq(T) /\ n \notin DOMAIN raw /\ n \in Nat
        /\ DOMAIN raw' = DOMAIN raw \cup {n} /\ raw'[n] = w
        /\ \A i \in DOMAIN raw : raw'[i] = raw[i]
    BY <1>1, <2>3 DEF n
  <2> QED BY <2>1, <2>4 DEF T
<1> HIDE DEF n
<1>6. raw' \in Seq(Range(raw'))
  <2>1. Range(raw') = Range(raw) \cup {w}
    BY <1>5 DEF Range
  <2> QED BY <1>5, <2>1
<1>7. \A i \in DOMAIN raw' : raw'[i].at \in Nat
  BY <1>4, <1>5 DEF PunchIInv
<1>8. ASSUME NEW t \in Requests PROVE Checked(req'[t], raw')
  <2>1. CASE t = r
    BY <1>0, <1>1, <2>1 DEF Checked
  <2>2. CASE t # r
    <3>1. req'[t] = req[t] /\ Checked(req[t], raw)
      BY <1>0, <1>1, <2>2 DEF PunchIInv
    <3> QED BY <1>3, <1>5, <2>2, <3>1 DEF Checked
  <2> QED BY <2>1, <2>2
<1>9. NoDoubleCount'
  <2> SUFFICES ASSUME NEW i \in DOMAIN raw', NEW j \in DOMAIN raw', i # j,
                      ~raw'[i].dup, ~raw'[j].dup,
                      raw'[i].day = raw'[j].day, raw'[i].type = raw'[j].type,
                      raw'[i].at <= raw'[j].at, raw'[j].at <= raw'[i].at + 1
               PROVE  ~raw'[i].seen \/ ~raw'[j].seen
    BY DEF NoDoubleCount
  <2>1. CASE i \in DOMAIN raw /\ j \in DOMAIN raw
    BY <1>5, <2>1 DEF PunchIInv, NoDoubleCount
  <2>2. CASE i = n /\ j \in DOMAIN raw
    <3>1. Near(raw[j], w.day, w)
      BY <1>4, <1>5, <1>7, <2>2 DEF Near, PunchIInv
    <3> QED BY <1>4, <1>5, <2>2, <3>1
  <2>3. CASE i \in DOMAIN raw /\ j = n
    <3>1. Near(raw[i], w.day, w)
      BY <1>4, <1>5, <1>7, <2>3 DEF Near, PunchIInv
    <3> QED BY <1>4, <1>5, <2>3, <3>1
  <2> QED BY <1>5, <2>1, <2>2, <2>3
<1>10. DOMAIN req' = Actors
  BY <1>1
<1> QED BY <1>0, <1>6, <1>7, <1>8, <1>9, <1>10 DEF PunchIInv

LEMMA PunchStep == PunchIInv /\ [DayNext]_dayVars => PunchIInv'
<1> SUFFICES ASSUME PunchIInv, [DayNext]_dayVars PROVE PunchIInv'
  OBVIOUS
<1>0. DOMAIN req = Actors /\ Requests \subseteq Actors /\ Worker \in Actors
  BY DEF PunchIInv, Actors
<1>1. ASSUME NEW s, s.pc # "insert" PROVE Checked(s, raw)
  BY <1>1 DEF Checked
<1>2. ASSUME NEW r \in Requests, NEW d \in Days, NEW k \in {"IN", "OUT"}, NEW t \in Times,
             BeginIngest(r, d, [type |-> k, at |-> t])
      PROVE  PunchIInv'
  <2> DEFINE p == [type |-> k, at |-> t]
             s == [pc |-> "insert", day |-> d, punch |-> p, dup |-> Duplicate(d, p), copy |-> NoDay]
  <2>1. req' = [req EXCEPT ![r] = s] /\ UNCHANGED raw
    BY <1>2 DEF BeginIngest
  <2>2. p.at \in Nat
    BY WorkDayAssumption
  <2>3. Checked(s, raw)
    BY <2>2, NewlyChecked
  <2> HIDE DEF s
  <2> QED BY <1>0, <2>1, <2>3, CheckedKeeps
<1>3. ASSUME NEW r \in Requests, StorePunch(r) PROVE PunchIInv'
  BY <1>3, StoreKeeps
<1>4. ASSUME NEW r \in Actors, ReadDay(r) \/ WriteDay(r) PROVE PunchIInv'
  <2> DEFINE s == [pc |-> "row", day |-> req[r].day, of |-> Counted(req[r].day), copy |-> req[r].copy]
  <2>1. req' = [req EXCEPT ![r] = s] \/ req' = [req EXCEPT ![r] = Idle]
    BY <1>4 DEF ReadDay, WriteDay, Done
  <2>2. s.pc # "insert" /\ Idle.pc # "insert" /\ UNCHANGED raw
    BY <1>4 DEF ReadDay, WriteDay, Idle
  <2> HIDE DEF s
  <2> QED BY <1>1, <2>1, <2>2, CheckedKeeps
<1>5. ASSUME NEW r \in Actors, ReadRow(r) PROVE PunchIInv'
  <2> DEFINE s == [pc |-> "write", day |-> req[r].day, of |-> req[r].of,
                   was |-> IF req[r].copy # NoDay THEN req[r].copy ELSE att[req[r].day]]
  <2>1. req' = [req EXCEPT ![r] = s] /\ UNCHANGED raw /\ s.pc # "insert"
    BY <1>5 DEF ReadRow
  <2> HIDE DEF s
  <2> QED BY <1>1, <2>1, CheckedKeeps
<1>6. ASSUME NEW r \in Requests, NEW how, NEW ds, NEW s, BeginMark(r, how, ds, s) PROVE PunchIInv'
  <2> DEFINE was == IF how = "update" THEN att[CHOOSE d \in ds : TRUE] ELSE NoDay
             q == [pc |-> "mark", how |-> how, days |-> ds, status |-> s, was |-> was]
  <2>1. req' = [req EXCEPT ![r] = q] /\ UNCHANGED raw /\ q.pc # "insert"
    BY <1>6 DEF BeginMark
  <2> HIDE DEF q
  <2> QED BY <1>0, <1>1, <2>1, CheckedKeeps
<1>7. ASSUME NEW r \in Requests, CommitMark(r) PROVE PunchIInv'
  <2>1. PICK s \in {[pc |-> "refresh", day |-> CHOOSE d \in req[r].days : TRUE], Idle} :
          req' = [req EXCEPT ![r] = s]
    BY <1>7 DEF CommitMark
  <2>2. s.pc # "insert" /\ UNCHANGED raw
    BY <1>7, <2>1 DEF CommitMark, Idle
  <2> QED BY <1>0, <1>1, <2>1, <2>2, CheckedKeeps
<1>8. ASSUME NEW r \in Requests, Refresh(r) PROVE PunchIInv'
  <2> DEFINE s == [pc |-> "mirror", day |-> req[r].day, copy |-> att[req[r].day]]
  <2>1. req' = [req EXCEPT ![r] = s] /\ UNCHANGED raw /\ s.pc # "insert"
    BY <1>8 DEF Refresh
  <2> HIDE DEF s
  <2> QED BY <1>0, <1>1, <2>1, CheckedKeeps
<1>9. ASSUME NEW r \in Requests, MirrorMark(r) PROVE PunchIInv'
  <2> DEFINE p == [type |-> "IN", at |-> Min(Times)]
             d == req[r].day
             s == [pc |-> "insert", day |-> d, punch |-> p, dup |-> Duplicate(d, p),
                   copy |-> req[r].copy]
  <2>1. /\ req' = [req EXCEPT ![r] = s] \/ req' = [req EXCEPT ![r] = Idle]
        /\ UNCHANGED raw
    BY <1>9 DEF MirrorMark, Done
  <2>2. p.at \in Nat
    BY MinTime
  <2>3. Checked(s, raw)
    BY <2>2, NewlyChecked
  <2>4. Checked(Idle, raw)
    BY DEF Checked, Idle
  <2> HIDE DEF s
  <2> QED BY <1>0, <2>1, <2>3, <2>4, CheckedKeeps
<1>10. CASE UNCHANGED <<raw, req>>
  BY <1>0, <1>10 DEF PunchIInv, NoDoubleCount, Actors
<1>11. ASSUME NEW d \in Days, JobItem(d) PROVE PunchIInv'
  <2> DEFINE s == [pc |-> "recompute", day |-> d, copy |-> NoDay]
  <2>1. (req' = req \/ req' = [req EXCEPT ![Worker] = s]) /\ UNCHANGED raw /\ s.pc # "insert"
    BY <1>11 DEF JobItem
  <2> HIDE DEF s
  <2> QED BY <1>0, <1>1, <1>10, <2>1, CheckedKeeps
<1>12. ASSUME NEW ds, StartJob(ds) \/ EndJob PROVE UNCHANGED <<raw, req>>
  BY <1>12 DEF StartJob, EndJob
<1> QED BY <1>2, <1>3, <1>4, <1>5, <1>6, <1>7, <1>8, <1>9, <1>10, <1>11, <1>12
        DEF DayNext, dayVars, MarkCalendar

\* NoDoubleCount holds: two punches of a kind within the window are not both counted, in
\* whichever order they arrive, unless one was stored between check and insert of another.
THEOREM NeverCountedTwice == DaySpec => []NoDoubleCount
<1>1. DayInit => PunchIInv
  <2> SUFFICES ASSUME DayInit PROVE PunchIInv
    OBVIOUS
  <2>1. raw \in Seq(Range(raw)) /\ DOMAIN raw = {}
    BY DEF DayInit
  <2>2. \A r \in Requests : Checked(req[r], raw)
    BY DEF DayInit, Checked, Idle, Actors
  <2> QED BY <2>1, <2>2 DEF DayInit, PunchIInv, NoDoubleCount
<1>2. PunchIInv => NoDoubleCount
  BY DEF PunchIInv
<1> QED BY <1>1, <1>2, PunchStep, PTL DEF DaySpec
-----------------------------------------------------------------------------
(* Leaves *)

\* The days the leave number i has used, and all of them: Deducted of the leaves ls.
Block(i, l) == {i} \X (1 .. l.deducted) \X (l.span[1] .. l.span[2])
Used(ls) == UNION {Block(i, ls[i]) : i \in DOMAIN ls}

\* A leave that was approved, and not filed so, was deducted.
Settled(l) == l.type = "CL" /\ l.status = "approved" /\ ~l.direct => l.deducted >= 1

\* What a clerk's request holds: a leave about to be filed, or the number of one.
Held(q, ls) ==
  /\ q.pc = "insert" =>
       /\ q.leave \in Leave /\ q.leave.deducted = 0 /\ Settled(q.leave)
  /\ q.pc \in {"decide", "approve"} => q.of \in DOMAIN ls

LeavesIInv ==
  /\ consumed \in Nat /\ consumed <= Balance
  /\ leaves \in Seq(Leave) /\ IsFiniteSet(Used(leaves)) /\ consumed = Cardinality(Used(leaves))
  /\ \A i \in DOMAIN leaves : Settled(leaves[i])
  /\ DOMAIN desk = Clerks /\ \A c \in Clerks : Held(desk[c], leaves)

LEMMA SpanFacts ==
  ASSUME NEW s \in Spans
  PROVE  s[1] \in Nat /\ s[2] \in Nat /\ s[1] <= s[2]
BY LeavesAssumption DEF Spans

\* A leave that was not deducted uses no day.
LEMMA FiledUnused ==
  ASSUME NEW ls \in Seq(Leave), NEW l \in Leave, l.deducted = 0
  PROVE  Used(Append(ls, l)) = Used(ls)
<1> DEFINE n == Len(ls) + 1
           k == Append(ls, l)
<1>1. n \notin DOMAIN ls /\ DOMAIN k = DOMAIN ls \cup {n} /\ k[n] = l /\ \A i \in DOMAIN ls : k[i] = ls[i]
  OBVIOUS
<1>2. Block(n, l) = {}
  BY DEF Block
<1> HIDE DEF n, k
<1>3. Used(k) = Used(ls)
  <2>1. ASSUME NEW x \in Used(k) PROVE x \in Used(ls)
    <3>1. PICK i \in DOMAIN k : x \in Block(i, k[i])
      BY <2>1 DEF Used
    <3>2. i \in DOMAIN ls /\ x \in Block(i, ls[i])
      BY <1>1, <1>2, <3>1
    <3> QED BY <3>2 DEF Used
  <2>2. ASSUME NEW x \in Used(ls) PROVE x \in Used(k)
    <3>1. PICK i \in DOMAIN ls : x \in Block(i, ls[i])
      BY <2>2 DEF Used
    <3>2. i \in DOMAIN k /\ x \in Block(i, k[i])
      BY <1>1, <3>1
    <3> QED BY <3>2 DEF Used
  <2> QED BY <2>1, <2>2
<1> QED BY <1>3 DEF k

\* Deducting the leave number i once more uses as many days as it has.
LEMMA OneMore ==
  ASSUME NEW ls \in Seq(Leave), NEW i \in DOMAIN ls, NEW ks \in Seq(Leave),
         DOMAIN ks = DOMAIN ls, \A j \in DOMAIN ls \ {i} : ks[j] = ls[j],
         ks[i].span = ls[i].span, ks[i].deducted = ls[i].deducted + 1, IsFiniteSet(Used(ls))
  PROVE  /\ IsFiniteSet(Used(ks))
         /\ Cardinality(Used(ks)) = Cardinality(Used(ls)) + CalendarDays(ls[i].span)
<1> DEFINE a == ls[i].span[1]
           b == ls[i].span[2]
           n == ls[i].deducted
           new == {i} \X {n + 1} \X (a .. b)
<1>1. /\ ls[i] \in Leave /\ ls[i].span \in Spans /\ n \in Nat
  <2>1. ls[i] \in Leave
    OBVIOUS
  <2> QED BY <2>1 DEF Leave
<1>2. a \in Nat /\ b \in Nat /\ a <= b
  BY <1>1, SpanFacts
<1>3. Block(i, ks[i]) = Block(i, ls[i]) \cup new
  <2>1. 1 .. n + 1 = 1 .. n \cup {n + 1}
    BY <1>1
  <2> HIDE DEF a, b, n
  <2>2. Block(i, ks[i]) = {i} \X (1 .. n + 1) \X (a .. b) /\ Block(i, ls[i]) = {i} \X (1 .. n) \X (a .. b)
    BY DEF Block, a, b, n
  <2> QED BY <2>1, <2>2
<1>4. Used(ks) = Used(ls) \cup new
  <2>1. \A j \in DOMAIN ls \ {i} : Block(j, ks[j]) = Block(j, ls[j])
    OBVIOUS
  <2> HIDE DEF new
  <2>2. ASSUME NEW x \in Used(ks) PROVE x \in Used(ls) \cup new
    <3>1. PICK j \in DOMAIN ls : x \in Block(j, ks[j])
      BY <2>2 DEF Used
    <3>2. x \in Block(j, ls[j]) \cup new
      BY <1>3, <2>1, <3>1
    <3> QED BY <3>2 DEF Used
  <2>3. ASSUME NEW x \in Used(ls) \cup new PROVE x \in Used(ks)
    <3>1. \E j \in DOMAIN ls : x \in Block(j, ks[j])
      BY <1>3, <2>1, <2>3 DEF Used
    <3> QED BY <3>1 DEF Used
  <2> QED BY <2>2, <2>3
<1>5. Used(ls) \cap new = {}
  BY <1>1 DEF Used, Block
<1>6. IsFiniteSet(new) /\ Cardinality(new) = b - a + 1
  <2>1. IsFiniteSet(a .. b) /\ Cardinality(a .. b) = b - a + 1
    <3> HIDE DEF a, b
    <3>1. a \in Int /\ b \in Int /\ ~(a > b)
      BY <1>2
    <3>2. IsFiniteSet(a .. b) /\ Cardinality(a .. b) = IF a > b THEN 0 ELSE b - a + 1
      BY <3>1, FS_Interval
    <3> QED BY <3>1, <3>2
  <2> DEFINE f == [d \in a .. b |-> <<i, n + 1, d>>]
  <2>2. f \in Bijection(a .. b, new)
    BY DEF Bijection, Injection, Surjection, IsInjective
  <2>3. ExistsBijection(a .. b, new)
    BY <2>2 DEF ExistsBijection
  <2> HIDE DEF new
  <2> QED BY <2>1, <2>3, FS_Bijection
<1> HIDE DEF new
<1>7. IsFiniteSet(Used(ks)) /\ Cardinality(Used(ks)) = Cardinality(Used(ls)) + Cardinality(new) - 0
  BY <1>4, <1>5, <1>6, FS_Union, FS_EmptySet
<1>8. Cardinality(Used(ls)) \in Nat
  BY FS_CardinalityType
<1> QED BY <1>2, <1>6, <1>7, <1>8 DEF CalendarDays

\* A leave's new status alone uses nothing.
LEMMA SameUse ==
  ASSUME NEW ls, NEW ks, DOMAIN ks = DOMAIN ls,
         \A i \in DOMAIN ls : ks[i].span = ls[i].span /\ ks[i].deducted = ls[i].deducted
  PROVE  Used(ks) = Used(ls)
<1>1. \A i \in DOMAIN ls : Block(i, ks[i]) = Block(i, ls[i])
  BY DEF Block
<1>2. \A x : x \in Used(ks) <=> x \in Used(ls)
  BY <1>1 DEF Used
<1> QED BY <1>2

\* A clerk's request goes on, or ends, and the leaves stay.
LEMMA DeskKeeps ==
  ASSUME LeavesIInv, NEW c \in Clerks, NEW q, desk' = [desk EXCEPT ![c] = q],
         Held(q, leaves), UNCHANGED <<leaves, consumed>>
  PROVE  LeavesIInv'
BY DEF LeavesIInv

LEMMA FreeHolds == \A ls : Held(FreeDesk, ls)
BY DEF Held, FreeDesk

\* The leaves change, and no number of a leave is lost.
LEMMA LeavesKeep ==
  ASSUME LeavesIInv, NEW c \in Clerks, desk' = [desk EXCEPT ![c] = FreeDesk],
         leaves' \in Seq(Leave), DOMAIN leaves \subseteq DOMAIN leaves',
         \A i \in DOMAIN leaves' : Settled(leaves'[i]),
         IsFiniteSet(Used(leaves')), consumed' = Cardinality(Used(leaves')),
         consumed' \in Nat, consumed' <= Balance
  PROVE  LeavesIInv'
<1>1. DOMAIN desk' = Clerks /\ \A d \in Clerks : desk'[d] = FreeDesk \/ desk'[d] = desk[d]
  BY DEF LeavesIInv
<1>2. \A d \in Clerks : Held(desk[d], leaves')
  BY DEF LeavesIInv, Held
<1>3. \A d \in Clerks : Held(desk'[d], leaves')
  BY <1>1, <1>2, FreeHolds
<1> QED BY <1>1, <1>3 DEF LeavesIInv

LEMMA FileKeeps == ASSUME LeavesIInv, NEW c \in Clerks, File(c) PROVE LeavesIInv'
<1> DEFINE l == desk[c].leave
<1>1. /\ l \in Leave /\ l.deducted = 0 /\ Settled(l)
      /\ leaves \in Seq(Leave) /\ IsFiniteSet(Used(leaves)) /\ consumed = Cardinality(Used(leaves))
      /\ \A i \in DOMAIN leaves : Settled(leaves[i])
  BY DEF File, AtDesk, LeavesIInv, Held
<1>2. /\ desk' = [desk EXCEPT ![c] = FreeDesk] /\ UNCHANGED consumed
      /\ leaves' = leaves \/ leaves' = Append(leaves, l)
  BY DEF File
<1> HIDE DEF l
<1>3. CASE leaves' = leaves
  BY <1>2, <1>3, DeskKeeps, FreeHolds
<1>4. CASE leaves' = Append(leaves, l)
  <2>1. Used(leaves') = Used(leaves)
    BY <1>1, <1>4, FiledUnused
  <2>2. /\ leaves' \in Seq(Leave) /\ DOMAIN leaves \subseteq DOMAIN leaves'
        /\ \A i \in DOMAIN leaves' : leaves'[i] = l \/ (i \in DOMAIN leaves /\ leaves'[i] = leaves[i])
    BY <1>1, <1>4
  <2>3. \A i \in DOMAIN leaves' : Settled(leaves'[i])
    BY <1>1, <2>2
  <2>4. consumed' \in Nat /\ consumed' <= Balance
    BY <1>2 DEF LeavesIInv
  <2> QED BY <1>1, <1>2, <2>1, <2>2, <2>3, <2>4, LeavesKeep
<1> QED BY <1>2, <1>3, <1>4

LEMMA ApproveKeeps == ASSUME LeavesIInv, NEW c \in Clerks, Approve(c) PROVE LeavesIInv'
<1> DEFINE i == desk[c].of
           l == leaves[i]
           uses == l.type = "CL"
           days == CalendarDays(l.span)
<1>1. /\ i \in DOMAIN leaves /\ l \in Leave
      /\ leaves \in Seq(Leave) /\ IsFiniteSet(Used(leaves)) /\ consumed = Cardinality(Used(leaves))
      /\ \A j \in DOMAIN leaves : Settled(leaves[j])
      /\ consumed \in Nat /\ consumed <= Balance
  BY DEF Approve, AtDesk, LeavesIInv, Held
<1>2. desk' = [desk EXCEPT ![c] = FreeDesk]
  BY DEF Approve
<1>3. CASE uses /\ ~Covered(l.span)
  <2>1. UNCHANGED <<leaves, consumed>>
    BY <1>3 DEF Approve
  <2> QED BY <1>2, <2>1, DeskKeeps, FreeHolds
<1>4. CASE uses /\ Covered(l.span)
  <2>1. /\ leaves' = [leaves EXCEPT ![i].status = "approved", ![i].deducted = @ + 1]
        /\ consumed' = consumed + days
    BY <1>4 DEF Approve
  <2> DEFINE m == [l EXCEPT !.status = "approved", !.deducted = @ + 1]
  <2>0. l.deducted \in Nat /\ l.deducted + 1 \in Nat
    BY <1>1 DEF Leave
  <2>2. m \in Leave /\ m.span = l.span /\ m.deducted = l.deducted + 1 /\ l.deducted \in Nat
    <3> HIDE DEF l
    <3>1. l \in [type : {"CL", "LOP"}, span : Spans, status : {"pending", "approved", "rejected"},
                  direct : BOOLEAN, deducted : Nat]
      BY <1>1 DEF Leave
    <3>2. m.span = l.span /\ m.deducted = l.deducted + 1
      BY <3>1
    <3>3. m \in [type : {"CL", "LOP"}, span : Spans, status : {"pending", "approved", "rejected"},
                  direct : BOOLEAN, deducted : Nat]
      BY <2>0, <3>1
    <3> QED BY <2>0, <3>2, <3>3 DEF Leave
  <2>3. leaves' = [leaves EXCEPT ![i] = m]
    BY <1>1, <2>1
  <2> HIDE DEF m
  <2>4. /\ leaves' \in Seq(Leave) /\ DOMAIN leaves' = DOMAIN leaves /\ leaves'[i] = m
        /\ \A j \in DOMAIN leaves \ {i} : leaves'[j] = leaves[j]
    BY <1>1, <2>2, <2>3
  <2>5. /\ IsFiniteSet(Used(leaves')) /\ Cardinality(Used(leaves')) = Cardinality(Used(leaves)) + days
    BY <1>1, <2>2, <2>4, OneMore
  <2>6. Settled(m)
    BY <2>2 DEF Settled
  <2>7. \A j \in DOMAIN leaves' : Settled(leaves'[j])
    BY <1>1, <2>4, <2>6
  <2>8. days \in Nat
    <3>1. l.span \in Spans
      BY <1>1 DEF Leave
    <3> QED BY <3>1, SpanFacts DEF CalendarDays
  <2>9. consumed' \in Nat /\ consumed' <= Balance /\ consumed' = Cardinality(Used(leaves'))
    BY <1>1, <1>4, <2>1, <2>5, <2>8 DEF Covered
  <2> HIDE DEF i, l, days
  <2> QED BY <1>2, <2>4, <2>5, <2>7, <2>9, LeavesKeep
<1>5. CASE ~uses
  <2>1. leaves' = [leaves EXCEPT ![i].status = "approved", ![i].deducted = @] /\ UNCHANGED consumed
    BY <1>5 DEF Approve
  <2> DEFINE m == [l EXCEPT !.status = "approved"]
  <2>2. m \in Leave /\ m.span = l.span /\ m.deducted = l.deducted /\ m.type = l.type
    BY <1>1 DEF Leave
  <2>3. leaves' = [leaves EXCEPT ![i] = m]
    BY <1>1, <2>1 DEF Leave
  <2> HIDE DEF m
  <2>4. /\ leaves' \in Seq(Leave) /\ DOMAIN leaves' = DOMAIN leaves /\ leaves'[i] = m
        /\ \A j \in DOMAIN leaves \ {i} : leaves'[j] = leaves[j]
    BY <1>1, <2>2, <2>3
  <2>5. Used(leaves') = Used(leaves)
    BY <2>2, <2>4, SameUse
  <2>6. Settled(m)
    BY <1>5, <2>2 DEF Settled
  <2>7. \A j \in DOMAIN leaves' : Settled(leaves'[j])
    BY <1>1, <2>4, <2>6
  <2> HIDE DEF i, l, uses
  <2> QED BY <1>1, <1>2, <2>1, <2>4, <2>5, <2>7, LeavesKeep
<1> QED BY <1>3, <1>4, <1>5

LEMMA RejectKeeps == ASSUME LeavesIInv, NEW c \in Clerks, Reject(c) PROVE LeavesIInv'
<1> DEFINE i == desk[c].of
           m == [leaves[i] EXCEPT !.status = "rejected"]
<1>1. /\ i \in DOMAIN leaves /\ leaves[i] \in Leave
      /\ leaves \in Seq(Leave) /\ IsFiniteSet(Used(leaves)) /\ consumed = Cardinality(Used(leaves))
      /\ \A j \in DOMAIN leaves : Settled(leaves[j])
      /\ consumed \in Nat /\ consumed <= Balance
  BY DEF Reject, AtDesk, LeavesIInv, Held
<1>2. desk' = [desk EXCEPT ![c] = FreeDesk] /\ leaves' = [leaves EXCEPT ![i] = m] /\ UNCHANGED consumed
  BY <1>1 DEF Reject
<1>3. /\ m \in Leave /\ m.status = "rejected"
      /\ m.span = leaves[i].span /\ m.deducted = leaves[i].deducted
  BY <1>1 DEF Leave
<1> HIDE DEF m
<1>4. /\ leaves' \in Seq(Leave) /\ DOMAIN leaves' = DOMAIN leaves /\ leaves'[i] = m
      /\ \A j \in DOMAIN leaves \ {i} : leaves'[j] = leaves[j]
  BY <1>1, <1>2, <1>3
<1>5. Used(leaves') = Used(leaves)
  BY <1>3, <1>4, SameUse
<1>6. \A j \in DOMAIN leaves' : Settled(leaves'[j])
  BY <1>1, <1>3, <1>4 DEF Settled
<1> HIDE DEF i
<1> QED BY <1>1, <1>2, <1>4, <1>5, <1>6, LeavesKeep

LEMMA LeavesStep == LeavesIInv /\ [LeavesNext]_leaveVars => LeavesIInv'
<1> SUFFICES ASSUME LeavesIInv, [LeavesNext]_leaveVars PROVE LeavesIInv'
  OBVIOUS
<1>1. ASSUME NEW c \in Clerks, NEW type \in {"CL", "LOP"}, NEW span \in Spans,
             NEW status \in {"pending", "approved", "rejected"}, BeginFile(c, type, span, status)
      PROVE  LeavesIInv'
  <2> DEFINE direct == status # "pending"
             l == [type |-> type, span |-> span, status |-> status, direct |-> direct, deducted |-> 0]
             q == [pc |-> "insert", leave |-> l]
  <2>1. desk' = [desk EXCEPT ![c] = q] /\ UNCHANGED <<leaves, consumed>>
    BY <1>1 DEF BeginFile
  <2>2. direct \in BOOLEAN /\ (status = "approved" => direct)
    OBVIOUS
  <2> HIDE DEF direct
  <2>3. l \in Leave /\ l.deducted = 0 /\ Settled(l)
    BY <2>2 DEF Leave, Settled
  <2> HIDE DEF l
  <2>4. Held(q, leaves)
    BY <2>3 DEF Held
  <2> HIDE DEF q
  <2> QED BY <2>1, <2>4, DeskKeeps
<1>2. ASSUME NEW c \in Clerks, NEW i \in DOMAIN leaves, NEW decision, Open(c, i, decision)
      PROVE  LeavesIInv'
  <2> DEFINE q == [pc |-> "decide", of |-> i, decision |-> decision]
  <2>1. desk' = [desk EXCEPT ![c] = q] /\ UNCHANGED <<leaves, consumed>> /\ Held(q, leaves)
    BY <1>2 DEF Open, Held
  <2> HIDE DEF q
  <2> QED BY <2>1, DeskKeeps
<1>3. ASSUME NEW c \in Clerks, Validate(c) PROVE LeavesIInv'
  <2>1. PICK q \in {[pc |-> "approve", of |-> desk[c].of], FreeDesk} : desk' = [desk EXCEPT ![c] = q]
    BY <1>3 DEF Validate
  <2>2. UNCHANGED <<leaves, consumed>> /\ desk[c].of \in DOMAIN leaves
    BY <1>3 DEF Validate, LeavesIInv, Held, AtDesk
  <2>3. Held(q, leaves)
    BY <2>1, <2>2, FreeHolds DEF Held
  <2> QED BY <2>1, <2>2, <2>3, DeskKeeps
<1>4. ASSUME NEW c \in Clerks, File(c) \/ Reject(c) \/ Approve(c) PROVE LeavesIInv'
  BY <1>4, FileKeeps, RejectKeeps, ApproveKeeps
<1>5. CASE UNCHANGED <<leaves, consumed, desk>>
  BY <1>5 DEF LeavesIInv
<1> QED BY <1>1, <1>2, <1>3, <1>4, <1>5 DEF LeavesNext, leaveVars

LEMMA LeavesInitially == LeavesInit => LeavesIInv
<1> SUFFICES ASSUME LeavesInit PROVE LeavesIInv
  OBVIOUS
<1>1. leaves \in Seq(Leave) /\ DOMAIN leaves = {} /\ Used(leaves) = {}
  BY DEF LeavesInit, Used
<1>2. IsFiniteSet({}) /\ Cardinality({}) = 0 /\ 0 <= Balance
  BY FS_EmptySet, LeavesAssumption
<1>3. DOMAIN desk = Clerks /\ \A c \in Clerks : Held(desk[c], leaves)
  BY FreeHolds DEF LeavesInit
<1> QED BY <1>1, <1>2, <1>3 DEF LeavesInit, LeavesIInv

\* BalanceHolds: the balance of leaves is never overdrawn, it is what the approvals
\* used, and no approval of a paid leave is left out.
THEOREM BalanceAlwaysHolds == LeavesSpec => []BalanceHolds
<1>2. LeavesIInv => BalanceHolds
  <2> SUFFICES ASSUME LeavesIInv PROVE BalanceHolds
    OBVIOUS
  <2>1. Deducted = Used(leaves)
    BY DEF Deducted, Used, Block
  <2> QED BY <2>1 DEF LeavesIInv, BalanceHolds, Settled
<1> QED BY LeavesInitially, <1>2, LeavesStep, PTL DEF LeavesSpec
-----------------------------------------------------------------------------
(* Rosters *)

PlanStatuses == DOMAIN Transitions
Moves == [from : PlanStatuses, to : Targets]

\* Where the log says the plan was published.
Announced(l) == {i \in DOMAIN l : l[i].to = "published"}

\* The versions announced are those up to the plan's, which the log counts; a request
\* has loaded the plan at one of them.
RosterIInv ==
  /\ DOMAIN planner = Planners /\ plan.status \in PlanStatuses /\ plan.version \in Nat \ {0}
  /\ log \in Seq(Moves) /\ events = 2 .. plan.version
  /\ IsFiniteSet(Announced(log)) /\ plan.version = 1 + Cardinality(Announced(log))
  /\ \A p \in Planners : planner[p].pc = "move" =>
       /\ planner[p].of.version \in 1 .. plan.version
       /\ planner[p].of.status \in PlanStatuses /\ planner[p].to \in Targets

LEMMA Targeted == Targets \subseteq PlanStatuses
BY DEF Targets, PlanStatuses, Transitions

LEMMA Logged ==
  ASSUME NEW l \in Seq(Moves), NEW e \in Moves, IsFiniteSet(Announced(l))
  PROVE  /\ Append(l, e) \in Seq(Moves) /\ IsFiniteSet(Announced(Append(l, e)))
         /\ Cardinality(Announced(Append(l, e)))
              = Cardinality(Announced(l)) + (IF e.to = "published" THEN 1 ELSE 0)
<1> DEFINE n == Len(l) + 1
           k == Append(l, e)
<1>1. /\ n \in Nat /\ n \notin DOMAIN l /\ k \in Seq(Moves)
      /\ DOMAIN k = DOMAIN l \cup {n} /\ k[n] = e /\ \A i \in DOMAIN l : k[i] = l[i]
  OBVIOUS
<1> HIDE DEF n, k
<1>2. CASE e.to = "published"
  <2>1. Announced(k) = Announced(l) \cup {n} /\ n \notin Announced(l)
    BY <1>1, <1>2 DEF Announced
  <2> QED BY <1>1, <1>2, <2>1, FS_AddElement DEF k
<1>3. CASE e.to # "published"
  <2>1. Announced(k) = Announced(l)
    BY <1>1, <1>3 DEF Announced
  <2>2. Cardinality(Announced(l)) \in Nat
    BY FS_CardinalityType
  <2> QED BY <1>1, <1>3, <2>1, <2>2 DEF k
<1> QED BY <1>2, <1>3

LEMMA RosterStep == RosterIInv /\ [RosterNext]_rosterVars => RosterIInv'
<1> SUFFICES ASSUME RosterIInv, [RosterNext]_rosterVars PROVE RosterIInv'
  OBVIOUS
<1>1. ASSUME NEW p \in Planners, NEW s, planner' = [planner EXCEPT ![p] = s],
             s.pc = "move" => /\ s.of.version \in 1 .. plan.version
                              /\ s.of.status \in PlanStatuses /\ s.to \in Targets,
             UNCHANGED <<plan, log, events>>
      PROVE  RosterIInv'
  BY <1>1 DEF RosterIInv
<1>2. ASSUME NEW p \in Planners, NEW target \in Targets, LoadPlan(p, target) PROVE RosterIInv'
  <2> DEFINE s == [pc |-> "move", of |-> plan, to |-> target]
  <2>1. s.of = plan /\ s.to = target
    OBVIOUS
  <2>2. planner' = [planner EXCEPT ![p] = s] /\ UNCHANGED <<plan, log, events>>
    BY <1>2 DEF LoadPlan
  <2>3. plan.version \in 1 .. plan.version /\ plan.status \in PlanStatuses
    BY DEF RosterIInv
  <2> HIDE DEF s
  <2> QED BY <1>1, <2>1, <2>2, <2>3
<1>3. ASSUME NEW p \in Planners, Move(p) PROVE RosterIInv'
  <2> DEFINE to == planner[p].to
             version == planner[p].of.version + 1
             e == [from |-> planner[p].of.status, to |-> to]
  <2>1. /\ version \in 2 .. plan.version + 1 /\ e \in Moves /\ e.to = to /\ to \in PlanStatuses
        /\ log \in Seq(Moves) /\ IsFiniteSet(Announced(log))
    BY <1>3, Targeted DEF Move, RosterIInv, Moves
  <2>2. /\ planner' = [planner EXCEPT ![p] = NotPlanning] /\ NotPlanning.pc = "idle"
    BY <1>3 DEF Move, NotPlanning
  <2>3. CASE to = "published" /\ Taken(version)
    <3>1. UNCHANGED <<plan, log, events>>
      BY <1>3, <2>3 DEF Move
    <3> QED BY <1>1, <2>2, <3>1
  <2>4. CASE to = "published" /\ ~Taken(version)
    <3>1. /\ log' = Append(log, e) /\ plan' = [status |-> to, version |-> version]
          /\ events' = events \cup {version}
      BY <1>3, <2>4 DEF Move
    <3> HIDE DEF version, e, to
    <3>2. version = plan.version + 1
      BY <2>1, <2>4 DEF Taken, RosterIInv
    <3>3. /\ plan'.version = plan.version + 1 /\ plan'.status = to
      BY <3>1, <3>2
    <3>4. /\ log' \in Seq(Moves) /\ IsFiniteSet(Announced(log'))
          /\ Cardinality(Announced(log')) = Cardinality(Announced(log)) + 1
      BY <2>1, <2>4, <3>1, Logged
    <3>5. events' = 2 .. plan'.version
      BY <3>1, <3>2, <3>3 DEF RosterIInv
    <3>6. plan'.version = 1 + Cardinality(Announced(log'))
      <4>1. Cardinality(Announced(log)) \in Nat
        BY <2>1, FS_CardinalityType
      <4> QED BY <3>3, <3>4, <4>1 DEF RosterIInv
    <3>7. \A q \in Planners : planner'[q].pc = "move" =>
            planner[q] = planner'[q] /\ planner[q].of.version \in 1 .. plan'.version
      BY <2>2, <3>3 DEF RosterIInv
    <3> QED BY <2>1, <2>2, <3>3, <3>4, <3>5, <3>6, <3>7 DEF RosterIInv
  <2>5. CASE to # "published"
    <3>1. /\ log' = Append(log, e) /\ plan' = [status |-> to, version |-> plan.version]
          /\ events' = events
      BY <1>3, <2>5 DEF Move
    <3> HIDE DEF version, e, to
    <3>2. plan'.version = plan.version /\ plan'.status = to
      BY <3>1
    <3>3. /\ log' \in Seq(Moves) /\ IsFiniteSet(Announced(log'))
          /\ Cardinality(Announced(log')) = Cardinality(Announced(log)) + 0
      BY <2>1, <2>5, <3>1, Logged
    <3>4. Cardinality(Announced(log)) \in Nat
      BY <2>1, FS_CardinalityType
    <3> QED BY <2>1, <2>2, <3>1, <3>2, <3>3, <3>4 DEF RosterIInv
  <2> QED BY <2>3, <2>4, <2>5
<1>4. ASSUME NEW p \in Planners, BeginAssign(p) \/ Assign(p) \/ Allocate(p)
                                 \/ \E named \in BOOLEAN : BeginAllocate(p, named)
      PROVE  RosterIInv'
  <2> PICK s \in {[pc |-> "assign"], [pc |-> "allocate"], NotPlanning} :
        planner' = [planner EXCEPT ![p] = s]
    BY <1>4 DEF BeginAssign, Assign, Allocate, BeginAllocate
  <2>1. s.pc # "move"
    BY DEF NotPlanning
  <2>2. UNCHANGED <<plan, log, events>>
    BY <1>4 DEF BeginAssign, Assign, Allocate, BeginAllocate
  <2> QED BY <1>1, <2>1, <2>2
<1>5. CASE UNCHANGED rosterVars
  BY <1>5 DEF rosterVars, RosterIInv
<1> QED BY <1>2, <1>3, <1>4, <1>5 DEF RosterNext

LEMMA RosterInitially == RosterInit => RosterIInv
<1> SUFFICES ASSUME RosterInit PROVE RosterIInv
  OBVIOUS
<1>1. DOMAIN log = {} /\ log \in Seq(Moves) /\ Announced(log) = {}
  BY DEF RosterInit, Announced
<1>2. IsFiniteSet({}) /\ Cardinality({}) = 0
  BY FS_EmptySet
<1>3. /\ plan.version = 1 /\ plan.status \in PlanStatuses /\ events = {}
      /\ \A p \in Planners : planner[p].pc = "idle"
  BY DEF RosterInit, NotPlanning, PlanStatuses, Transitions
<1>4. events = 2 .. plan.version /\ plan.version \in Nat \ {0}
  BY <1>3
<1>5. IsFiniteSet(Announced(log)) /\ plan.version = 1 + Cardinality(Announced(log))
  BY <1>1, <1>2, <1>3
<1>6. DOMAIN planner = Planners
  BY DEF RosterInit
<1> QED BY <1>1, <1>3, <1>4, <1>5, <1>6 DEF RosterIInv

\* PublishedOnce holds: every version of a roster is published and announced once,
\* however many planners found it approved.
THEOREM PublishedAlwaysOnce == RosterSpec => []PublishedOnce
<1>2. RosterIInv => PublishedOnce
  <2> SUFFICES ASSUME RosterIInv PROVE PublishedOnce
    OBVIOUS
  <2>1. Publications = Cardinality(Announced(log)) /\ Cardinality(Announced(log)) \in Nat
    BY FS_CardinalityType DEF Publications, Announced, RosterIInv
  <2>2. Cardinality(events) = plan.version - 1
    <3>1. plan.version \in Nat \ {0} /\ events = 2 .. plan.version
      BY DEF RosterIInv
    <3>2. Cardinality(2 .. plan.version) = IF 2 > plan.version THEN 0 ELSE plan.version - 2 + 1
      BY <3>1, FS_Interval
    <3> QED BY <3>1, <3>2
  <2> QED BY <2>1, <2>2 DEF PublishedOnce, RosterIInv
<1> QED BY RosterInitially, <1>2, RosterStep, PTL DEF RosterSpec
------------------------------------------------------------------------------
(* Sums over finite sets *)

Pick(s) == CHOOSE x \in s : TRUE

\* The function SumFunctionOnSet goes by: the sums of f over the parts of T.
IsSum(g, T, f) == g = [s \in SUBSET T |-> IF s = {} THEN 0 ELSE f[Pick(s)] + g[s \ {Pick(s)}]]
Sum(f, T) == (CHOOSE g : IsSum(g, T, f))[T]

LEMMA SumIs == ASSUME NEW f, NEW T PROVE SumFunctionOnSet(f, T) = Sum(f, T)
BY DEF SumFunctionOnSet, FoldFunctionOnSet, MapThenFoldSet, IsSum, Pick, Sum

\* What goes over from the sets with one element less goes up to a finite set.
LEMMA PartsInduction ==
  ASSUME NEW T, IsFiniteSet(T), NEW G,
         \A s \in SUBSET T : (\A x \in s : s \ {x} \in G) => s \in G
  PROVE  SUBSET T \subseteq G
<1> DEFINE K == {n \in Nat : \A s \in SUBSET T : Cardinality(s) = n => s \in G}
<1>1. \A s \in SUBSET T : IsFiniteSet(s) /\ Cardinality(s) \in Nat
  BY FS_Subset, FS_CardinalityType
<1>2. 0 \in K
  <2> SUFFICES ASSUME NEW s \in SUBSET T, Cardinality(s) = 0 PROVE s \in G
    OBVIOUS
  <2>1. s = {}
    BY <1>1, FS_EmptySet
  <2> QED BY <2>1
<1>3. ASSUME NEW n \in Nat, n \in K PROVE n + 1 \in K
  <2> SUFFICES ASSUME NEW s \in SUBSET T, Cardinality(s) = n + 1 PROVE s \in G
    OBVIOUS
  <2>1. \A x \in s : s \ {x} \in SUBSET T /\ Cardinality(s \ {x}) = Cardinality(s) - 1
    BY <1>1, FS_RemoveElement
  <2>2. \A x \in s : s \ {x} \in SUBSET T /\ Cardinality(s \ {x}) = n
    BY <2>1
  <2> QED BY <1>3, <2>2
<1> HIDE DEF K
<1>4. Nat \subseteq K
  BY <1>2, <1>3, AllNumbers
<1> QED BY <1>1, <1>4 DEF K

LEMMA Picked == ASSUME NEW T, T # {} PROVE Pick(T) \in T
BY DEF Pick

\* What sums over parts of T sums over parts of a part.
LEMMA SumPart ==
  ASSUME NEW f, NEW g, NEW T, IsSum(g, T, f), NEW S \in SUBSET T
  PROVE  IsSum([s \in SUBSET S |-> g[s]], S, f)
<1> DEFINE h == [s \in SUBSET S |-> g[s]]
<1>1. \A s \in SUBSET T : g[s] = IF s = {} THEN 0 ELSE f[Pick(s)] + g[s \ {Pick(s)}]
  BY DEF IsSum
<1>2. \A s \in SUBSET S : h[s] = IF s = {} THEN 0 ELSE f[Pick(s)] + h[s \ {Pick(s)}]
  <2> TAKE s \in SUBSET S
  <2>1. s \in SUBSET T /\ s \ {Pick(s)} \in SUBSET S
    OBVIOUS
  <2>2. h[s] = g[s] /\ h[s \ {Pick(s)}] = g[s \ {Pick(s)}]
    BY <2>1
  <2> HIDE DEF h
  <2> QED BY <1>1, <2>1, <2>2
<1>3. h = [s \in SUBSET S |-> h[s]]
  OBVIOUS
<1> HIDE DEF h
<1>4. IsSum(h, S, f)
  BY <1>2, <1>3 DEF IsSum
<1> QED BY <1>4 DEF h

LEMMA SumUnique ==
  ASSUME NEW f, NEW T, IsFiniteSet(T), NEW g, NEW h, IsSum(g, T, f), IsSum(h, T, f)
  PROVE  g[T] = h[T]
<1> DEFINE G == {s \in SUBSET T : g[s] = h[s]}
<1>1. \A s \in SUBSET T : /\ g[s] = IF s = {} THEN 0 ELSE f[Pick(s)] + g[s \ {Pick(s)}]
                          /\ h[s] = IF s = {} THEN 0 ELSE f[Pick(s)] + h[s \ {Pick(s)}]
  BY DEF IsSum
<1>2. ASSUME NEW s \in SUBSET T, \A x \in s : s \ {x} \in G PROVE s \in G
  BY <1>1, <1>2, Picked
<1> HIDE DEF G
<1>3. SUBSET T \subseteq G
  BY <1>2, PartsInduction
<1> QED BY <1>3 DEF G

LEMMA SumNothing == ASSUME NEW f PROVE Sum(f, {}) = 0
<1> DEFINE g == [t \in SUBSET {} |-> 0]
           h == CHOOSE k : IsSum(k, {}, f)
<1>1. IsSum(g, {}, f)
  BY DEF IsSum
<1> HIDE DEF g
<1>2. IsSum(h, {}, f)
  BY <1>1
<1>3. Sum(f, {}) = h[{}]
  BY DEF Sum
<1> HIDE DEF h
<1>4. h[{}] = 0
  BY <1>2 DEF IsSum
<1> QED BY <1>3, <1>4

LEMMA SumStep ==
  ASSUME NEW f, NEW T, IsFiniteSet(T), T # {}, \E g : IsSum(g, T, f)
  PROVE  Sum(f, T) = f[Pick(T)] + Sum(f, T \ {Pick(T)})
<1> DEFINE R == T \ {Pick(T)}
           h == CHOOSE g : IsSum(g, T, f)
           k == [s \in SUBSET R |-> h[s]]
           l == CHOOSE g : IsSum(g, R, f)
<1>1. IsSum(h, T, f)
  OBVIOUS
<1>2. Sum(f, T) = h[T] /\ Sum(f, R) = l[R]
  BY DEF Sum
<1> HIDE DEF h
<1>3. h[T] = f[Pick(T)] + h[R]
  BY <1>1 DEF IsSum
<1>4. k[R] = h[R] /\ IsFiniteSet(R) /\ R \in SUBSET T
  BY FS_Subset
<1> HIDE DEF R
<1>5. IsSum(k, R, f)
  BY <1>1, <1>4, SumPart
<1> HIDE DEF k
<1>6. IsSum(l, R, f)
  BY <1>5
<1> HIDE DEF l
<1>7. l[R] = k[R]
  BY <1>4, <1>5, <1>6, SumUnique
<1> QED BY <1>2, <1>3, <1>4, <1>7 DEF R

LEMMA SumExists == ASSUME NEW f, NEW T, IsFiniteSet(T) PROVE \E g : IsSum(g, T, f)
<1> DEFINE G == {s \in SUBSET T : \A t \in SUBSET s : \E g : IsSum(g, t, f)}
<1>1. ASSUME NEW s \in SUBSET T, \A x \in s : s \ {x} \in G PROVE \E g : IsSum(g, s, f)
  <2> DEFINE r == s \ {Pick(s)}
             g == [t \in SUBSET s |-> IF t = s /\ s # {} THEN f[Pick(s)] + Sum(f, r) ELSE Sum(f, t)]
  <2>1. \A t \in SUBSET s : t # s /\ t # {} => Sum(f, t) = f[Pick(t)] + Sum(f, t \ {Pick(t)})
    <3> SUFFICES ASSUME NEW t \in SUBSET s, t # s, t # {}
                 PROVE  Sum(f, t) = f[Pick(t)] + Sum(f, t \ {Pick(t)})
      OBVIOUS
    <3>1. PICK x \in s : x \notin t
      OBVIOUS
    <3>2. t \in SUBSET (s \ {x}) /\ IsFiniteSet(t)
      BY <3>1, FS_Subset
    <3> QED BY <1>1, <3>2, SumStep
  <2>2. \A t \in SUBSET s : t # {} => t \ {Pick(t)} \in SUBSET s /\ t \ {Pick(t)} # s
    BY Picked
  <2>3. \A t \in SUBSET s : g[t] = IF t = {} THEN 0 ELSE f[Pick(t)] + g[t \ {Pick(t)}]
    <3> TAKE t \in SUBSET s
    <3>1. CASE t = {}
      BY <3>1, SumNothing
    <3>2. CASE t # {}
      <4>1. g[t \ {Pick(t)}] = Sum(f, t \ {Pick(t)})
        BY <2>2, <3>2
      <4>2. g[t] = f[Pick(t)] + Sum(f, t \ {Pick(t)})
        BY <2>1, <3>2
      <4> QED BY <3>2, <4>1, <4>2
    <3> QED BY <3>1, <3>2
  <2>4. g = [t \in SUBSET s |-> g[t]]
    OBVIOUS
  <2> HIDE DEF g
  <2>5. IsSum(g, s, f)
    BY <2>3, <2>4 DEF IsSum
  <2> QED BY <2>5
<1>2. ASSUME NEW s \in SUBSET T, \A x \in s : s \ {x} \in G PROVE s \in G
  <2>1. ASSUME NEW t \in SUBSET s PROVE \E g : IsSum(g, t, f)
    <3>1. CASE t = s
      BY <1>1, <1>2, <3>1
    <3>2. CASE t # s
      <4>1. PICK x \in s : x \notin t
        BY <3>2
      <4> QED BY <1>2, <4>1
    <3> QED BY <3>1, <3>2
  <2> QED BY <2>1
<1> HIDE DEF G
<1>3. SUBSET T \subseteq G
  BY <1>2, PartsInduction
<1> QED BY <1>3 DEF G

LEMMA SumTake ==
  ASSUME NEW f, NEW T, IsFiniteSet(T), T # {}
  PROVE  Sum(f, T) = f[Pick(T)] + Sum(f, T \ {Pick(T)}) /\ Pick(T) \in T
BY SumExists, SumStep, Picked

LEMMA SumNat ==
  ASSUME NEW T, IsFiniteSet(T), NEW f, \A x \in T : f[x] \in Nat
  PROVE  \A s \in SUBSET T : Sum(f, s) \in Nat
<1> DEFINE G == {s \in SUBSET T : Sum(f, s) \in Nat}
<1>1. ASSUME NEW s \in SUBSET T, \A x \in s : s \ {x} \in G PROVE s \in G
  <2>1. CASE s = {}
    BY <2>1, SumNothing
  <2>2. CASE s # {}
    <3>1. Sum(f, s) = f[Pick(s)] + Sum(f, s \ {Pick(s)}) /\ Pick(s) \in s
      BY <2>2, SumTake, FS_Subset
    <3> QED BY <1>1, <3>1
  <2> QED BY <2>1, <2>2
<1> HIDE DEF G
<1>2. SUBSET T \subseteq G
  BY <1>1, PartsInduction
<1> QED BY <1>2 DEF G

\* It does not matter which element is taken first.
LEMMA SumAny ==
  ASSUME NEW T, IsFiniteSet(T), NEW f, \A x \in T : f[x] \in Nat, NEW y \in T
  PROVE  Sum(f, T) = f[y] + Sum(f, T \ {y})
<1> DEFINE G == {s \in SUBSET T : \A x \in s : Sum(f, s) = f[x] + Sum(f, s \ {x})}
<1>1. \A s \in SUBSET T : Sum(f, s) \in Nat
  BY SumNat
<1>2. ASSUME NEW s \in SUBSET T, \A x \in s : s \ {x} \in G, NEW x \in s
      PROVE  Sum(f, s) = f[x] + Sum(f, s \ {x})
  <2> DEFINE p == Pick(s)
             r == (s \ {p}) \ {x}
  <2>1. Sum(f, s) = f[p] + Sum(f, s \ {p}) /\ p \in s
    BY <1>2, SumTake, FS_Subset
  <2> HIDE DEF p
  <2>2. CASE x = p
    BY <2>1, <2>2
  <2>3. CASE x # p
    <3>1. Sum(f, s \ {p}) = f[x] + Sum(f, r)
      BY <1>2, <2>1, <2>3
    <3>2. r = (s \ {x}) \ {p} /\ p \in s \ {x} /\ r \in SUBSET T
      BY <2>1, <2>3
    <3> HIDE DEF r
    <3>3. Sum(f, s \ {x}) = f[p] + Sum(f, r)
      BY <1>2, <3>2
    <3>4. Sum(f, r) \in Nat /\ f[x] \in Nat /\ f[p] \in Nat
      BY <1>1, <1>2, <2>1, <3>2
    <3> QED BY <2>1, <3>1, <3>3, <3>4
  <2> QED BY <2>2, <2>3
<1>3. ASSUME NEW s \in SUBSET T, \A x \in s : s \ {x} \in G PROVE s \in G
  BY <1>2, <1>3
<1> HIDE DEF G
<1>4. SUBSET T \subseteq G
  BY <1>3, PartsInduction
<1>5. T \in SUBSET T
  OBVIOUS
<1> QED BY <1>4, <1>5 DEF G

\* A sum depends on nothing but the values that are added.
LEMMA SumSame ==
  ASSUME NEW T, IsFiniteSet(T), NEW f, NEW g, \A x \in T : f[x] = g[x]
  PROVE  Sum(f, T) = Sum(g, T)
<1> DEFINE G == {s \in SUBSET T : Sum(f, s) = Sum(g, s)}
<1>1. ASSUME NEW s \in SUBSET T, \A x \in s : s \ {x} \in G PROVE s \in G
  <2>1. CASE s = {}
    BY <2>1, SumNothing
  <2>2. CASE s # {}
    <3>1. /\ Sum(f, s) = f[Pick(s)] + Sum(f, s \ {Pick(s)}) /\ Pick(s) \in s
          /\ Sum(g, s) = g[Pick(s)] + Sum(g, s \ {Pick(s)})
      BY <2>2, SumTake, FS_Subset
    <3> QED BY <1>1, <3>1
  <2> QED BY <2>1, <2>2
<1> HIDE DEF G
<1>2. SUBSET T \subseteq G
  BY <1>1, PartsInduction
<1> QED BY <1>2 DEF G

\* Twos add up to twice their number.
LEMMA SumTwice ==
  ASSUME NEW T, IsFiniteSet(T), NEW f, \A x \in T : f[x] = 2
  PROVE  Sum(f, T) = 2 * Cardinality(T)
<1> DEFINE G == {s \in SUBSET T : Sum(f, s) = 2 * Cardinality(s)}
<1>1. ASSUME NEW s \in SUBSET T, \A x \in s : s \ {x} \in G PROVE s \in G
  <2>1. CASE s = {}
    BY <2>1, SumNothing, FS_EmptySet
  <2>2. CASE s # {}
    <3>1. Sum(f, s) = 2 + Sum(f, s \ {Pick(s)}) /\ Pick(s) \in s
      BY <2>2, SumTake, FS_Subset
    <3>2. /\ Cardinality(s) \in Nat /\ Cardinality(s \ {Pick(s)}) = Cardinality(s) - 1
      BY <3>1, FS_RemoveElement, FS_CardinalityType, FS_Subset
    <3> QED BY <1>1, <3>1, <3>2
  <2> QED BY <2>1, <2>2
<1> HIDE DEF G
<1>2. SUBSET T \subseteq G
  BY <1>1, PartsInduction
<1> QED BY <1>2 DEF G
------------------------------------------------------------------------------
(* Payable days *)

\* What one row adds to the units of a kind.
Part(s, k) == IF s # NoRow /\ Canon(s) = k THEN RowUnits(s) ELSE 0

\* The units of a kind in any rows.
UnitsOf(rs, k) ==
  SumFunctionOnSet([d \in Period |-> RowUnits(rs[d])],
                   {d \in Period : rs[d] # NoRow /\ Canon(rs[d]) = k})

LEMMA UnitsAre ==
  /\ \A k : Units(k) = UnitsOf(rows, k)
  /\ UNCHANGED settings =>
       /\ Units("present")' = UnitsOf(rows', "present")
       /\ Units("paid_leave")' = UnitsOf(rows', "paid_leave")
       /\ Units("half_day")' = UnitsOf(rows', "half_day")
       /\ Units("absent")' = UnitsOf(rows', "absent")
       /\ Units("holiday")' = UnitsOf(rows', "holiday")
       /\ Units("week_off")' = UnitsOf(rows', "week_off")
<1> SUFFICES ASSUME UNCHANGED settings
             PROVE  /\ Units("present")' = UnitsOf(rows', "present")
                    /\ Units("paid_leave")' = UnitsOf(rows', "paid_leave")
                    /\ Units("half_day")' = UnitsOf(rows', "half_day")
                    /\ Units("absent")' = UnitsOf(rows', "absent")
                    /\ Units("holiday")' = UnitsOf(rows', "holiday")
                    /\ Units("week_off")' = UnitsOf(rows', "week_off")
  BY DEF Units, UnitsOf
<1>1. Units("present")' = UnitsOf(rows', "present")
  BY DEF Units, UnitsOf, Canon
<1>2. Units("paid_leave")' = UnitsOf(rows', "paid_leave")
  BY DEF Units, UnitsOf, Canon
<1>3. Units("half_day")' = UnitsOf(rows', "half_day")
  BY DEF Units, UnitsOf, Canon
<1>4. Units("absent")' = UnitsOf(rows', "absent")
  BY DEF Units, UnitsOf, Canon
<1>5. Units("holiday")' = UnitsOf(rows', "holiday")
  BY DEF Units, UnitsOf, Canon
<1>6. Units("week_off")' = UnitsOf(rows', "week_off")
  BY DEF Units, UnitsOf, Canon
<1> QED BY <1>1, <1>2, <1>3, <1>4, <1>5, <1>6

DaysIInv == DaysTypeOK /\ IsFiniteSet(lop)

LEMMA PeriodFacts ==
  /\ IsFiniteSet(Period) /\ Cardinality(Period) = Length /\ Length \in Nat /\ Length > 0
  /\ \A S \in SUBSET Period : IsFiniteSet(S) /\ Cardinality(S) \in Nat /\ Cardinality(S) <= Length
<1>1. IsFiniteSet(1 .. Length) /\ Cardinality(1 .. Length) = Length
  BY PeriodAssumption, FS_Interval
<1>2. IsFiniteSet(Period) /\ Cardinality(Period) = Length
  BY <1>1 DEF Period
<1>3. \A S \in SUBSET Period : IsFiniteSet(S) /\ Cardinality(S) \in Nat /\ Cardinality(S) <= Length
  BY <1>2, FS_Subset, FS_CardinalityType
<1> QED BY <1>2, <1>3, PeriodAssumption

LEMMA RowUnitsNat == \A s : RowUnits(s) \in 0 .. 2
BY DEF RowUnits

LEMMA UnitsNat == \A k : Units(k) \in Nat
<1> TAKE k
<1> DEFINE f == [d \in Period |-> RowUnits(rows[d])]
           of == {d \in Period : rows[d] # NoRow /\ Canon(rows[d]) = k}
<1>1. Units(k) = Sum(f, of)
  BY SumIs DEF Units
<1>2. \A d \in of : f[d] \in Nat
  BY RowUnitsNat
<1>3. IsFiniteSet(of)
  BY PeriodFacts
<1> HIDE DEF f, of
<1> QED BY <1>1, <1>2, <1>3, SumNat

\* A mark changes what its own row adds, and nothing else.
SameBut(d, ms, rs) == \A e \in Period \ {d} : rs[e] = ms[e]

LEMMA Remarked ==
  ASSUME NEW d \in Period, NEW ms, NEW rs, SameBut(d, ms, rs), NEW k
  PROVE  \E n \in Nat : UnitsOf(ms, k) = n + Part(ms[d], k) /\ UnitsOf(rs, k) = n + Part(rs[d], k)
<1> DEFINE f == [e \in Period |-> RowUnits(ms[e])]
           g == [e \in Period |-> RowUnits(rs[e])]
           S == {e \in Period : ms[e] # NoRow /\ Canon(ms[e]) = k}
           T == {e \in Period : rs[e] # NoRow /\ Canon(rs[e]) = k}
           R == S \ {d}
           n == Sum(f, R)
<1>1. UnitsOf(ms, k) = Sum(f, S)
  BY SumIs DEF UnitsOf
<1>2. UnitsOf(rs, k) = Sum(g, T)
  BY SumIs DEF UnitsOf
<1>3. /\ R = S \ {d} /\ R = T \ {d} /\ \A e \in R : f[e] = g[e]
      /\ d \in S <=> ms[d] # NoRow /\ Canon(ms[d]) = k
      /\ d \in T <=> rs[d] # NoRow /\ Canon(rs[d]) = k
      /\ f[d] = RowUnits(ms[d]) /\ g[d] = RowUnits(rs[d])
  BY DEF SameBut
<1>4. /\ IsFiniteSet(S) /\ IsFiniteSet(T) /\ IsFiniteSet(R)
      /\ \A e \in Period : f[e] \in Nat /\ g[e] \in Nat
  BY PeriodFacts, RowUnitsNat
<1>5. S \subseteq Period /\ T \subseteq Period /\ R \subseteq Period
  OBVIOUS
<1> HIDE DEF f, g, S, T, R
<1>6. n \in Nat /\ Sum(f, R) = n /\ Sum(g, R) = n
  BY <1>3, <1>4, <1>5, SumNat, SumSame
<1>7. d \in S => Sum(f, S) = f[d] + n
  BY <1>3, <1>4, <1>5, SumAny
<1>8. d \in T => Sum(g, T) = g[d] + n
  <2>1. d \in T => Sum(g, T) = g[d] + Sum(g, R)
    BY <1>3, <1>4, <1>5, SumAny
  <2> QED BY <1>6, <2>1
<1> HIDE DEF n
<1>9. (d \notin S => S = R) /\ (d \notin T => T = R)
  BY <1>3
<1>10. UnitsOf(ms, k) = n + Part(ms[d], k)
  <2>1. CASE d \in S
    BY <1>1, <1>3, <1>6, <1>7, <2>1, RowUnitsNat DEF Part
  <2>2. CASE d \notin S
    <3>1. Part(ms[d], k) = 0
      BY <1>3, <2>2 DEF Part
    <3>2. Sum(f, S) = n
      BY <1>6, <1>9, <2>2
    <3> QED BY <1>1, <1>6, <3>1, <3>2
  <2> QED BY <2>1, <2>2
<1>11. UnitsOf(rs, k) = n + Part(rs[d], k)
  <2>1. CASE d \in T
    BY <1>2, <1>3, <1>6, <1>8, <2>1, RowUnitsNat DEF Part
  <2>2. CASE d \notin T
    <3>1. Part(rs[d], k) = 0
      BY <1>3, <2>2 DEF Part
    <3>2. Sum(g, T) = n
      BY <1>6, <1>9, <2>2
    <3> QED BY <1>2, <1>6, <3>1, <3>2
  <2> QED BY <2>1, <2>2
<1> QED BY <1>6, <1>10, <1>11

\* Days paid as attended or on paid leave.
Earned == Units("present") + Units("paid_leave") + Units("half_day")

LEMMA PresentIs == Canon("P") \in {"present", "paid_leave", "unpaid_leave"}
BY DEF Canon

LEMMA PresentIsPaid ==
  ASSUME Canon("P") # "unpaid_leave"
  PROVE  Part("P", "present") + Part("P", "paid_leave") = 2
BY PresentIs DEF Part, RowUnits, NoRow

LEMMA PartOne ==
  ASSUME NEW s, NEW k
  PROVE  /\ Part(s, k) \in 0 .. 2
         /\ Part(s, k) > 0 => s # NoRow /\ Canon(s) = k
BY RowUnitsNat DEF Part

\* A day marked present: what it adds to the days paid, and takes from the other kinds.
LEMMA MarkPresent ==
  ASSUME DaysIInv, NEW d \in Period, rows' = [rows EXCEPT ![d] = "P"], UNCHANGED settings,
         Canon("P") # "unpaid_leave"
  PROVE  /\ Units("absent")' <= Units("absent") /\ Units("half_day")' <= Units("half_day")
         /\ Earned' >= Earned
         /\ \E h, w \in 0 .. 2 :
              /\ Units("holiday") = Units("holiday")' + h
              /\ Units("week_off") = Units("week_off")' + w
              /\ h + w <= 2 /\ (h + w > 0 => Earned' = Earned + 2)
<1> DEFINE s == rows[d]
<1>0. DOMAIN rows = Period
  BY DEF DaysIInv, DaysTypeOK
<1>a. \A k : \E n \in Nat : UnitsOf(rows, k) = n + Part(s, k) /\ UnitsOf(rows', k) = n + Part("P", k)
  <2> TAKE k
  <2>1. PICK ms, rs : ms = rows /\ rs = rows'
    OBVIOUS
  <2>2. rs[d] = "P" /\ SameBut(d, ms, rs)
    BY <1>0, <2>1 DEF SameBut
  <2>3. \E n \in Nat : UnitsOf(ms, k) = n + Part(ms[d], k) /\ UnitsOf(rs, k) = n + Part(rs[d], k)
    BY <2>2, Remarked
  <2> QED BY <2>1, <2>2, <2>3
<1> HIDE DEF s
<1>1. PICK np \in Nat : Units("present") = np + Part(s, "present") /\ Units("present")' = np + Part("P", "present")
  BY <1>a, UnitsAre
<1>2. PICK nl \in Nat : Units("paid_leave") = nl + Part(s, "paid_leave")
                        /\ Units("paid_leave")' = nl + Part("P", "paid_leave")
  BY <1>a, UnitsAre
<1>3. PICK nd \in Nat : Units("half_day") = nd + Part(s, "half_day") /\ Units("half_day")' = nd + Part("P", "half_day")
  BY <1>a, UnitsAre
<1>4. PICK na \in Nat : Units("absent") = na + Part(s, "absent") /\ Units("absent")' = na + Part("P", "absent")
  BY <1>a, UnitsAre
<1>5. PICK nh \in Nat : Units("holiday") = nh + Part(s, "holiday") /\ Units("holiday")' = nh + Part("P", "holiday")
  BY <1>a, UnitsAre
<1>6. PICK nw \in Nat : Units("week_off") = nw + Part(s, "week_off") /\ Units("week_off")' = nw + Part("P", "week_off")
  BY <1>a, UnitsAre
<1>7. /\ Part("P", "half_day") = 0 /\ Part("P", "absent") = 0
      /\ Part("P", "holiday") = 0 /\ Part("P", "week_off") = 0
  BY PresentIs DEF Part
<1>8. /\ Part("P", "present") \in 0 .. 2 /\ Part("P", "paid_leave") \in 0 .. 2
      /\ \A k : Part(s, k) \in 0 .. 2 /\ (Part(s, k) > 0 => Canon(s) = k)
  BY PartOne
<1>9. Part(s, "present") + Part(s, "paid_leave") + Part(s, "half_day") \in 0 .. 2
  BY <1>8
<1>10. Earned = np + nl + nd + (Part(s, "present") + Part(s, "paid_leave") + Part(s, "half_day"))
       /\ Earned' = np + nl + nd + 2
  <2>1. Earned' = Units("present")' + Units("paid_leave")' + Units("half_day")'
    BY DEF Earned
  <2>2. Earned' = np + nl + nd + (Part("P", "present") + Part("P", "paid_leave"))
    BY <1>1, <1>2, <1>3, <1>7, <1>8, <2>1
  <2>3. Earned = np + nl + nd + (Part(s, "present") + Part(s, "paid_leave") + Part(s, "half_day"))
    BY <1>1, <1>2, <1>3, <1>8 DEF Earned
  <2> QED BY <2>2, <2>3, PresentIsPaid
<1> DEFINE h == Part(s, "holiday")
           w == Part(s, "week_off")
<1>11. /\ Units("holiday") = Units("holiday")' + h
       /\ Units("week_off") = Units("week_off")' + w
  BY <1>5, <1>6, <1>7, <1>8
<1>12. h \in 0 .. 2 /\ w \in 0 .. 2 /\ h + w <= 2 /\ (h + w > 0 => Earned' = Earned + 2)
  <2>1. h + w > 0 => Part(s, "present") + Part(s, "paid_leave") + Part(s, "half_day") = 0
    BY <1>8
  <2>2. h + w <= 2
    BY <1>8
  <2> QED BY <1>8, <1>10, <2>1, <2>2
<1>13. Earned' >= Earned
  BY <1>9, <1>10
<1> HIDE DEF h, w
<1> QED BY <1>3, <1>4, <1>7, <1>8, <1>11, <1>12, <1>13

LEMMA CalendarFacts ==
  ASSUME DaysIInv
  PROVE  /\ settings.mode \in {"calendar", "units"} /\ settings.total \in {"calendar", "minus"}
         /\ calendar.holidays \subseteq Period /\ calendar.weekoffs \subseteq Period
         /\ Cardinality(calendar.holidays) \in Nat
         /\ Cardinality(calendar.weekoffs \ calendar.holidays) \in Nat
<1>1. calendar.holidays \subseteq Period /\ calendar.weekoffs \subseteq Period
  BY PeriodAssumption DEF DaysIInv, DaysTypeOK, Period
<1>2. settings.mode \in {"calendar", "units"} /\ settings.total \in {"calendar", "minus"}
  BY PeriodAssumption DEF DaysIInv, DaysTypeOK
<1> QED BY <1>1, <1>2, PeriodFacts

Numbers ==
  /\ {LopUnits, Cardinality(Missing), Earned, FreeUnits, TotalWorking, Absent, Lop} \subseteq Nat
  /\ {Units("present"), Units("paid_leave"), Units("half_day"), Units("absent"),
      Units("holiday"), Units("week_off")} \subseteq Nat

LEMMA AllNat == DaysIInv => Numbers
<1> SUFFICES ASSUME DaysIInv PROVE Numbers
  OBVIOUS
<1>1. LopUnits \in Nat
  <2> DEFINE f == [l \in lop |-> 2 * l.booked]
             S == {l \in lop : l.inside > 0}
  <2>1. IsFiniteSet(S) /\ \A l \in S : f[l] \in Nat
    <3>1. \A l \in lop : l.booked \in Nat
      BY PeriodAssumption DEF DaysIInv, DaysTypeOK
    <3> QED BY <3>1, FS_Subset DEF DaysIInv
  <2>2. LopUnits = Sum(f, S)
    BY SumIs DEF LopUnits
  <2> HIDE DEF f, S
  <2> QED BY <2>1, <2>2, SumNat
<1>2. Missing \subseteq Period
  BY DEF Missing, Working
<1>3. Cardinality(Missing) \in Nat
  BY <1>2, PeriodFacts
<1>4. Earned \in Nat
  BY UnitsNat DEF Earned
<1>5. FreeUnits \in Nat
  BY UnitsNat, CalendarFacts DEF FreeUnits, AtLeast
<1>6. TotalWorking \in Nat
  BY <1>5, PeriodFacts DEF TotalWorking, Minus
<1>7. Absent \in Nat
  BY <1>3, UnitsNat DEF Absent
<1>8. Lop \in Nat
  BY <1>1, <1>7, UnitsNat DEF Lop
<1> QED BY <1>1, <1>3, <1>4, <1>5, <1>6, <1>7, <1>8, UnitsNat DEF Numbers

\* min(e, t) / t does not fall when e and t both grow by the same, or e grows alone.
Share(e, t) == IF t > 0 /\ e > t THEN t ELSE e

LEMMA ShareGrows ==
  ASSUME NEW e \in Nat, NEW t \in Nat, NEW f \in Nat, NEW u \in Nat, t > 0, e <= f, t <= u,
         u = t \/ (u <= t + 2 /\ f = e + 2)
  PROVE  Share(e, t) * u <= Share(f, u) * t
<1> DEFINE a == Share(e, t)
           b == Share(f, u)
<1>1. a \in Nat /\ b \in Nat /\ a <= t /\ a <= e /\ (b = u \/ b = f)
  BY DEF Share
<1> SUFFICES a * u <= b * t
  OBVIOUS
<1> HIDE DEF a, b
<1>2. ASSUME NEW x \in Nat, NEW y \in Nat, NEW z \in Nat, x <= y PROVE x * z <= y * z
  BY <1>2
<1>3. CASE b = u
  <2>1. a * u <= t * u /\ t * u = u * t
    BY <1>1, <1>2
  <2> QED BY <1>1, <1>3, <2>1
<1>4. CASE b = f /\ u = t
  <2>1. a <= f
    BY <1>1
  <2> QED BY <1>1, <1>2, <1>4, <2>1
<1>5. CASE b = f /\ u <= t + 2 /\ f = e + 2
  <2>1. a * u <= a * (t + 2)
    <3>1. u * a <= (t + 2) * a
      BY <1>1, <1>2, <1>5
    <3> QED BY <1>1, <3>1
  <2>2. a * (t + 2) = a * t + a * 2
    BY <1>1
  <2>3. a * t + a * 2 <= e * t + 2 * t
    <3>1. a * t <= e * t
      BY <1>1, <1>2
    <3>2. a * 2 <= 2 * t
      BY <1>1
    <3> QED BY <1>1, <3>1, <3>2
  <2>4. e * t + 2 * t = f * t
    BY <1>5
  <2> QED BY <1>1, <1>5, <2>1, <2>2, <2>3, <2>4
<1> QED BY <1>1, <1>3, <1>4, <1>5

\* The factor is the share of days earned, or of days not lost.
FactorForm ==
  Factor =
    CASE ~settings.deduct -> [num |-> 1, den |-> 1]
      [] settings.deduct /\ settings.mode = "calendar" ->
           [num |-> Minus(2 * Length, Lop), den |-> 2 * Length]
      [] settings.deduct /\ settings.mode = "units" ->
           IF TotalWorking > 0 THEN [num |-> Share(Earned, TotalWorking), den |-> TotalWorking]
           ELSE [num |-> 0, den |-> 1]

LEMMA FactorIs == FactorForm
BY DEF FactorForm, Factor, Payable, Share, Earned

LEMMA NoMoreLost ==
  ASSUME NEW a \in Nat, NEW b \in Nat, a <= b, NEW f, NEW g,
         f = [num |-> Minus(2 * Length, b), den |-> 2 * Length],
         g = [num |-> Minus(2 * Length, a), den |-> 2 * Length]
  PROVE  NoMore(f, g)
<1> DEFINE m == 2 * Length
           x == Minus(m, b)
           y == Minus(m, a)
<1>1. m \in Nat
  BY PeriodFacts
<1>2. f.num = x /\ g.num = y /\ f.den = m /\ g.den = m
  OBVIOUS
<1> HIDE DEF m
<1>3. x \in Nat /\ y \in Nat /\ x <= y
  BY <1>1 DEF Minus
<1> HIDE DEF x, y
<1>4. x * m <= y * m
  BY <1>1, <1>3
<1> QED BY <1>2, <1>4 DEF NoMore

LEMMA SameFactor == ASSUME NEW f, f.num \in Nat, f.den \in Nat PROVE NoMore(f, f)
BY DEF NoMore

LEMMA DaysLater ==
  ASSUME DaysIInv, UNCHANGED <<settings, calendar>>
  PROVE  /\ Earned' = Units("present")' + Units("paid_leave")' + Units("half_day")'
         /\ FreeUnits' = AtLeast(Units("holiday")', 2 * Cardinality(calendar.holidays))
                         + AtLeast(Units("week_off")', 2 * Cardinality(calendar.weekoffs \ calendar.holidays))
         /\ TotalWorking' = IF settings.total = "calendar" THEN 2 * Length ELSE Minus(2 * Length, FreeUnits')
         /\ Absent' = Units("absent")' + (IF settings.missing = "absent" THEN 2 * Cardinality(Missing') ELSE 0)
         /\ Lop' = Absent' + LopUnits' + (IF settings.half THEN Units("half_day")' ELSE 0)
<1>1. Earned' = Units("present")' + Units("paid_leave")' + Units("half_day")'
  BY DEF Earned
<1>2. FreeUnits' = AtLeast(Units("holiday")', 2 * Cardinality(calendar.holidays))
                   + AtLeast(Units("week_off")', 2 * Cardinality(calendar.weekoffs \ calendar.holidays))
  BY DEF FreeUnits
<1>3. TotalWorking' = IF settings.total = "calendar" THEN 2 * Length ELSE Minus(2 * Length, FreeUnits')
  BY DEF TotalWorking
<1>4. Absent' = Units("absent")' + (IF settings.missing = "absent" THEN 2 * Cardinality(Missing') ELSE 0)
  BY DEF Absent
<1>5. Lop' = Absent' + LopUnits' + (IF settings.half THEN Units("half_day")' ELSE 0)
  BY DEF Lop
<1> QED BY <1>1, <1>2, <1>3, <1>4, <1>5

LEMMA PresentNeverCosts ==
  ASSUME DaysIInv, DaysIInv', NEW d \in Period, rows' = [rows EXCEPT ![d] = "P"],
         UNCHANGED <<settings, calendar, lop>>, Canon("P") # "unpaid_leave"
  PROVE  NoMore(Factor, Factor')
<1> USE DaysIInv
<1>1. /\ Units("absent")' <= Units("absent") /\ Units("half_day")' <= Units("half_day")
      /\ Earned' >= Earned
  BY MarkPresent
<1>2. PICK h, w \in 0 .. 2 :
        /\ Units("holiday") = Units("holiday")' + h
        /\ Units("week_off") = Units("week_off")' + w
        /\ h + w <= 2 /\ (h + w > 0 => Earned' = Earned + 2)
  BY MarkPresent
<1>3. CASE ~settings.deduct
  <2>1. Factor = [num |-> 1, den |-> 1] /\ Factor' = [num |-> 1, den |-> 1]
    BY <1>3 DEF Factor
  <2> QED BY <2>1 DEF NoMore
<1>0. Numbers /\ Numbers'
  <2>1. (DaysIInv => Numbers)'
    BY AllNat, PTL
  <2> QED BY <2>1, AllNat
<1>f. FactorForm /\ FactorForm'
  <2>1. FactorForm'
    BY FactorIs, PTL
  <2> QED BY <2>1, FactorIs
<1>4. CASE settings.deduct /\ settings.mode = "calendar"
  <2>1. Missing' \subseteq Missing
    <3>1. DOMAIN rows = Period
      BY DEF DaysIInv, DaysTypeOK
    <3> QED BY <3>1 DEF Missing, Working, OffDays, Canon, NoRow, Period
  <2>2. Cardinality(Missing') <= Cardinality(Missing)
    <3>1. IsFiniteSet(Missing)
      BY PeriodFacts DEF Missing, Working
    <3> QED BY <2>1, <3>1, FS_Subset
  <2>3. LopUnits' = LopUnits
    BY DEF LopUnits
  <2>4. Absent' <= Absent
    BY <1>0, <1>1, <2>2, DaysLater DEF Absent, Numbers
  <2>5. Lop' <= Lop
    BY <1>0, <1>1, <2>3, <2>4, DaysLater DEF Lop, Numbers
  <2>6. Lop \in Nat /\ Lop' \in Nat
    BY <1>0 DEF Numbers
  <2>7. /\ Factor = [num |-> Minus(2 * Length, Lop), den |-> 2 * Length]
        /\ Factor' = [num |-> Minus(2 * Length, Lop'), den |-> 2 * Length]
    BY <1>f, <1>4 DEF FactorForm
  <2> QED BY <2>5, <2>6, <2>7, NoMoreLost
<1>5. CASE settings.deduct /\ settings.mode = "units"
  <2> DEFINE e == Earned
             t == TotalWorking
             f == Earned'
             u == TotalWorking'
  <2>1. e \in Nat /\ t \in Nat /\ f \in Nat /\ u \in Nat /\ e <= f
    BY <1>0, <1>1 DEF Numbers
  <2>2. /\ Factor = IF t > 0 THEN [num |-> Share(e, t), den |-> t] ELSE [num |-> 0, den |-> 1]
        /\ Factor' = IF u > 0 THEN [num |-> Share(f, u), den |-> u] ELSE [num |-> 0, den |-> 1]
    BY <1>f, <1>5 DEF FactorForm
  <2>3. t <= u /\ (u = t \/ (u <= t + 2 /\ f = e + 2))
    <3>1. CASE settings.total = "calendar"
      BY <3>1, DaysLater, PeriodFacts DEF TotalWorking
    <3>2. CASE settings.total # "calendar"
      <4> DEFINE p == FreeUnits
                 q == FreeUnits'
      <4>1. t = Minus(2 * Length, p) /\ u = Minus(2 * Length, q)
        BY <3>2, DaysLater DEF TotalWorking
      <4>2. /\ p \in Nat /\ q \in Nat
            /\ q <= p /\ p <= q + (h + w)
        <5>1. /\ Cardinality(calendar.holidays) \in Nat
              /\ Cardinality(calendar.weekoffs \ calendar.holidays) \in Nat
          BY CalendarFacts
        <5> QED BY <1>0, <1>2, <5>1, DaysLater DEF FreeUnits, AtLeast, Numbers
      <4> HIDE DEF p, q, t, u
      <4>3. 2 * Length \in Nat
        BY PeriodFacts
      <4>4. t <= u /\ u <= t + (h + w)
        BY <4>1, <4>2, <4>3 DEF Minus
      <4>5. h + w = 0 \/ (h + w <= 2 /\ f = e + 2)
        BY <1>2
      <4> QED BY <2>1, <4>4, <4>5
    <3> QED BY <3>1, <3>2
  <2> HIDE DEF e, t, f, u
  <2>4. CASE t > 0
    <3>1. Share(e, t) * u <= Share(f, u) * t
      BY <2>1, <2>3, <2>4, ShareGrows
    <3>2. u > 0
      BY <2>1, <2>3, <2>4
    <3> QED BY <2>2, <2>4, <3>1, <3>2 DEF NoMore
  <2>5. CASE t = 0
    <3>1. Factor = [num |-> 0, den |-> 1] /\ Factor'.num \in Nat /\ Factor'.den \in Nat
      BY <2>1, <2>2, <2>5 DEF Share
    <3> QED BY <3>1 DEF NoMore
  <2> QED BY <2>1, <2>4, <2>5
<1> QED BY <1>3, <1>4, <1>5, CalendarFacts

LEMMA LeaveNeverPays ==
  ASSUME DaysIInv, DaysIInv', NEW l \in LopLeaves, lop' = lop \cup {l},
         UNCHANGED <<settings, calendar, rows>>
  PROVE  NoMore(Factor', Factor)
<1> USE DaysIInv
<1>0. Numbers /\ Numbers'
  <2>1. (DaysIInv => Numbers)'
    BY AllNat, PTL
  <2> QED BY <2>1, AllNat
<1>f. FactorForm /\ FactorForm'
  <2>1. FactorForm'
    BY FactorIs, PTL
  <2> QED BY <2>1, FactorIs
<1>1. LopUnits <= LopUnits'
  <2> DEFINE f == [m \in lop |-> 2 * m.booked]
             g == [m \in lop' |-> 2 * m.booked]
             S == {m \in lop : m.inside > 0}
             T == {m \in lop' : m.inside > 0}
  <2>1. LopUnits = Sum(f, S) /\ LopUnits' = Sum(g, T)
    BY SumIs DEF LopUnits
  <2>2. /\ T = S \/ (l \in T /\ T \ {l} = S)
        /\ S \subseteq T
        /\ \A m \in S : f[m] = g[m]
    OBVIOUS
  <2>3. IsFiniteSet(S) /\ IsFiniteSet(T) /\ \A m \in T : g[m] \in Nat
    <3>1. IsFiniteSet(lop) /\ IsFiniteSet(lop')
      BY DEF DaysIInv
    <3>2. \A m \in lop' : m.booked \in Nat
      BY PeriodAssumption DEF DaysIInv, DaysTypeOK
    <3> QED BY <3>1, <3>2, FS_Subset
  <2> HIDE DEF f, g, S, T
  <2>4. Sum(f, S) = Sum(g, S)
    BY <2>2, <2>3, SumSame
  <2>5. l \in T => Sum(g, T) = g[l] + Sum(g, T \ {l})
    BY <2>3, SumAny
  <2>6. Sum(g, S) \in Nat /\ Sum(g, T) \in Nat
    BY <2>2, <2>3, SumNat
  <2> QED BY <2>1, <2>2, <2>3, <2>4, <2>5, <2>6
<1>2. UNCHANGED <<Absent, Earned, TotalWorking, Missing>>
  BY DEF Absent, Earned, TotalWorking, FreeUnits, Units, Canon, Missing, Working, OffDays
<1>3. CASE ~settings.deduct
  <2>1. Factor = [num |-> 1, den |-> 1] /\ Factor' = [num |-> 1, den |-> 1]
    BY <1>3 DEF Factor
  <2> QED BY <2>1 DEF NoMore
<1>4. CASE settings.deduct /\ settings.mode = "calendar"
  <2>1. Lop <= Lop'
    <3>1. Units("half_day")' = Units("half_day")
      BY DEF Units, Canon
    <3> QED BY <1>0, <1>1, <1>2, <3>1, DaysLater DEF Lop, Numbers
  <2>2. Lop \in Nat /\ Lop' \in Nat
    BY <1>0 DEF Numbers
  <2>3. /\ Factor = [num |-> Minus(2 * Length, Lop), den |-> 2 * Length]
        /\ Factor' = [num |-> Minus(2 * Length, Lop'), den |-> 2 * Length]
    BY <1>f, <1>4 DEF FactorForm
  <2> QED BY <2>1, <2>2, <2>3, NoMoreLost
<1>5. CASE settings.deduct /\ settings.mode = "units"
  <2>1. Factor' = Factor
    BY <1>f, <1>2, <1>5 DEF FactorForm
  <2>2. Factor.num \in Nat /\ Factor.den \in Nat
    BY <1>0, <1>f, <1>5 DEF FactorForm, Numbers, Share
  <2> QED BY <2>1, <2>2, SameFactor
<1> QED BY <1>3, <1>4, <1>5, CalendarFacts

\* Rows that agree with the calendar mark no more days off than it has.
LEMMA OffUnits ==
  ASSUME DaysIInv, OnCalendar
  PROVE  /\ Units("holiday") <= 2 * Cardinality(calendar.holidays)
         /\ Units("week_off") <= 2 * Cardinality(calendar.weekoffs \ calendar.holidays)
<1> DEFINE f == [d \in Period |-> RowUnits(rows[d])]
           S(k) == {d \in Period : rows[d] # NoRow /\ Canon(rows[d]) = k}
<1>0. \A d \in Period : rows[d] \in Statuses \cup {NoRow}
  BY DEF DaysIInv, DaysTypeOK
<1>1. ASSUME NEW k, NEW D \in SUBSET Period, \A d \in S(k) : d \in D /\ RowUnits(rows[d]) = 2
      PROVE  Units(k) <= 2 * Cardinality(D)
  <2> DEFINE T == S(k)
  <2>1. Units(k) = Sum(f, T)
    BY SumIs DEF Units
  <2>2. T \subseteq D /\ \A d \in T : f[d] = 2
    BY <1>1
  <2> HIDE DEF f, T
  <2>3. IsFiniteSet(D) /\ IsFiniteSet(T) /\ Cardinality(T) <= Cardinality(D)
    BY <2>2, PeriodFacts, FS_Subset
  <2>4. Units(k) = 2 * Cardinality(T)
    BY <2>1, <2>2, <2>3, SumTwice
  <2>5. Cardinality(T) \in Nat /\ Cardinality(D) \in Nat
    BY <2>3, FS_CardinalityType
  <2> QED BY <2>3, <2>4, <2>5
<1>2. \A d \in S("holiday") : d \in calendar.holidays /\ RowUnits(rows[d]) = 2
  BY <1>0 DEF OnCalendar, Canon, RowUnits, Statuses
<1>3. \A d \in S("week_off") : d \in calendar.weekoffs \ calendar.holidays /\ RowUnits(rows[d]) = 2
  BY <1>0 DEF OnCalendar, Canon, RowUnits, Statuses
<1> HIDE DEF S
<1> QED BY <1>1, <1>2, <1>3, CalendarFacts

LEMMA MoreLost ==
  ASSUME NEW x \in Nat, NEW y \in Nat, NEW m \in Nat, NEW n \in Nat, NEW h \in Nat, x + h <= y
  PROVE  x + m + (n + h) <= y + m + n /\ x + m + 0 <= y + m + 0
OBVIOUS

LEMMA AbsentNeverPays ==
  ASSUME DaysIInv, DaysIInv', OnCalendar, Canon("A") = "absent", NEW d \in Period,
         rows' = [rows EXCEPT ![d] = "A"], UNCHANGED <<settings, calendar, lop>>
  PROVE  NoMore(Factor', Factor)
<1> USE DaysIInv
<1> DEFINE s == rows[d]
<1>0. Numbers /\ Numbers'
  <2>1. (DaysIInv => Numbers)'
    BY AllNat, PTL
  <2> QED BY <2>1, AllNat
<1>f. FactorForm /\ FactorForm'
  <2>1. FactorForm'
    BY FactorIs, PTL
  <2> QED BY <2>1, FactorIs
<1>d. DOMAIN rows = Period
  BY DEF DaysIInv, DaysTypeOK
<1>a. \A k : \E n \in Nat : UnitsOf(rows, k) = n + Part(s, k) /\ UnitsOf(rows', k) = n + Part("A", k)
  <2> TAKE k
  <2>1. PICK ms, rs : ms = rows /\ rs = rows'
    OBVIOUS
  <2>2. rs[d] = "A" /\ SameBut(d, ms, rs)
    BY <1>d, <2>1 DEF SameBut
  <2>3. \E n \in Nat : UnitsOf(ms, k) = n + Part(ms[d], k) /\ UnitsOf(rs, k) = n + Part(rs[d], k)
    BY <2>2, Remarked
  <2> QED BY <2>1, <2>2, <2>3
<1>p. \A k : /\ Part(s, k) \in 0 .. 2 /\ (Part(s, k) > 0 => s # NoRow /\ Canon(s) = k)
             /\ Part("A", k) = IF k = "absent" THEN 2 ELSE 0
  BY PartOne DEF Part, RowUnits, NoRow
<1> HIDE DEF s
<1>1. PICK np \in Nat : Units("present") = np + Part(s, "present") /\ Units("present")' = np + Part("A", "present")
  BY <1>a, UnitsAre
<1>2. PICK nl \in Nat : Units("paid_leave") = nl + Part(s, "paid_leave")
                        /\ Units("paid_leave")' = nl + Part("A", "paid_leave")
  BY <1>a, UnitsAre
<1>3. PICK nd \in Nat : Units("half_day") = nd + Part(s, "half_day") /\ Units("half_day")' = nd + Part("A", "half_day")
  BY <1>a, UnitsAre
<1>4. PICK na \in Nat : Units("absent") = na + Part(s, "absent") /\ Units("absent")' = na + Part("A", "absent")
  BY <1>a, UnitsAre
<1>5. PICK nh \in Nat : Units("holiday") = nh + Part(s, "holiday") /\ Units("holiday")' = nh + Part("A", "holiday")
  BY <1>a, UnitsAre
<1>6. PICK nw \in Nat : Units("week_off") = nw + Part(s, "week_off") /\ Units("week_off")' = nw + Part("A", "week_off")
  BY <1>a, UnitsAre
<1>7. Earned' <= Earned
  BY <1>1, <1>2, <1>3, <1>p, DaysLater DEF Earned
<1>8. TotalWorking' = TotalWorking
  <2>1. Units("holiday")' <= Units("holiday") /\ Units("week_off")' <= Units("week_off")
    BY <1>5, <1>6, <1>p
  <2>2. FreeUnits' = FreeUnits
    <3>1. /\ Cardinality(calendar.holidays) \in Nat
          /\ Cardinality(calendar.weekoffs \ calendar.holidays) \in Nat
      BY CalendarFacts
    <3> QED BY <1>0, <2>1, <3>1, OffUnits, DaysLater DEF FreeUnits, AtLeast, Numbers
  <2> QED BY <2>2, DaysLater DEF TotalWorking
<1>9. Lop <= Lop'
  <2>1. Missing' = Missing \ {d} /\ (d \in Missing => s = NoRow)
    BY <1>d DEF Missing, Working, OffDays, Canon, NoRow, Period, s
  <2>2. d \in Missing => Cardinality(Missing') = Cardinality(Missing) - 1
    <3>1. IsFiniteSet(Missing)
      BY PeriodFacts DEF Missing, Working
    <3> QED BY <2>1, <3>1, FS_RemoveElement
  <2>3. d \notin Missing => Missing' = Missing
    BY <2>1
  <2>4. LopUnits' = LopUnits
    BY DEF LopUnits
  <2> DEFINE c == Cardinality(Missing)
             b == Cardinality(Missing')
             pa == Part(s, "absent")
             ph == Part(s, "half_day")
  <2>5. /\ pa \in 0 .. 2 /\ ph \in 0 .. 2 /\ pa + ph <= 2
        /\ (b = c \/ (b = c - 1 /\ pa = 0 /\ ph = 0))
    <3>1. pa \in 0 .. 2 /\ ph \in 0 .. 2
      BY <1>p
    <3>2. pa + ph <= 2
      BY <1>p
    <3>3. d \in Missing => pa = 0 /\ ph = 0
      BY <1>p, <2>1
    <3> HIDE DEF pa, ph
    <3> QED BY <2>2, <2>3, <3>1, <3>2, <3>3
  <2>6. c \in Nat /\ b \in Nat /\ LopUnits \in Nat
    BY <1>0 DEF Numbers
  <2>7. /\ Units("absent") = na + pa /\ Units("absent")' = na + 2
        /\ Units("half_day") = nd + ph /\ Units("half_day")' = nd
    BY <1>3, <1>4, <1>p
  <2>8. /\ Absent = na + pa + (IF settings.missing = "absent" THEN 2 * c ELSE 0)
        /\ Absent' = na + 2 + (IF settings.missing = "absent" THEN 2 * b ELSE 0)
    BY <2>7, DaysLater DEF Absent
  <2>9. /\ Lop = Absent + LopUnits + (IF settings.half THEN nd + ph ELSE 0)
        /\ Lop' = Absent' + LopUnits + (IF settings.half THEN nd ELSE 0)
    BY <2>4, <2>7, DaysLater DEF Lop
  <2> HIDE DEF c, b, pa, ph
  <2>10. Absent \in Nat /\ Absent' \in Nat /\ Absent + ph <= Absent'
    BY <2>5, <2>6, <2>8
  <2>11. nd \in Nat /\ ph \in Nat
    BY <1>3, <2>5
  <2>12. Absent + LopUnits + (nd + ph) <= Absent' + LopUnits + nd /\ Absent + LopUnits + 0 <= Absent' + LopUnits + 0
    BY <2>6, <2>10, <2>11, MoreLost
  <2> QED BY <2>9, <2>12
<1>10. CASE ~settings.deduct
  <2>1. Factor = [num |-> 1, den |-> 1] /\ Factor' = [num |-> 1, den |-> 1]
    BY <1>10 DEF Factor
  <2> QED BY <2>1 DEF NoMore
<1>11. CASE settings.deduct /\ settings.mode = "calendar"
  <2>1. Lop \in Nat /\ Lop' \in Nat
    BY <1>0 DEF Numbers
  <2>2. /\ Factor = [num |-> Minus(2 * Length, Lop), den |-> 2 * Length]
        /\ Factor' = [num |-> Minus(2 * Length, Lop'), den |-> 2 * Length]
    BY <1>f, <1>11 DEF FactorForm
  <2> QED BY <1>9, <2>1, <2>2, NoMoreLost
<1>12. CASE settings.deduct /\ settings.mode = "units"
  <2> DEFINE e == Earned
             f == Earned'
             t == TotalWorking
  <2>1. e \in Nat /\ f \in Nat /\ t \in Nat /\ f <= e
    BY <1>0, <1>7 DEF Numbers
  <2>2. /\ Factor = IF t > 0 THEN [num |-> Share(e, t), den |-> t] ELSE [num |-> 0, den |-> 1]
        /\ Factor' = IF t > 0 THEN [num |-> Share(f, t), den |-> t] ELSE [num |-> 0, den |-> 1]
    BY <1>f, <1>8, <1>12 DEF FactorForm
  <2> HIDE DEF e, f, t
  <2>3. CASE t > 0
    <3>1. Share(f, t) * t <= Share(e, t) * t
      BY <2>1, <2>3, ShareGrows
    <3> QED BY <2>2, <2>3, <3>1 DEF NoMore
  <2>4. CASE t = 0
    BY <2>2, <2>4 DEF NoMore
  <2> QED BY <2>1, <2>3, <2>4
<1> QED BY <1>10, <1>11, <1>12, CalendarFacts

LEMMA DaysInitially == DaysInit => DaysIInv
<1> SUFFICES ASSUME DaysInit PROVE DaysIInv
  OBVIOUS
<1>1. IsFiniteSet(lop)
  BY FS_EmptySet DEF DaysInit
<1> QED BY <1>1 DEF DaysInit, DaysIInv, DaysTypeOK

LEMMA DaysStep == DaysIInv /\ [DaysNext]_daysVars => DaysIInv'
<1> SUFFICES ASSUME DaysIInv, [DaysNext]_daysVars PROVE DaysIInv'
  OBVIOUS
<1>1. ASSUME NEW d \in Period, NEW s \in Statuses, MarkDay(d, s) PROVE DaysIInv'
  BY <1>1 DEF MarkDay, DaysIInv, DaysTypeOK
<1>2. ASSUME NEW l \in LopLeaves, ApproveLop(l) PROVE DaysIInv'
  <2>1. IsFiniteSet(lop')
    BY <1>2, FS_AddElement DEF ApproveLop, DaysIInv
  <2> QED BY <1>2, <2>1 DEF ApproveLop, DaysIInv, DaysTypeOK
<1>3. CASE MarkOthers
  BY <1>3 DEF MarkOthers, DaysIInv, DaysTypeOK
<1>4. CASE UNCHANGED <<settings, calendar, rows, lop, others>>
  BY <1>4 DEF DaysIInv, DaysTypeOK
<1> QED BY <1>1, <1>2, <1>3, <1>4 DEF DaysNext, daysVars

DaysPay ==
  rows # rows' \/ lop # lop' =>
     /\ \A d \in Period :
          /\ rows[d] # "P" /\ rows' = [rows EXCEPT ![d] = "P"] /\ Canon("P") # "unpaid_leave"
               => NoMore(Factor, Factor')
          /\ rows' = [rows EXCEPT ![d] = "A"] /\ OnCalendar /\ Canon("A") = "absent"
               => NoMore(Factor', Factor)
     /\ lop # lop' => NoMore(Factor', Factor)

LEMMA StepPays == DaysIInv /\ DaysIInv' /\ [DaysNext]_daysVars => DaysPay
<1> SUFFICES ASSUME DaysIInv, DaysIInv', DaysNext PROVE DaysPay
  BY DEF daysVars, DaysPay
<1>1. ASSUME NEW e \in Period, NEW s \in Statuses, MarkDay(e, s) PROVE DaysPay
  <2>1. UNCHANGED <<settings, calendar, lop>>
    BY <1>1 DEF MarkDay
  <2>2. ASSUME NEW d \in Period, rows' = [rows EXCEPT ![d] = "P"], Canon("P") # "unpaid_leave"
        PROVE  NoMore(Factor, Factor')
    BY <2>1, <2>2, PresentNeverCosts
  <2>3. ASSUME OnCalendar, Canon("A") = "absent", NEW d \in Period, rows' = [rows EXCEPT ![d] = "A"]
        PROVE  NoMore(Factor', Factor)
    BY <2>1, <2>3, AbsentNeverPays
  <2> QED BY <2>1, <2>2, <2>3 DEF DaysPay
<1>2. ASSUME NEW l \in LopLeaves, ApproveLop(l) PROVE DaysPay
  <2>1. NoMore(Factor', Factor)
    BY <1>2, LeaveNeverPays DEF ApproveLop
  <2>2. ASSUME NEW d \in Period, rows[d] # "P" PROVE rows' # [rows EXCEPT ![d] = "P"]
    BY <1>2, <2>2 DEF ApproveLop, DaysIInv, DaysTypeOK
  <2>3. ASSUME NEW d \in Period, rows' = [rows EXCEPT ![d] = "A"] PROVE NoMore(Factor', Factor)
    BY <2>1
  <2> QED BY <2>1, <2>2, <2>3 DEF DaysPay
<1>3. CASE UNCHANGED <<rows, lop>>
  BY <1>3 DEF DaysPay
<1> QED BY <1>1, <1>2, <1>3 DEF DaysNext, MarkOthers

\* Marking a day present never lowers the factor; an approved loss-of-pay leave and,
\* with rows that agree with the calendar, a day marked absent never raise it.
THEOREM AttendanceAlwaysPays == DaysSpec => AttendancePays
<1>1. DaysIInv /\ DaysIInv' /\ [DaysNext]_daysVars =>
        [rows # rows' \/ lop # lop' =>
           /\ \A d \in Period :
                /\ rows[d] # "P" /\ rows' = [rows EXCEPT ![d] = "P"] /\ Canon("P") # "unpaid_leave"
                     => NoMore(Factor, Factor')
                /\ rows' = [rows EXCEPT ![d] = "A"] /\ OnCalendar /\ Canon("A") = "absent"
                     => NoMore(Factor', Factor)
           /\ lop # lop' => NoMore(Factor', Factor)]_daysVars
  BY StepPays DEF DaysPay
<1> QED BY <1>1, DaysInitially, DaysStep, PTL DEF DaysSpec, AttendancePays

\* A month with every working day attended and nothing against it on the days off.
FullMonth ==
  /\ settings.total = "minus" /\ OnCalendar /\ lop = {} /\ Working # {}
  /\ \A d \in Working : Canon(rows[d]) = "present"
  /\ \A d \in Period \ Working :
       rows[d] # NoRow => Canon(rows[d]) \notin {"absent", "half_day", "unknown"}

LEMMA NothingOf ==
  ASSUME NEW k, \A d \in Period : ~(rows[d] # NoRow /\ Canon(rows[d]) = k)
  PROVE  Units(k) = 0
<1> DEFINE f == [d \in Period |-> RowUnits(rows[d])]
           S == {d \in Period : rows[d] # NoRow /\ Canon(rows[d]) = k}
<1>1. Units(k) = Sum(f, S)
  BY SumIs DEF Units
<1>2. S = {}
  OBVIOUS
<1> HIDE DEF f, S
<1> QED BY <1>1, <1>2, SumNothing

\* Working days are the days the calendar does not keep free.
LEMMA WorkingDays ==
  ASSUME DaysIInv, OnCalendar
  PROVE  /\ Working = Period \ OffDays
         /\ IsFiniteSet(Working) /\ Cardinality(Working) \in Nat
         /\ 2 * Length = 2 * Cardinality(Working) + 2 * Cardinality(calendar.holidays)
                         + 2 * Cardinality(calendar.weekoffs \ calendar.holidays)
<1>1. Working = Period \ OffDays
  <2>1. \A d \in Period : Canon(rows[d]) \in {"holiday", "week_off"} => rows[d] \in {"H", "WO"}
    BY DEF Canon
  <2>2. \A d \in Period : rows[d] \in {"H", "WO"} => d \in OffDays
    BY DEF OnCalendar, OffDays
  <2> QED BY <2>1, <2>2 DEF Working
<1> DEFINE H == calendar.holidays
           W == calendar.weekoffs \ calendar.holidays
           O == Working
<1>2. H \subseteq Period /\ W \subseteq Period /\ O = Period \ (H \cup W) /\ H \cap W = {}
  BY <1>1, CalendarFacts DEF OffDays
<1> HIDE DEF H, W, O
<1>3. /\ IsFiniteSet(H) /\ IsFiniteSet(W) /\ IsFiniteSet(O)
      /\ Cardinality(H) \in Nat /\ Cardinality(W) \in Nat /\ Cardinality(O) \in Nat
  BY <1>2, PeriodFacts
<1>4. IsFiniteSet(H \cup W) /\ Cardinality(H \cup W) = Cardinality(H) + Cardinality(W)
  BY <1>2, <1>3, FS_Union, FS_EmptySet
<1>5. Cardinality(Period) = Cardinality(O) + Cardinality(H \cup W)
  <2> DEFINE U == H \cup W
  <2>1. Period = O \cup U /\ O \cap U = {}
    BY <1>2
  <2>2. IsFiniteSet(U) /\ Cardinality(U) \in Nat
    BY <1>3, <1>4
  <2> HIDE DEF U
  <2>3. Cardinality(O \cup U) = Cardinality(O) + Cardinality(U) - Cardinality(O \cap U)
    BY <1>3, <2>2, FS_Union
  <2>4. Cardinality(O \cap U) = 0
    BY <2>1, FS_EmptySet
  <2>5. Cardinality(Period) = Cardinality(O) + Cardinality(U)
    BY <1>3, <2>1, <2>2, <2>3, <2>4
  <2> QED BY <2>5 DEF U
<1>6. 2 * Length = 2 * Cardinality(O) + 2 * Cardinality(H) + 2 * Cardinality(W)
  BY <1>3, <1>4, <1>5, PeriodFacts
<1> QED BY <1>1, <1>3, <1>6 DEF H, W, O

LEMMA FullMonthPays == DaysIInv => FullMonthPaid
<1> SUFFICES ASSUME DaysIInv, FullMonth PROVE One(Factor) /\ ~BadRows
  BY DEF FullMonth, FullMonthPaid, Blocked
<1>0. Numbers
  BY AllNat
<1>1. \A d \in Period : rows[d] \in Statuses \cup {NoRow}
  BY DEF DaysIInv, DaysTypeOK
<1>2. \A d \in Working : rows[d] = "P" /\ Canon("P") = "present"
  BY DEF FullMonth, Canon
<1>3. Units("absent") = 0 /\ Units("half_day") = 0 /\ Units("unknown") = 0
  <2>1. ASSUME NEW d \in Period, NEW k \in {"absent", "half_day", "unknown"}
        PROVE  ~(rows[d] # NoRow /\ Canon(rows[d]) = k)
    <3>1. CASE d \in Working
      BY <1>2, <3>1
    <3>2. CASE d \notin Working
      BY <3>2 DEF FullMonth
    <3> QED BY <3>1, <3>2
  <2> QED BY <2>1, NothingOf
<1>4. Missing = {}
  BY <1>2 DEF Missing, NoRow
<1>5. Cardinality(Missing) = 0
  BY <1>4, FS_EmptySet
<1>6. LopUnits = 0
  <2> DEFINE f == [l \in lop |-> 2 * l.booked]
             S == {l \in lop : l.inside > 0}
  <2>1. LopUnits = Sum(f, S)
    BY SumIs DEF LopUnits
  <2>2. S = {}
    BY DEF FullMonth
  <2> HIDE DEF f, S
  <2> QED BY <2>1, <2>2, SumNothing
<1>7. ~BadRows
  BY <1>3, <1>4 DEF BadRows
<1>8. CASE ~settings.deduct
  BY <1>7, <1>8, FactorIs DEF FactorForm, One
<1>9. CASE settings.deduct /\ settings.mode = "calendar"
  <2>1. Absent = 0
    BY <1>3, <1>5 DEF Absent
  <2>2. Lop = 0
    BY <1>3, <1>6, <2>1 DEF Lop
  <2>3. Minus(2 * Length, 0) = 2 * Length
    BY PeriodFacts DEF Minus
  <2> QED BY <1>7, <1>9, <2>2, <2>3, FactorIs DEF FactorForm, One
<1>10. CASE settings.deduct /\ settings.mode = "units"
  <2> DEFINE c == Cardinality(Working)
  <2>1. c \in Nat /\ c > 0
    <3>1. IsFiniteSet(Working) /\ Working # {}
      BY PeriodFacts DEF Working, FullMonth
    <3> QED BY <3>1, FS_EmptySet, FS_CardinalityType
  <2>2. TotalWorking = 2 * c
    <3> DEFINE h == Cardinality(calendar.holidays)
               w == Cardinality(calendar.weekoffs \ calendar.holidays)
    <3>1. h \in Nat /\ w \in Nat
      BY CalendarFacts
    <3>2. FreeUnits = 2 * h + 2 * w
      <4>1. Units("holiday") \in Nat /\ Units("week_off") \in Nat
        BY UnitsNat
      <4>2. Units("holiday") <= 2 * h /\ Units("week_off") <= 2 * w
        BY OffUnits DEF FullMonth
      <4> HIDE DEF h, w
      <4>3. AtLeast(Units("holiday"), 2 * h) = 2 * h /\ AtLeast(Units("week_off"), 2 * w) = 2 * w
        BY <3>1, <4>1, <4>2 DEF AtLeast
      <4> QED BY <4>3 DEF FreeUnits, h, w
    <3>3. 2 * Length = 2 * c + 2 * h + 2 * w
      BY WorkingDays DEF FullMonth
    <3>4. TotalWorking = Minus(2 * Length, FreeUnits)
      BY DEF TotalWorking, FullMonth
    <3> HIDE DEF h, w, c
    <3> QED BY <2>1, <3>1, <3>2, <3>3, <3>4 DEF Minus
  <2>3. Units("present") >= 2 * c
    <3> DEFINE f == [d \in Period |-> RowUnits(rows[d])]
               S == {d \in Period : rows[d] # NoRow /\ Canon(rows[d]) = "present"}
    <3>1. Units("present") = Sum(f, S)
      BY SumIs DEF Units
    <3>2. \A d \in S : f[d] = 2
      <4>1. \A d \in S : rows[d] = "P"
        BY DEF Canon
      <4> QED BY <4>1 DEF RowUnits
    <3>3. Working \subseteq S
      BY <1>2 DEF NoRow, Working
    <3>4. IsFiniteSet(S)
      BY PeriodFacts
    <3> HIDE DEF f, S
    <3>5. Units("present") = 2 * Cardinality(S)
      BY <3>1, <3>2, <3>4, SumTwice
    <3>6. c <= Cardinality(S) /\ Cardinality(S) \in Nat
      BY <3>3, <3>4, FS_Subset, FS_CardinalityType
    <3> HIDE DEF c
    <3> QED BY <2>1, <3>5, <3>6
  <2> HIDE DEF c
  <2>4. Earned >= 2 * c /\ Earned \in Nat
    BY <1>0, <2>1, <2>3 DEF Earned, Numbers
  <2>5. Share(Earned, 2 * c) = 2 * c
    BY <2>1, <2>4 DEF Share
  <2>6. Factor = [num |-> 2 * c, den |-> 2 * c]
    <3>1. 2 * c > 0
      BY <2>1
    <3> QED BY <1>10, <2>2, <2>5, <3>1, FactorIs DEF FactorForm
  <2> QED BY <1>7, <2>6 DEF One
<1> QED BY <1>7, <1>8, <1>9, <1>10, CalendarFacts

\* Whoever attends every working day, with nothing against them on the days off, has a
\* factor of one, and what keeps payroll from running are the rows of others or a lock
\* that the organisation requires.
THEOREM FullMonthAlwaysPaid == DaysSpec => []FullMonthPaid
<1> QED BY FullMonthPays, DaysInitially, DaysStep, PTL DEF DaysSpec
------------------------------------------------------------------------------
(* Types *)

\* The processes of a table f that have come to k, and how many when one moves on.
At(f, k) == {p \in DOMAIN f : f[p].pc = k}

Moved(f, g, p, s) == IsFiniteSet(DOMAIN f) /\ p \in DOMAIN f /\ g = [f EXCEPT ![p] = s]

LEMMA MovedOn ==
  ASSUME NEW f, NEW g, NEW p, NEW s, Moved(f, g, p, s), NEW k
  PROVE  /\ DOMAIN g = DOMAIN f
         /\ Cardinality(At(f, k)) \in Nat /\ Cardinality(At(g, k)) \in Nat
         /\ Cardinality(At(g, k)) <= Cardinality(At(f, k)) + 1
         /\ s.pc # k => Cardinality(At(g, k)) <= Cardinality(At(f, k))
         /\ s.pc # k /\ f[p].pc = k => Cardinality(At(g, k)) = Cardinality(At(f, k)) - 1
<1> DEFINE F == At(f, k)
           G == At(g, k)
<1>1. /\ DOMAIN g = DOMAIN f /\ G \subseteq F \cup {p} /\ F \subseteq DOMAIN f
      /\ s.pc # k => G = F \ {p}
      /\ f[p].pc = k <=> p \in F
      /\ IsFiniteSet(DOMAIN f)
  BY DEF At, Moved
<1> HIDE DEF F, G
<1>2. IsFiniteSet(F) /\ Cardinality(F) \in Nat
  BY <1>1, FS_Subset, FS_CardinalityType
<1>3. IsFiniteSet(G) /\ Cardinality(G) \in Nat /\ Cardinality(G) <= Cardinality(F) + 1
  <2>1. /\ IsFiniteSet(F \cup {p})
        /\ Cardinality(F \cup {p}) = IF p \in F THEN Cardinality(F) ELSE Cardinality(F) + 1
    BY <1>2, FS_AddElement
  <2> QED BY <1>1, <1>2, <2>1, FS_Subset, FS_CardinalityType
<1>4. Cardinality(F \ {p}) = IF p \in F THEN Cardinality(F) - 1 ELSE Cardinality(F)
  BY <1>2, FS_RemoveElement
<1>5. ASSUME s.pc # k PROVE Cardinality(G) <= Cardinality(F)
  <2>1. G \subseteq F
    BY <1>1, <1>5
  <2> QED BY <1>2, <2>1, FS_Subset
<1>6. s.pc # k /\ f[p].pc = k => Cardinality(G) = Cardinality(F) - 1
  BY <1>1, <1>2, <1>4
<1> QED BY <1>1, <1>2, <1>3, <1>5, <1>6 DEF F, G

\* Leaves: every leave about to be filed still fits.
LeaveTypes ==
  /\ LeavesIInv /\ convert \in BOOLEAN
  /\ Len(leaves) + Cardinality(At(desk, "insert")) <= MaxLeaves
  /\ \A c \in Clerks : AtDesk(c) \in {"idle", "insert", "decide", "approve"}

\* A clerk goes on to s, and what is about to be filed still fits.
Seated(c, s) ==
  /\ s.pc \in {"idle", "insert", "decide", "approve"} /\ Len(leaves') \in Nat
  /\ \/ Len(leaves') <= Len(leaves) /\ s.pc # "insert"
     \/ Len(leaves') <= Len(leaves) + 1 /\ s.pc # "insert" /\ desk[c].pc = "insert"
     \/ Len(leaves') = Len(leaves) /\ Len(leaves) + Cardinality(At(desk, "insert")) < MaxLeaves

LEMMA DeskTypes ==
  ASSUME LeaveTypes, LeavesIInv', UNCHANGED convert, NEW c \in Clerks, NEW s, Seated(c, s),
         desk' = [desk EXCEPT ![c] = s]
  PROVE  LeaveTypes'
<1>1. DOMAIN desk = Clerks /\ IsFiniteSet(Clerks) /\ Len(leaves) \in Nat /\ MaxLeaves \in Nat
  BY LeavesAssumption DEF LeaveTypes, LeavesIInv
<1> DEFINE a == Cardinality(At(desk, "insert"))
           b == Cardinality(At(desk', "insert"))
<1>2. /\ DOMAIN desk' = Clerks /\ a \in Nat /\ b \in Nat /\ b <= a + 1
      /\ s.pc # "insert" => b <= a
      /\ s.pc # "insert" /\ desk[c].pc = "insert" => b = a - 1
  <2>1. PICK f, g : f = desk /\ g = desk'
    OBVIOUS
  <2>2. Moved(f, g, c, s)
    BY <1>1, <2>1 DEF Moved
  <2>3. /\ DOMAIN g = DOMAIN f
        /\ Cardinality(At(f, "insert")) \in Nat /\ Cardinality(At(g, "insert")) \in Nat
        /\ Cardinality(At(g, "insert")) <= Cardinality(At(f, "insert")) + 1
        /\ s.pc # "insert" => Cardinality(At(g, "insert")) <= Cardinality(At(f, "insert"))
        /\ s.pc # "insert" /\ f[c].pc = "insert" => Cardinality(At(g, "insert")) = Cardinality(At(f, "insert")) - 1
    BY <2>2, MovedOn
  <2> QED BY <1>1, <2>1, <2>3
<1>3. Len(leaves) + a <= MaxLeaves
  BY DEF LeaveTypes
<1> HIDE DEF a, b
<1>4. Len(leaves') + b <= MaxLeaves
  BY <1>1, <1>2, <1>3 DEF a, Seated
<1>5. \A o \in Clerks : desk'[o].pc \in {"idle", "insert", "decide", "approve"}
  BY <1>1 DEF LeaveTypes, AtDesk, Seated
<1> QED BY <1>4, <1>5 DEF LeaveTypes, AtDesk, b

LEMMA LeaveTypesStep == LeaveTypes /\ [LeavesNext]_leaveVars => LeaveTypes'
<1> SUFFICES ASSUME LeaveTypes, [LeavesNext]_leaveVars PROVE LeaveTypes'
  OBVIOUS
<1>0. LeavesIInv /\ LeavesIInv' /\ Len(leaves) \in Nat
  BY LeavesStep DEF LeaveTypes, LeavesIInv
<1>1. ASSUME NEW c \in Clerks, NEW type, NEW span, NEW status, BeginFile(c, type, span, status)
      PROVE  LeaveTypes'
  <2> DEFINE s == [pc |-> "insert", leave |-> [type |-> type, span |-> span, status |-> status,
                                               direct |-> status # "pending", deducted |-> 0]]
  <2>1. /\ s.pc = "insert" /\ desk' = [desk EXCEPT ![c] = s] /\ UNCHANGED <<convert, leaves>>
    BY <1>1 DEF BeginFile
  <2>2. Len(leaves) + Cardinality(At(desk, "insert")) < MaxLeaves
    <3>1. {o \in Clerks : AtDesk(o) = "insert"} = At(desk, "insert")
      BY <1>0 DEF At, AtDesk, LeavesIInv
    <3> QED BY <1>1, <3>1 DEF BeginFile
  <2> HIDE DEF s
  <2>3. Seated(c, s)
    BY <1>0, <2>1, <2>2 DEF Seated
  <2> QED BY <1>0, <2>1, <2>3, DeskTypes
<1>2. ASSUME NEW c \in Clerks, File(c) PROVE LeaveTypes'
  <2>1. /\ FreeDesk.pc = "idle" /\ desk' = [desk EXCEPT ![c] = FreeDesk] /\ desk[c].pc = "insert"
        /\ UNCHANGED convert
    BY <1>2 DEF File, FreeDesk, AtDesk
  <2>2. Len(leaves') \in Nat /\ Len(leaves') <= Len(leaves) + 1
    <3>1. leaves' = leaves \/ leaves' = Append(leaves, desk[c].leave)
      BY <1>2 DEF File
    <3>2. leaves \in Seq(Leave) /\ desk[c].leave \in Leave
      BY <1>0, <2>1 DEF LeavesIInv, Held
    <3> QED BY <1>0, <3>1, <3>2
  <2>3. Seated(c, FreeDesk)
    BY <1>0, <2>1, <2>2 DEF Seated
  <2> QED BY <1>0, <2>1, <2>3, DeskTypes
<1>3. ASSUME NEW c \in Clerks, NEW i, NEW decision, Open(c, i, decision) PROVE LeaveTypes'
  <2> DEFINE s == [pc |-> "decide", of |-> i, decision |-> decision]
  <2>1. s.pc = "decide" /\ desk' = [desk EXCEPT ![c] = s] /\ UNCHANGED <<convert, leaves>>
    BY <1>3 DEF Open
  <2> HIDE DEF s
  <2>2. Seated(c, s)
    BY <1>0, <2>1 DEF Seated
  <2> QED BY <1>0, <2>1, <2>2, DeskTypes
<1>4. ASSUME NEW c \in Clerks, Reject(c) \/ Approve(c) PROVE LeaveTypes'
  <2>1. /\ FreeDesk.pc = "idle" /\ desk' = [desk EXCEPT ![c] = FreeDesk] /\ UNCHANGED convert
    BY <1>4 DEF Reject, Approve, FreeDesk
  <2>2. Len(leaves') = Len(leaves)
    <3>1. leaves \in Seq(Leave) /\ leaves' \in Seq(Leave) /\ DOMAIN leaves' = DOMAIN leaves
      BY <1>0, <1>4 DEF Reject, Approve, LeavesIInv
    <3> QED BY <3>1
  <2>3. Seated(c, FreeDesk)
    BY <1>0, <2>1, <2>2 DEF Seated
  <2> QED BY <1>0, <2>1, <2>3, DeskTypes
<1>5. ASSUME NEW c \in Clerks, Validate(c) PROVE LeaveTypes'
  <2>1. PICK s \in {[pc |-> "approve", of |-> desk[c].of], FreeDesk} : desk' = [desk EXCEPT ![c] = s]
    BY <1>5 DEF Validate
  <2>2. s.pc \in {"approve", "idle"} /\ UNCHANGED <<convert, leaves>>
    BY <1>5, <2>1 DEF Validate, FreeDesk
  <2>3. Seated(c, s)
    BY <1>0, <2>2 DEF Seated
  <2> QED BY <1>0, <2>1, <2>2, <2>3, DeskTypes
<1>6. CASE UNCHANGED <<convert, leaves, consumed, desk>>
  BY <1>0, <1>6 DEF LeaveTypes, AtDesk
<1> QED BY <1>1, <1>2, <1>3, <1>4, <1>5, <1>6 DEF LeavesNext, leaveVars

LEMMA LeavesTyped == LeaveTypes => LeavesTypeOK
<1> SUFFICES ASSUME LeaveTypes PROVE LeavesTypeOK
  OBVIOUS
<1>1. Len(leaves) <= MaxLeaves
  <2>1. Cardinality(At(desk, "insert")) \in Nat
    <3>1. At(desk, "insert") \subseteq Clerks
      BY DEF At, LeaveTypes, LeavesIInv
    <3> QED BY <3>1, LeavesAssumption, FS_Subset, FS_CardinalityType
  <2>2. Len(leaves) \in Nat /\ MaxLeaves \in Nat
    BY LeavesAssumption DEF LeaveTypes, LeavesIInv
  <2> QED BY <2>1, <2>2 DEF LeaveTypes
<1> QED BY <1>1 DEF LeaveTypes, LeavesTypeOK, LeavesIInv, Held, AtDesk

\* Rosters.
Planning(q) == q.pc \in {"idle", "move", "assign", "allocate"}
RosterTypes == RosterIInv /\ \A p \in Planners : Planning(planner[p])

LEMMA RosterTypesStep == RosterTypes /\ [RosterNext]_rosterVars => RosterTypes'
<1> SUFFICES ASSUME RosterTypes, [RosterNext]_rosterVars PROVE RosterTypes'
  OBVIOUS
<1>0. RosterIInv'
  BY RosterStep DEF RosterTypes
<1>1. ASSUME NEW p \in Planners, NEW s, Planning(s), planner' = [planner EXCEPT ![p] = s]
      PROVE  RosterTypes'
  BY <1>0, <1>1 DEF RosterTypes, RosterIInv
<1>2. ASSUME NEW p \in Planners, NEW target, LoadPlan(p, target) PROVE RosterTypes'
  <2> DEFINE s == [pc |-> "move", of |-> plan, to |-> target]
  <2>1. Planning(s) /\ planner' = [planner EXCEPT ![p] = s]
    BY <1>2 DEF LoadPlan, Planning
  <2> HIDE DEF s
  <2> QED BY <1>1, <2>1
<1>3. ASSUME NEW p \in Planners, \/ Move(p) \/ BeginAssign(p) \/ Assign(p) \/ Allocate(p)
                                 \/ \E named \in BOOLEAN : BeginAllocate(p, named)
      PROVE  RosterTypes'
  <2>1. PICK s \in {[pc |-> "assign"], [pc |-> "allocate"], NotPlanning} :
          planner' = [planner EXCEPT ![p] = s]
    BY <1>3 DEF Move, BeginAssign, Assign, Allocate, BeginAllocate
  <2>2. Planning(s)
    BY DEF NotPlanning, Planning
  <2> QED BY <1>1, <2>1, <2>2
<1>4. CASE UNCHANGED rosterVars
  BY <1>0, <1>4 DEF rosterVars, RosterTypes
<1> QED BY <1>2, <1>3, <1>4 DEF RosterNext

LEMMA RosterTyped == RosterTypes => RosterTypeOK
<1> SUFFICES ASSUME RosterTypes PROVE RosterTypeOK
  OBVIOUS
<1>1. \A i \in DOMAIN log : log[i] \in Moves
  BY DEF RosterTypes, RosterIInv
<1> QED BY <1>1 DEF RosterTypes, RosterIInv, RosterTypeOK, Planning, Moves, PlanStatuses

\* Attendance: what a punch makes of a day is in its columns.
LEMMA MaxTime == ASSUME NEW S \in SUBSET Times, S # {} PROVE Max(S) \in S
<1> DEFINE G == {s \in SUBSET Times : s = {} \/ \E x \in s : \A y \in s : x >= y}
<1>1. ASSUME NEW s \in SUBSET Times, \A x \in s : s \ {x} \in G PROVE s \in G
  <2> SUFFICES ASSUME s # {} PROVE \E x \in s : \A y \in s : x >= y
    OBVIOUS
  <2>0. PICK x \in s : TRUE
    OBVIOUS
  <2>1. s \ {x} = {} \/ \E z \in s \ {x} : \A y \in s \ {x} : z >= y
    BY <1>1
  <2>2. \A y \in s : y \in Nat
    BY WorkDayAssumption
  <2>3. CASE s \ {x} = {}
    BY <2>2, <2>3
  <2>4. ASSUME NEW z \in s \ {x}, \A y \in s \ {x} : z >= y PROVE \E v \in s : \A y \in s : v >= y
    <3>1. CASE z >= x
      BY <2>4, <3>1
    <3>2. CASE ~(z >= x)
      BY <2>2, <2>4, <3>2
    <3> QED BY <3>1, <3>2
  <2> QED BY <2>1, <2>3, <2>4
<1> HIDE DEF G
<1>2. SUBSET Times \subseteq G
  BY <1>1, WorkDayAssumption, PartsInduction
<1>3. \E x \in S : \A y \in S : x >= y
  BY <1>2 DEF G
<1> QED BY <1>3 DEF Max

LEMMA FirstAndLast ==
  ASSUME NEW ps, \A p \in ps : p.at \in Times
  PROVE  FirstIn(ps) \in Times \cup {None} /\ LastOut(ps) \in Times \cup {None}
<1> DEFINE I == {p.at : p \in {q \in ps : q.type = "IN"}}
           O == {p.at : p \in {q \in ps : q.type = "OUT"}}
<1>1. /\ FirstIn(ps) = IF I = {} THEN None ELSE Min(I)
      /\ LastOut(ps) = IF O = {} THEN None ELSE Max(O)
  BY DEF FirstIn, LastOut
<1>2. I \in SUBSET Times /\ O \in SUBSET Times
  OBVIOUS
<1> HIDE DEF I, O
<1>3. I # {} => Min(I) \in I
  <2> SUFFICES ASSUME I # {} PROVE Min(I) \in I
    OBVIOUS
  <2>1. I \in SUBSET Nat
    BY <1>2, WorkDayAssumption
  <2>2. PICK x \in I : \A y \in I : x <= y
    BY <2>1, MinExists
  <2> QED BY <2>2 DEF Min
<1>4. O # {} => Max(O) \in O
  BY <1>2, MaxTime
<1> QED BY <1>1, <1>2, <1>3, <1>4

LEMMA DerivedTyped ==
  ASSUME policy \in RuleList, NEW ps, \A p \in ps : p.at \in Times
  PROVE  DayOK(Derived(ps)) /\ Derived(ps).pay # Unset
<1> DEFINE o == Outcome(ps)
           row == FromPunches(ps, o)
<1>1. OutcomeOK(o)
  BY OutcomeSound
<1>2. FirstIn(ps) \in Times \cup {None} /\ LastOut(ps) \in Times \cup {None}
  BY FirstAndLast
<1> HIDE DEF o
<1>3. /\ row.status = o.status /\ row.frac = o.frac /\ row.pay = o.frac
      /\ row.in = FirstIn(ps) /\ row.out = LastOut(ps) /\ row.by = "punch"
  BY DEF FromPunches
<1> HIDE DEF row
<1>4. DayOK(row) /\ row.pay # Unset
  BY <1>1, <1>2, <1>3 DEF DayOK, OutcomeOK, Full, Half, Unset
<1> QED BY <1>4 DEF Derived, row, o

\* What an earlier row says of a later one: it is still there, and has a paid fraction
\* if it had one.
Later(was, row) == was # NoDay => row # NoDay /\ (was.pay # Unset => row.pay # Unset)

LEMMA LaterYet ==
  ASSUME NEW a, NEW b, NEW c, Later(a, b), Later(b, c)
  PROVE  Later(a, c)
BY DEF Later

LEMMA RewrittenTyped ==
  ASSUME NEW row, NEW was, NEW new, RowOK(new), DayOK(row), DayOK(new), new.pay # Unset,
         new.by = "punch", was # NoDay, Later(was, row)
  PROVE  LET w == Rewritten(row, was, new) IN w # NoDay /\ DayOK(w) /\ w.pay # Unset
<1> DEFINE w == Rewritten(row, was, new)
<1>1. /\ DOMAIN w = RowFields
      /\ \A c \in RowFields \ {"by", "torn"} : w[c] = IF new[c] # was[c] THEN new[c] ELSE row[c]
  BY DEF Rewritten, RowOK
<1>2. /\ w.status \in {new.status, row.status} /\ w.frac \in {new.frac, row.frac}
      /\ w.in \in {new.in, row.in} /\ w.out \in {new.out, row.out}
      /\ w.pay = IF new.pay # was.pay THEN new.pay ELSE row.pay
  BY <1>1 DEF RowFields
<1>3. row # NoDay /\ new # NoDay /\ (was.pay # Unset => row.pay # Unset)
  BY RowIsThere DEF Later
<1> HIDE DEF w
<1>4. w.pay # Unset /\ w.pay \in {new.pay, row.pay}
  BY <1>2, <1>3
<1>5. w # NoDay
  BY <1>1 DEF RowFields, NoDay
<1>6. DayOK(w)
  BY <1>2, <1>3, <1>4 DEF DayOK
<1> QED BY <1>4, <1>5, <1>6 DEF w

LEMMA MarksTyped ==
  ASSUME NEW s \in {"P", "HD", "A"}
  PROVE  /\ DayOK(Marked(s))
         /\ \A old : RowOK(old) /\ DayOK(old) =>
              /\ DayOK(BulkMarked(old, s)) /\ Later(old, BulkMarked(old, s))
              /\ \A was : DayOK(Updated(old, was, s)) /\ Later(old, Updated(old, was, s))
<1>0. FractionOf(s) \in {0, Half, Full}
  BY DEF FractionOf
<1>1. DayOK(Marked(s))
  <2> DEFINE row == Marked(s)
  <2>1. /\ row.status = s /\ row.frac = FractionOf(s) /\ row.pay = Unset
        /\ row.in = None /\ row.out = None /\ row.by = "hr"
    BY DEF Marked
  <2> HIDE DEF row
  <2> DayOK(row)
    BY <1>0, <2>1 DEF DayOK
  <2> QED BY DEF row
<1>2. ASSUME NEW old, RowOK(old), DayOK(old)
      PROVE  DayOK(BulkMarked(old, s)) /\ Later(old, BulkMarked(old, s))
  <2> DEFINE row == BulkMarked(old, s)
  <2>1. /\ row.status = s /\ row.frac = FractionOf(s) /\ row.pay = old.pay
        /\ row.in = None /\ row.out = None /\ row.by = "hr" /\ DOMAIN row = RowFields
    BY <1>2 DEF BulkMarked, RowOK, RowFields
  <2>2. old # NoDay
    BY <1>2, RowIsThere
  <2> HIDE DEF row
  <2> DayOK(row) /\ Later(old, row)
    BY <1>0, <1>2, <2>1, <2>2 DEF DayOK, Later, RowFields, NoDay
  <2> QED BY DEF row
<1>3. ASSUME NEW old, RowOK(old), DayOK(old), NEW was
      PROVE  DayOK(Updated(old, was, s)) /\ Later(old, Updated(old, was, s))
  <2> DEFINE row == Updated(old, was, s)
  <2>1. /\ row.status = (IF s # was.status THEN s ELSE old.status)
        /\ row.frac = (IF FractionOf(s) # was.frac THEN FractionOf(s) ELSE old.frac)
        /\ row.pay = old.pay /\ row.in = old.in /\ row.out = old.out /\ row.by = "hr"
        /\ DOMAIN row = RowFields
    BY <1>3 DEF Updated, RowOK, RowFields
  <2>2. old # NoDay
    BY <1>3, RowIsThere
  <2> HIDE DEF row
  <2> DayOK(row) /\ Later(old, row)
    BY <1>0, <1>3, <2>1, <2>2 DEF DayOK, Later, RowFields, NoDay
  <2> QED BY DEF row
<1> QED BY <1>1, <1>2, <1>3

\* What a request has read of the day it is at.
Known(q, stored) ==
  /\ q.pc \in {"insert", "recompute", "row", "mirror"} => Later(q.copy, stored[q.day])
  /\ q.pc = "write" => Later(q.was, stored[q.day])

Entry(q) == RequestOK(q) /\ (q.pc = "insert" => q.punch.at \in Times)

Waiting(f) == {r \in Requests : f[r].pc = "insert"}

\* Every punch about to be stored still fits.
DayTypes ==
  /\ RowsIInv /\ PunchIInv
  /\ \A r \in Actors : Entry(req[r]) /\ Known(req[r], att)
  /\ \A d \in Days : DayOK(att[d])
  /\ \A i \in DOMAIN raw : raw[i].at \in Times
  /\ recomputed \cup missing \subseteq Days
  /\ Len(raw) + Cardinality(Waiting(req)) <= MaxPunches

Queued(s) ==
  /\ Entry(s) /\ Known(s, att')
  /\ s.pc # "insert" \/ Len(raw) + Cardinality(Waiting(req)) < MaxPunches
DaysTyped ==
  /\ \A d \in Days : DayOK(att'[d]) /\ Later(att[d], att'[d])
  /\ recomputed' \cup missing' \subseteq Days

LEMMA WaitingOn ==
  ASSUME NEW f, DOMAIN f = Actors, NEW r \in Actors, NEW s, NEW g, g = [f EXCEPT ![r] = s]
  PROVE  /\ Cardinality(Waiting(f)) \in Nat /\ Cardinality(Waiting(g)) \in Nat
         /\ Cardinality(Waiting(g)) <= Cardinality(Waiting(f)) + 1
         /\ s.pc # "insert" => Cardinality(Waiting(g)) <= Cardinality(Waiting(f))
         /\ s.pc # "insert" /\ r \in Requests /\ f[r].pc = "insert"
              => Cardinality(Waiting(g)) = Cardinality(Waiting(f)) - 1
<1> DEFINE F == Waiting(f)
           G == Waiting(g)
<1>1. /\ G \subseteq F \cup {r} /\ F \subseteq Requests
      /\ s.pc # "insert" => G = F \ {r}
      /\ f[r].pc = "insert" /\ r \in Requests => r \in F
      /\ IsFiniteSet(Requests)
  BY WorkDayAssumption DEF Waiting, Actors
<1> HIDE DEF F, G
<1>2. IsFiniteSet(F) /\ Cardinality(F) \in Nat
  BY <1>1, FS_Subset, FS_CardinalityType
<1>3. IsFiniteSet(G) /\ Cardinality(G) \in Nat /\ Cardinality(G) <= Cardinality(F) + 1
  <2>1. /\ IsFiniteSet(F \cup {r})
        /\ Cardinality(F \cup {r}) = IF r \in F THEN Cardinality(F) ELSE Cardinality(F) + 1
    BY <1>2, FS_AddElement
  <2> QED BY <1>1, <1>2, <2>1, FS_Subset, FS_CardinalityType
<1>4. Cardinality(F \ {r}) = IF r \in F THEN Cardinality(F) - 1 ELSE Cardinality(F)
  BY <1>2, FS_RemoveElement
<1>5. ASSUME s.pc # "insert" PROVE Cardinality(G) <= Cardinality(F)
  <2>1. G \subseteq F
    BY <1>1, <1>5
  <2> QED BY <1>2, <2>1, FS_Subset
<1>6. s.pc # "insert" /\ r \in Requests /\ f[r].pc = "insert" => Cardinality(G) = Cardinality(F) - 1
  BY <1>1, <1>2, <1>4
<1> QED BY <1>1, <1>2, <1>3, <1>5, <1>6 DEF F, G

LEMMA Stores ==
  ASSUME DayTypes
  PROVE  /\ DOMAIN req = Actors /\ Requests \subseteq Actors /\ Worker \in Actors
         /\ Len(raw) \in Nat /\ MaxPunches \in Nat
         /\ Cardinality(Waiting(req)) \in Nat /\ Inserting = Waiting(req)
<1>1. /\ DOMAIN req = Actors /\ Requests \subseteq Actors /\ Worker \in Actors
      /\ Len(raw) \in Nat /\ MaxPunches \in Nat /\ IsFiniteSet(Requests)
  BY WorkDayAssumption DEF DayTypes, RowsIInv, PunchIInv, Actors
<1>2. Cardinality(Waiting(req)) \in Nat
  BY <1>1, FS_Subset, FS_CardinalityType DEF Waiting
<1> QED BY <1>1, <1>2 DEF Waiting, Inserting

LEMMA RequestTypes ==
  ASSUME DayTypes, RowsIInv', PunchIInv', UNCHANGED raw, NEW r \in Actors, NEW s, Queued(s),
         req' = [req EXCEPT ![r] = s], DaysTyped
  PROVE  DayTypes'
<1> DEFINE a == Cardinality(Waiting(req))
           b == Cardinality(Waiting(req'))
<1>1. a \in Nat /\ b \in Nat /\ b <= a + 1 /\ (s.pc # "insert" => b <= a)
  <2>1. PICK f, g : f = req /\ g = req'
    OBVIOUS
  <2>2. DOMAIN f = Actors /\ g = [f EXCEPT ![r] = s]
    BY <2>1, Stores
  <2>3. /\ Cardinality(Waiting(f)) \in Nat /\ Cardinality(Waiting(g)) \in Nat
        /\ Cardinality(Waiting(g)) <= Cardinality(Waiting(f)) + 1
        /\ s.pc # "insert" => Cardinality(Waiting(g)) <= Cardinality(Waiting(f))
    BY <2>2, WaitingOn
  <2> QED BY <2>1, <2>3
<1>2. Len(raw) + a <= MaxPunches /\ (s.pc = "insert" => Len(raw) + a < MaxPunches)
  BY DEF DayTypes, Queued
<1> HIDE DEF a, b
<1>3. Len(raw') + b <= MaxPunches
  BY <1>1, <1>2, Stores
<1>4. ASSUME NEW q \in Actors PROVE Entry(req'[q]) /\ Known(req'[q], att')
  <2>1. CASE q = r
    BY <2>1, Stores DEF Queued
  <2>2. CASE q # r
    <3>1. req'[q] = req[q] /\ Entry(req[q]) /\ Known(req[q], att)
      BY <2>2, Stores DEF DayTypes
    <3>2. req[q].pc \notin {"idle", "mark"} => req[q].day \in Days
      BY <3>1 DEF Entry, RequestOK
    <3>3. Known(req[q], att')
      <4>1. req[q].day \in Days => Later(att[req[q].day], att'[req[q].day])
        BY DEF DaysTyped
      <4> QED BY <3>1, <3>2, <4>1, LaterYet DEF Known
    <3> QED BY <3>1, <3>3
  <2> QED BY <2>1, <2>2
<1>5. \A i \in DOMAIN raw' : raw'[i].at \in Times
  BY DEF DayTypes
<1>6. Actors' = Actors
  BY DEF Actors
<1> QED BY <1>3, <1>4, <1>5, <1>6 DEF DayTypes, DaysTyped, b

LEMMA SameDays == ASSUME DayTypes, UNCHANGED <<att, recomputed, missing>> PROVE DaysTyped
BY DEF DayTypes, DaysTyped, Later

LEMMA IdleQueued == Queued(Idle)
BY DEF Queued, Entry, RequestOK, Known, Idle

LEMMA CountedTyped == ASSUME DayTypes, NEW d, NEW p \in Counted(d) PROVE p.at \in Times
<1>1. PICK i \in DOMAIN raw : p = [type |-> raw[i].type, at |-> raw[i].at, no |-> i]
  BY DEF Counted
<1> QED BY <1>1 DEF DayTypes

LEMMA RecomputeTyped ==
  ASSUME DayTypes, NEW r \in Actors, WriteDay(r)
  PROVE  DaysTyped
<1> DEFINE q == req[r]
           d == q.day
           new == Derived(q.of)
           row == IF q.was = NoDay THEN new ELSE Rewritten(att[d], q.was, new)
<1>1. /\ q.pc = "write" /\ Entry(q) /\ Known(q, att)
      /\ \A e \in Days : DayOK(att[e])
  BY DEF WriteDay, DayTypes
<1>2. d \in Days /\ (\A p \in q.of : p.at \in Times) /\ Later(q.was, att[d])
  BY <1>1 DEF Entry, RequestOK, Known
<1>3. \/ UNCHANGED <<att, recomputed, missing>>
      \/ /\ att' = [att EXCEPT ![d] = row] /\ recomputed' = recomputed \cup {d}
         /\ missing' \subseteq missing \cup {d}
  BY DEF WriteDay
<1>4. DayOK(new) /\ new.pay # Unset /\ RowOK(new) /\ new.by = "punch"
  BY <1>2, DerivedTyped, DerivedOK DEF DayTypes, RowsIInv
<1> HIDE DEF new, q
<1>5. row # NoDay /\ DayOK(row) /\ row.pay # Unset
  <2>1. CASE q.was = NoDay
    BY <1>4, <2>1, RowIsThere
  <2>2. CASE q.was # NoDay
    BY <1>1, <1>2, <1>4, <2>2, RewrittenTyped
  <2> QED BY <2>1, <2>2
<1> HIDE DEF row, d
<1>6. CASE UNCHANGED <<att, recomputed, missing>>
  BY <1>6, SameDays
<1>7. CASE /\ att' = [att EXCEPT ![d] = row] /\ recomputed' = recomputed \cup {d}
           /\ missing' \subseteq missing \cup {d}
  <2>1. \A e \in Days : att'[e] = IF e = d THEN row ELSE att[e]
    BY <1>2, <1>7 DEF DayTypes, RowsIInv
  <2>2. \A e \in Days : DayOK(att'[e]) /\ Later(att[e], att'[e])
    BY <1>1, <1>5, <2>1 DEF Later
  <2> QED BY <1>2, <1>7, <2>2 DEF DayTypes, DaysTyped
<1> QED BY <1>3, <1>6, <1>7

LEMMA CommitTyped == ASSUME DayTypes, NEW r \in Requests, CommitMark(r) PROVE DaysTyped
<1> DEFINE q == req[r]
<1>1. /\ q.pc = "mark" /\ q.status \in {"P", "HD", "A"} /\ q.days \subseteq Days
      /\ q.how = "update" => \A d \in q.days : att[d] # NoDay
      /\ \A d \in Days : att[d] = NoDay \/ RowOK(att[d])
  BY Stores DEF CommitMark, DayTypes, RowsIInv, Begun
<1>2. \A d \in Days : DayOK(att[d])
  BY DEF DayTypes
<1>3. \/ UNCHANGED att
      \/ att' = [d \in Days |->
            CASE d \notin q.days -> att[d]
              [] d \in q.days /\ q.how = "update" -> Updated(att[d], q.was, q.status)
              [] d \in q.days /\ q.how # "update" ->
                   IF att[d] = NoDay THEN Marked(q.status) ELSE BulkMarked(att[d], q.status)]
  BY DEF CommitMark
<1>4. UNCHANGED <<recomputed, missing>>
  BY DEF CommitMark
<1> HIDE DEF q
<1>5. ASSUME NEW d \in Days PROVE DayOK(att'[d]) /\ Later(att[d], att'[d])
  <2>1. CASE att'[d] = att[d]
    BY <1>2, <2>1 DEF Later
  <2>2. CASE d \in q.days /\ q.how = "update" /\ att'[d] = Updated(att[d], q.was, q.status)
    BY <1>1, <1>2, <2>2, MarksTyped
  <2>3. CASE att'[d] = IF att[d] = NoDay THEN Marked(q.status) ELSE BulkMarked(att[d], q.status)
    <3>1. att[d] = NoDay => Later(att[d], att'[d])
      BY DEF Later
    <3> QED BY <1>1, <1>2, <2>3, <3>1, MarksTyped
  <2> QED BY <1>3, <2>1, <2>2, <2>3
<1> QED BY <1>4, <1>5 DEF DayTypes, DaysTyped

LEMMA StoreTyped ==
  ASSUME DayTypes, RowsIInv', PunchIInv', NEW r \in Requests, StorePunch(r)
  PROVE  DayTypes'
<1> DEFINE w == [day |-> req[r].day, type |-> req[r].punch.type, at |-> req[r].punch.at, dup |-> req[r].dup,
                 seen |-> Inserting = {r}]
           s == [pc |-> "recompute", day |-> req[r].day, copy |-> req[r].copy]
<1>0. DOMAIN req = Actors /\ r \in Actors /\ Actors' = Actors
  BY Stores DEF Actors
<1>1. /\ raw' = Append(raw, w) /\ req[r].pc = "insert" /\ UNCHANGED <<att, recomputed, missing>>
      /\ req' = [req EXCEPT ![r] = s]
      /\ s.pc = "recompute" /\ s.day = req[r].day /\ s.copy = req[r].copy /\ w.at = req[r].punch.at
  BY DEF StorePunch
<1> HIDE DEF w, s
<1>2. Entry(req[r]) /\ Known(req[r], att)
  BY <1>0 DEF DayTypes
<1>3. w.at \in Times /\ Entry(s) /\ Known(s, att)
  BY <1>1, <1>2 DEF Entry, RequestOK, Known
<1>4. raw \in Seq(Range(raw)) /\ \A i \in DOMAIN raw : raw[i].at \in Times
  BY DEF DayTypes, PunchIInv
<1>5. /\ Len(raw') = Len(raw) + 1 /\ DOMAIN raw' = DOMAIN raw \cup {Len(raw) + 1}
      /\ raw'[Len(raw) + 1] = w /\ \A i \in DOMAIN raw : raw'[i] = raw[i]
  <2> DEFINE R == Range(raw)
  <2>1. raw \in Seq(R)
    BY <1>4
  <2> HIDE DEF R
  <2> QED BY <1>1, <2>1
<1> DEFINE a == Cardinality(Waiting(req))
           b == Cardinality(Waiting(req'))
<1>6. a \in Nat /\ b \in Nat /\ b = a - 1
  <2>1. PICK f, g : f = req /\ g = req'
    OBVIOUS
  <2>2. DOMAIN f = Actors /\ g = [f EXCEPT ![r] = s] /\ f[r].pc = "insert" /\ s.pc # "insert"
    BY <1>0, <1>1, <2>1
  <2>3. /\ Cardinality(Waiting(f)) \in Nat /\ Cardinality(Waiting(g)) \in Nat
        /\ Cardinality(Waiting(g)) = Cardinality(Waiting(f)) - 1
    BY <1>0, <2>2, WaitingOn
  <2> QED BY <2>1, <2>3
<1>7. Len(raw) + a <= MaxPunches
  BY DEF DayTypes
<1> HIDE DEF a, b
<1>8. Len(raw') + b <= MaxPunches
  BY <1>5, <1>6, <1>7, Stores
<1>9. \A q \in Actors : Entry(req'[q]) /\ Known(req'[q], att')
  BY <1>0, <1>1, <1>3 DEF DayTypes
<1>10. \A i \in DOMAIN raw' : raw'[i].at \in Times
  BY <1>3, <1>4, <1>5
<1>11. (\A d \in Days : DayOK(att'[d])) /\ recomputed' \cup missing' \subseteq Days
  BY <1>1 DEF DayTypes
<1> QED BY <1>0, <1>8, <1>9, <1>10, <1>11 DEF DayTypes, b

LEMMA DayTypesStep == DayTypes /\ [DayNext]_dayVars => DayTypes'
<1> SUFFICES ASSUME DayTypes, [DayNext]_dayVars PROVE DayTypes'
  OBVIOUS
<1>0. RowsIInv' /\ PunchIInv' /\ Requests \subseteq Actors /\ Worker \in Actors
  BY RowsStep, PunchStep, Stores DEF DayTypes
<1>1. ASSUME NEW r \in Requests, NEW d \in Days, NEW k, NEW t \in Times, BeginIngest(r, d, [type |-> k, at |-> t])
      PROVE  DayTypes'
  <2> DEFINE p == [type |-> k, at |-> t]
             s == [pc |-> "insert", day |-> d, punch |-> p, dup |-> Duplicate(d, p), copy |-> NoDay]
  <2>1. /\ s.pc = "insert" /\ s.day = d /\ s.punch.at = t /\ s.copy = NoDay /\ req' = [req EXCEPT ![r] = s]
        /\ UNCHANGED <<raw, att, recomputed, missing>> /\ Len(raw) + Cardinality(Inserting) < MaxPunches
    BY <1>1 DEF BeginIngest
  <2> HIDE DEF s
  <2>2. Queued(s)
    BY <2>1, Stores DEF Queued, Entry, RequestOK, Known, Later
  <2> QED BY <1>0, <2>1, <2>2, SameDays, RequestTypes
<1>2. ASSUME NEW r \in Requests, StorePunch(r) PROVE DayTypes'
  BY <1>0, <1>2, StoreTyped
<1>3. ASSUME NEW r \in Actors, ReadDay(r) PROVE DayTypes'
  <2> DEFINE s == [pc |-> "row", day |-> req[r].day, of |-> Counted(req[r].day), copy |-> req[r].copy]
  <2>1. /\ Entry(req[r]) /\ Known(req[r], att) /\ req[r].pc = "recompute"
        /\ UNCHANGED <<raw, att, recomputed, missing>>
    BY <1>3 DEF ReadDay, DayTypes
  <2>2. CASE Counted(req[r].day) # {} /\ req' = [req EXCEPT ![r] = s]
    <3>1. s.pc = "row" /\ s.day = req[r].day /\ s.of = Counted(req[r].day) /\ s.copy = req[r].copy
      OBVIOUS
    <3>2. \A p \in s.of : p.at \in Times
      BY <3>1, CountedTyped
    <3> HIDE DEF s
    <3>3. Queued(s)
      BY <2>1, <2>2, <3>1, <3>2 DEF Queued, Entry, RequestOK, Known
    <3> QED BY <1>0, <2>1, <2>2, <3>3, SameDays, RequestTypes
  <2>3. CASE req' = [req EXCEPT ![r] = Idle]
    BY <1>0, <2>1, <2>3, IdleQueued, SameDays, RequestTypes
  <2> QED BY <1>3, <2>2, <2>3 DEF ReadDay, Done
<1>4. ASSUME NEW r \in Actors, ReadRow(r) PROVE DayTypes'
  <2> DEFINE was == IF req[r].copy # NoDay THEN req[r].copy ELSE att[req[r].day]
             s == [pc |-> "write", day |-> req[r].day, of |-> req[r].of, was |-> was]
  <2>1. /\ Entry(req[r]) /\ Known(req[r], att) /\ req[r].pc = "row"
        /\ UNCHANGED <<raw, att, recomputed, missing>> /\ req' = [req EXCEPT ![r] = s]
    BY <1>4 DEF ReadRow, DayTypes
  <2>2. s.pc = "write" /\ s.day = req[r].day /\ s.of = req[r].of /\ s.was = was
    OBVIOUS
  <2>3. Later(was, att[req[r].day])
    BY <2>1 DEF Known, Later
  <2> HIDE DEF s, was
  <2>4. Queued(s)
    BY <2>1, <2>2, <2>3 DEF Queued, Entry, RequestOK, Known
  <2> QED BY <1>0, <2>1, <2>4, SameDays, RequestTypes
<1>5. ASSUME NEW r \in Actors, WriteDay(r) PROVE DayTypes'
  <2>1. DaysTyped
    BY <1>5, RecomputeTyped
  <2>2. req' = [req EXCEPT ![r] = Idle] /\ UNCHANGED raw
    BY <1>5 DEF WriteDay, Done
  <2> QED BY <1>0, <2>1, <2>2, IdleQueued, RequestTypes
<1>6. ASSUME NEW r \in Requests, NEW how, NEW ds \in (SUBSET Days) \ {{}}, NEW s, BeginMark(r, how, ds, s)
      PROVE  DayTypes'
  <2> DEFINE q == [pc |-> "mark", how |-> how, days |-> ds, status |-> s,
                   was |-> IF how = "update" THEN att[CHOOSE d \in ds : TRUE] ELSE NoDay]
  <2>1. /\ q.pc = "mark" /\ q.how = how /\ q.days = ds /\ req' = [req EXCEPT ![r] = q]
        /\ UNCHANGED <<raw, att, recomputed, missing>> /\ (how # "bulk" => Cardinality(ds) = 1)
    BY <1>6 DEF BeginMark
  <2> HIDE DEF q
  <2>2. Queued(q)
    <3>1. ds # {}
      OBVIOUS
    <3> QED BY <2>1, <3>1 DEF Queued, Entry, RequestOK, Known
  <2> QED BY <1>0, <2>1, <2>2, SameDays, RequestTypes
<1>7. ASSUME NEW r \in Requests, CommitMark(r) PROVE DayTypes'
  <2>1. DaysTyped /\ UNCHANGED raw
    BY <1>7, CommitTyped DEF CommitMark
  <2> DEFINE e == CHOOSE d \in req[r].days : TRUE
  <2>2. PICK s \in {[pc |-> "refresh", day |-> e], Idle} : req' = [req EXCEPT ![r] = s]
    BY <1>7 DEF CommitMark
  <2>3. e \in Days
    <3>1. req[r].days # {} /\ req[r].days \subseteq Days
      BY <1>0, <1>7 DEF CommitMark, DayTypes, Entry, RequestOK, RowsIInv, Begun
    <3> QED BY <3>1
  <2> HIDE DEF e
  <2>4. Queued(s)
    BY <2>2, <2>3 DEF Queued, Entry, RequestOK, Known, Idle
  <2> QED BY <1>0, <2>1, <2>2, <2>4, RequestTypes
<1>8. ASSUME NEW r \in Requests, Refresh(r) PROVE DayTypes'
  <2> DEFINE s == [pc |-> "mirror", day |-> req[r].day, copy |-> att[req[r].day]]
  <2>1. /\ Entry(req[r]) /\ req[r].pc = "refresh" /\ UNCHANGED <<raw, att, recomputed, missing>>
        /\ req' = [req EXCEPT ![r] = s] /\ s.pc = "mirror" /\ s.day = req[r].day
        /\ s.copy = att[req[r].day]
    BY <1>0, <1>8 DEF Refresh, DayTypes
  <2> HIDE DEF s
  <2>2. Queued(s)
    BY <2>1 DEF Queued, Entry, RequestOK, Known, Later
  <2> QED BY <1>0, <2>1, <2>2, SameDays, RequestTypes
<1>9. ASSUME NEW r \in Requests, MirrorMark(r) PROVE DayTypes'
  <2> DEFINE p == [type |-> "IN", at |-> Min(Times)]
             s == [pc |-> "insert", day |-> req[r].day, punch |-> p, dup |-> Duplicate(req[r].day, p),
                   copy |-> req[r].copy]
  <2>1. /\ Entry(req[r]) /\ Known(req[r], att) /\ req[r].pc = "mirror"
        /\ UNCHANGED <<raw, att, recomputed, missing>>
    BY <1>0, <1>9 DEF MirrorMark, DayTypes
  <2>2. CASE Len(raw) + Cardinality(Inserting) < MaxPunches /\ req' = [req EXCEPT ![r] = s]
    <3>1. Min(Times) \in Times
      <4>1. PICK x \in Times : \A y \in Times : x <= y
        BY MinExists, WorkDayAssumption
      <4> QED BY <4>1 DEF Min
    <3>2. s.pc = "insert" /\ s.day = req[r].day /\ s.punch.at = Min(Times) /\ s.copy = req[r].copy
      OBVIOUS
    <3> HIDE DEF s
    <3>4. Queued(s)
      BY <2>1, <2>2, <3>1, <3>2, Stores DEF Queued, Entry, RequestOK, Known
    <3> QED BY <1>0, <2>1, <2>2, <3>4, SameDays, RequestTypes
  <2>3. CASE req' = [req EXCEPT ![r] = Idle]
    BY <1>0, <2>1, <2>3, IdleQueued, SameDays, RequestTypes
  <2> QED BY <1>9, <2>2, <2>3 DEF MirrorMark, Done
<1>10. CASE UNCHANGED <<raw, att, recomputed, missing, req>>
  BY <1>0, <1>10 DEF DayTypes, Actors, Waiting
<1>11. ASSUME NEW d \in Days, JobItem(d) PROVE DayTypes'
  <2> DEFINE s == [pc |-> "recompute", day |-> d, copy |-> NoDay]
  <2>1. /\ req' = req \/ req' = [req EXCEPT ![Worker] = s]
        /\ UNCHANGED <<raw, att, recomputed, missing>>
        /\ s.pc = "recompute" /\ s.day = d /\ s.copy = NoDay
    BY <1>11 DEF JobItem
  <2> HIDE DEF s
  <2>2. Queued(s)
    BY <2>1 DEF Queued, Entry, RequestOK, Known, Later
  <2> QED BY <1>0, <1>10, <2>1, <2>2, SameDays, RequestTypes
<1>12. ASSUME NEW ds, StartJob(ds) \/ EndJob PROVE UNCHANGED <<raw, att, recomputed, missing, req>>
  BY <1>12 DEF StartJob, EndJob
<1> QED BY <1>1, <1>2, <1>3, <1>4, <1>5, <1>6, <1>7, <1>8, <1>9, <1>10, <1>11, <1>12
        DEF DayNext, dayVars, MarkCalendar

LEMMA DayTyped == DayTypes => WorkDayTypeOK
<1> SUFFICES ASSUME DayTypes PROVE WorkDayTypeOK
  OBVIOUS
<1>1. Len(raw) <= MaxPunches
  BY Stores DEF DayTypes
<1> QED BY <1>1 DEF DayTypes, Entry, WorkDayTypeOK

AllTypes == DayTypes /\ LeaveTypes /\ RosterTypes /\ DaysIInv

LEMMA TypesInitially == MCInit => AllTypes
<1> SUFFICES ASSUME MCInit PROVE AllTypes
  OBVIOUS
<1>1. DayTypes
  <2>0. \A r \in Actors : req[r] = Idle
    BY DEF MCInit, DayInit
  <2>1. RowsIInv
    <3>1. \A r \in Actors : Begun(req[r], att)
      BY <2>0 DEF Begun, Idle
    <3> QED BY <3>1, WorkDayAssumption DEF MCInit, DayInit, RowsIInv, RuleList
  <2>2. DOMAIN raw = {} /\ Len(raw) = 0 /\ raw \in Seq(Range(raw))
    BY DEF MCInit, DayInit
  <2>3. PunchIInv
    <3>1. \A r \in Requests : Checked(req[r], raw)
      BY <2>0 DEF Checked, Idle, Actors
    <3> QED BY <2>2, <3>1 DEF MCInit, DayInit, PunchIInv, NoDoubleCount
  <2>4. \A r \in Actors : Entry(req[r]) /\ Known(req[r], att)
    BY <2>0 DEF Entry, RequestOK, Known, Idle
  <2>5. \A d \in Days : DayOK(att[d])
    BY DEF MCInit, DayInit, DayOK
  <2>6. Len(raw) + Cardinality(Waiting(req)) <= MaxPunches
    <3>1. Waiting(req) = {}
      BY <2>0 DEF Waiting, Idle, Actors
    <3>2. Cardinality(Waiting(req)) = 0
      BY <3>1, FS_EmptySet
    <3> QED BY <2>2, <3>2, WorkDayAssumption
  <2> QED BY <2>1, <2>2, <2>3, <2>4, <2>5, <2>6 DEF DayTypes, MCInit, DayInit
<1>2. LeaveTypes
  <2>1. Len(leaves) = 0
    BY DEF MCInit, LeavesInit
  <2>2. At(desk, "insert") = {}
    BY DEF MCInit, LeavesInit, At, FreeDesk
  <2>3. Cardinality(At(desk, "insert")) = 0
    BY <2>2, FS_EmptySet
  <2>4. LeavesIInv
    BY LeavesInitially DEF MCInit
  <2> QED BY <2>1, <2>3, <2>4, LeavesAssumption DEF LeaveTypes, MCInit, LeavesInit, AtDesk, FreeDesk
<1>3. RosterTypes
  <2>1. RosterIInv
    BY RosterInitially DEF MCInit
  <2> QED BY <2>1 DEF RosterTypes, Planning, MCInit, RosterInit, NotPlanning
<1>4. DaysIInv
  BY DaysInitially DEF MCInit
<1> QED BY <1>1, <1>2, <1>3, <1>4 DEF AllTypes

LEMMA TypesStep ==
  AllTypes /\ [MCNext]_<<dayVars, ownLeaveVars, rosterVars, ownPeriodVars, focus>> => AllTypes'
<1> SUFFICES ASSUME AllTypes, [MCNext]_<<dayVars, ownLeaveVars, rosterVars, ownPeriodVars, focus>>
             PROVE  AllTypes'
  OBVIOUS
<1>1. DayNext \/ UNCHANGED ownDayVars => DayTypes'
  <2>1. CASE UNCHANGED ownDayVars
    BY <2>1 DEF AllTypes, ownDayVars, DayTypes, RowsIInv, PunchIInv, NoDoubleCount, Actors, Waiting
  <2> QED BY <2>1, DayTypesStep DEF AllTypes
<1>2. LeavesNext \/ UNCHANGED ownLeaveVars => LeaveTypes'
  <2>1. CASE UNCHANGED ownLeaveVars
    BY <2>1 DEF AllTypes, ownLeaveVars, LeaveTypes, LeavesIInv, AtDesk
  <2> QED BY <2>1, LeaveTypesStep DEF AllTypes
<1>3. [RosterNext]_rosterVars => RosterTypes'
  BY RosterTypesStep DEF AllTypes
<1>4. DaysNext \/ UNCHANGED ownPeriodVars => DaysIInv'
  <2>1. CASE UNCHANGED ownPeriodVars
    BY <2>1 DEF AllTypes, ownPeriodVars, DaysIInv, DaysTypeOK
  <2> QED BY <2>1, DaysStep DEF AllTypes
<1>5. /\ DayNext \/ UNCHANGED ownDayVars
      /\ LeavesNext \/ UNCHANGED ownLeaveVars
      /\ [RosterNext]_rosterVars /\ (DaysNext \/ UNCHANGED ownPeriodVars)
  BY DEF MCNext, dayVars, ownDayVars
<1> QED BY <1>1, <1>2, <1>3, <1>4, <1>5 DEF AllTypes

\* WorkforceTypeOK: attendance, leaves, rosters and payable days keep their types, and
\* punches and leaves that wait to be stored never outgrow the bounds.
THEOREM WorkforceTyped == MCSpec => []WorkforceTypeOK
<1>1. AllTypes => WorkforceTypeOK
  BY DayTyped, LeavesTyped, RosterTyped DEF AllTypes, WorkforceTypeOK, DaysIInv
<1> QED BY <1>1, TypesInitially, TypesStep, PTL DEF MCSpec
=============================================================================
