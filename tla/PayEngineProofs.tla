--------------------------- MODULE PayEngineProofs ---------------------------
(***************************************************************************)
(* Theorems about PayEngine, for every bundle: the sort is right, the pay  *)
(* is what the definitions say, a short month reaches every earning, and   *)
(* the calculators agree.                                                  *)
(***************************************************************************)
EXTENDS PayEngine, FiniteSetTheorems, SequenceTheorems, NaturalsInduction, TLAPS

(* Numbers *)

\* A set of natural numbers that is not empty has a smallest one ...
LEMMA MinExists ==
  ASSUME NEW S \in SUBSET Nat, S # {}
  PROVE  \E x \in S : \A y \in S : x <= y
<1>1. PICK x \in S : \A y \in S : ~(<<y, x>> \in OpToRel(<, Nat))
  BY NatLessThanWellFounded, WFMin
<1>2. \A y \in S : ~(y < x)
  BY <1>1 DEF OpToRel
<1> QED BY <1>2

\* ... so that a set that has 0, and with a number the next, has them all.
LEMMA AllNumbers ==
  ASSUME NEW K, 0 \in K, \A n \in Nat : n \in K => n + 1 \in K
  PROVE  Nat \subseteq K
<1> SUFFICES ASSUME Nat \ K # {} PROVE FALSE
  OBVIOUS
<1>1. PICK x \in Nat \ K : \A y \in Nat \ K : x <= y
  BY MinExists
<1>2. x # 0 /\ x - 1 \in Nat
  BY <1>1
<1>3. x - 1 \in K
  BY <1>1, <1>2
<1> QED BY <1>1, <1>2, <1>3

\* The greatest of finitely many numbers is one of them.
LEMMA MaxExists ==
  ASSUME NEW S \in SUBSET Nat, IsFiniteSet(S), S # {}
  PROVE  Max(S) \in S /\ \A y \in S : Max(S) >= y
<1> DEFINE Above(x) == {y \in S : y > x}
           T == {Above(x) : x \in S}
<1>1. IsWellFoundedOn(StrictSubsetOrdering(S), SUBSET S)
  BY FS_StrictSubsetOrderingWellFounded, FS_FiniteSubsetsOfFinite
<1>2. T \subseteq SUBSET S /\ T # {}
  OBVIOUS
<1>3. PICK t \in T : \A u \in T : ~(<<u, t>> \in StrictSubsetOrdering(S))
  BY <1>1, <1>2, WFMin
<1>4. PICK x \in S : t = Above(x)
  BY <1>3
<1>5. ASSUME NEW y \in S, y > x PROVE FALSE
  <2>1. Above(y) \subseteq Above(x)
    <3>1. \A z \in S : z \in Nat
      OBVIOUS
    <3>2. \A z \in S : z > y => z > x
      BY <1>5, <3>1
    <3> QED BY <3>2
  <2>2. y \in Above(x) /\ y \notin Above(y)
    BY <1>5
  <2>3. <<Above(y), Above(x)>> \in StrictSubsetOrdering(S)
    BY <1>2, <2>1, <2>2 DEF StrictSubsetOrdering
  <2> QED BY <1>3, <1>4, <2>3
<1>6. \A y \in S : x >= y
  BY <1>5
<1> QED BY <1>6 DEF Max
------------------------------------------------------------------------------
(* The bundle *)

\* Nodes of the graph by kind.
CompNode(k) == <<"comp", k>>
VarNode(v) == <<"dv", v>>
GroupNode(g) == <<"grp", g>>

\* What EngineAssumption says of the bundle of a run.
LEMMA BundleFacts ==
  ASSUME setup \in Setups
  PROVE  /\ NoCode \notin Names /\ setup.short \in BOOLEAN /\ setup.vars \subseteq Names
         /\ setup.template \in Seq(Comps) /\ \A g \in DOMAIN setup.items : setup.items[g] \in Seq(Comps)
         /\ \A c \in Comps : /\ Code(c) \in Names \cup {NoCode} /\ setup.name[c] \in Names
                             /\ IsFiniteSet(Definition(c).of) /\ Definition(c).of \subseteq Names
                             /\ Definition(c).how = "days" => setup.signal[c]
         /\ \A v \in setup.vars : /\ setup.expr[v].how \in {"formula", "days", "broken"}
                                  /\ IsFiniteSet(setup.expr[v].of) /\ setup.expr[v].of \subseteq Names
         /\ Nodes \subseteq SortedSet
<1>1. /\ NoCode \notin Names /\ setup.short \in BOOLEAN /\ setup.vars \subseteq Names
      /\ setup.template \in Seq(Comps) /\ \A g \in DOMAIN setup.items : setup.items[g] \in Seq(Comps)
  BY EngineAssumption DEF Comps, Template, Items
<1>2. \A c \in Comps : /\ Code(c) \in Names \cup {NoCode} /\ setup.name[c] \in Names
                       /\ IsFiniteSet(Definition(c).of) /\ Definition(c).of \subseteq Names
                       /\ Definition(c).how = "days" => setup.signal[c]
  BY EngineAssumption DEF Comps, Template, Items, Code, Definition
<1>3. \A v \in setup.vars : /\ setup.expr[v].how \in {"formula", "days", "broken"}
                            /\ IsFiniteSet(setup.expr[v].of) /\ setup.expr[v].of \subseteq Names
  BY EngineAssumption
<1>4. Nodes \subseteq SortedSet
  <2>1. {<<"comp", Code(c)>> : c \in {d \in Template : Code(d) # NoCode}}
          \cup {<<"dv", v>> : v \in setup.vars} \cup {<<"grp", g>> : g \in DOMAIN setup.items}
          \cup {<<"sys", g>> : g \in DOMAIN setup.statutory} \subseteq SortedSet
    BY EngineAssumption DEF Template, Code, SortedSet
  <2>2. {<<"comp", k>> : k \in TemplateCodes}
          = {<<"comp", Code(c)>> : c \in {d \in Template : Code(d) # NoCode}}
    BY DEF TemplateCodes
  <2> QED BY <2>1, <2>2 DEF Nodes
<1> QED BY <1>1, <1>2, <1>3, <1>4

\* A node is one of four kinds.
LEMMA NodeKinds ==
  /\ \A n \in Nodes : \/ n[1] = "comp" /\ n[2] \in TemplateCodes /\ n = CompNode(n[2])
                      \/ n[1] = "dv" /\ n[2] \in setup.vars /\ n = VarNode(n[2])
                      \/ n[1] = "grp" /\ n[2] \in DOMAIN setup.items /\ n = GroupNode(n[2])
                      \/ n[1] = "sys" /\ n[2] \in DOMAIN setup.statutory /\ n = <<"sys", n[2]>>
  /\ \A k : CompNode(k) \in Nodes <=> k \in TemplateCodes
  /\ \A v : VarNode(v) \in Nodes <=> v \in setup.vars
  /\ \A g : GroupNode(g) \in Nodes <=> g \in DOMAIN setup.items
BY DEF Nodes, CompNode, VarNode, GroupNode

\* The component of a node has its code.
LEMMA LinkedFacts ==
  ASSUME setup \in Setups, NEW k \in TemplateCodes
  PROVE  Linked(k) \in Template /\ Linked(k) \in Comps /\ Code(Linked(k)) = k /\ k # NoCode /\ k \in Names
<1> DEFINE I == {i \in DOMAIN setup.template : Code(setup.template[i]) = k}
<1>1. DOMAIN setup.template = 1 .. Len(setup.template) /\ Len(setup.template) \in Nat
  BY BundleFacts
<1>2. I \subseteq 1 .. Len(setup.template) /\ I \subseteq Nat /\ I # {}
  BY <1>1 DEF TemplateCodes, Template, Range
<1> HIDE DEF I
<1>3. IsFiniteSet(I)
  <2>1. IsFiniteSet(1 .. Len(setup.template))
    BY <1>1, FS_Interval
  <2> QED BY <1>2, <2>1, FS_Subset
<1>4. Max(I) \in I
  BY <1>2, <1>3, MaxExists
<1>5. Linked(k) \in Template /\ Code(Linked(k)) = k
  BY <1>4 DEF Linked, Template, Range, I
<1> QED BY <1>5, BundleFacts DEF Comps, TemplateCodes

\* The edges of the graph between its nodes are the uses.
LEMMA EdgesAreUses ==
  ASSUME NEW n \in Nodes
  PROVE  Edges(n) \cap Nodes = Uses(n)
<1>1. CASE n[1] = "grp"
  BY <1>1, NodeKinds DEF Edges, Uses, CompNode
<1>2. CASE n[1] = "sys"
  BY <1>2, NodeKinds DEF Edges, Uses, VarNode
<1>3. CASE n[1] \in {"comp", "dv"}
  <2>1. Edges(n) = {"dv", "comp"} \X Dependencies(DefinitionOf(n))
    BY <1>3 DEF Edges
  <2>2. Uses(n) = {m \in Nodes : m[1] \in {"comp", "dv"} /\ m[2] \in Dependencies(DefinitionOf(n))}
    BY <1>3 DEF Uses
  <2>3. ASSUME NEW m \in Nodes
        PROVE  m \in {"dv", "comp"} \X Dependencies(DefinitionOf(n))
                 <=> m[1] \in {"comp", "dv"} /\ m[2] \in Dependencies(DefinitionOf(n))
    BY NodeKinds DEF CompNode, VarNode, GroupNode
  <2> QED BY <2>1, <2>2, <2>3
<1> QED BY <1>1, <1>2, <1>3, NodeKinds

LEMMA UsesAreNodes == ASSUME NEW n PROVE Uses(n) \subseteq Nodes
BY DEF Uses
------------------------------------------------------------------------------
(* The sort *)

Once(s) == \A i, j \in DOMAIN s : s[i] = s[j] => i = j

\* The nodes being visited use one another, and all that a visited node uses was visited
\* before it.
Chained == \A i \in 1 .. Len(path) - 1 : path[i + 1] \in Uses(path[i])
Before == \A i \in DOMAIN order : Uses(order[i]) \subseteq {order[j] : j \in 1 .. i - 1}

SortIInv ==
  /\ setup \in Setups /\ stage \in {"sort", "eval", "done", "cycle", "raised"}
  /\ path \in Seq(Nodes) /\ order \in Seq(Nodes)
  /\ Once(path) /\ Once(order) /\ Range(path) \cap Range(order) = {}
  /\ Chained /\ Before
  /\ stage \in {"eval", "raised", "done"} => Range(order) = Nodes
  /\ stage = "cycle" => Cyclic

LEMMA SortInit == PayInit => SortIInv
BY DEF PayInit, SortIInv, Once, Chained, Before, Range

\* The bundle, and all that is defined by it, stays.
LEMMA BundleKept ==
  ASSUME setup' = setup
  PROVE  /\ Nodes' = Nodes /\ Items' = Items /\ Template' = Template /\ Comps' = Comps
         /\ TemplateCodes' = TemplateCodes /\ Cyclic' = Cyclic
         /\ \A n : Uses(n)' = Uses(n) /\ Definition(n)' = Definition(n) /\ Code(n)' = Code(n)
         /\ \A k : Linked(k)' = Linked(k)
<1>1. /\ Items' = Items /\ Template' = Template /\ Comps' = Comps
      /\ \A n : Definition(n)' = Definition(n) /\ Code(n)' = Code(n)
  BY DEF Items, Template, Comps, Definition, Code
<1>2. TemplateCodes' = TemplateCodes
  BY <1>1 DEF TemplateCodes, Template, Code
<1>3. Nodes' = Nodes
  BY <1>2 DEF Nodes
<1>4. \A k : Linked(k)' = Linked(k)
  BY DEF Linked, Code
<1>5. \A n : DefinitionOf(n)' = DefinitionOf(n)
  BY DEF DefinitionOf, Definition, Linked, Code
<1>6. \A n : Dependencies(DefinitionOf(n))' = Dependencies(DefinitionOf(n))
  BY DEF Dependencies, DefinitionOf, Definition, Linked, Code
<1>7. \A n : Uses(n)' = Uses(n)
  BY <1>1, <1>3, <1>6 DEF Uses, Code
<1>8. Cyclic' = Cyclic
  BY <1>3, <1>7 DEF Cyclic
<1> QED BY <1>1, <1>2, <1>3, <1>4, <1>7, <1>8

\* SortIInv goes over to a state in which the sort has gone on by path and order only.
LEMMA SortKeeps ==
  ASSUME SortIInv, stage = "sort", setup' = setup, stage' = "sort",
         path' \in Seq(Nodes), order' \in Seq(Nodes), Once(path'), Once(order'),
         Range(path') \cap Range(order') = {},
         \A i \in 1 .. Len(path') - 1 : path'[i + 1] \in Uses(path'[i]),
         \A i \in DOMAIN order' : Uses(order'[i]) \subseteq {order'[j] : j \in 1 .. i - 1}
  PROVE  SortIInv'
BY BundleKept DEF SortIInv, Chained, Before

\* What Append and Front do to a list of nodes.
LEMMA Appended ==
  ASSUME NEW T, NEW s \in Seq(T), NEW x \in T, Once(s), x \notin Range(s)
  PROVE  /\ Append(s, x) \in Seq(T) /\ Once(Append(s, x))
         /\ Range(Append(s, x)) = Range(s) \cup {x}
         /\ Len(Append(s, x)) = Len(s) + 1
         /\ \A i \in 1 .. Len(s) : Append(s, x)[i] = s[i]
         /\ Append(s, x)[Len(s) + 1] = x
<1> DEFINE t == Append(s, x)
<1>1. /\ t \in Seq(T) /\ Len(t) = Len(s) + 1 /\ t[Len(s) + 1] = x
      /\ \A i \in 1 .. Len(s) : t[i] = s[i]
  OBVIOUS
<1>2. DOMAIN s = 1 .. Len(s) /\ DOMAIN t = 1 .. Len(t) /\ Len(s) \in Nat
  BY <1>1
<1> HIDE DEF t
<1>3. \A i \in DOMAIN t : i = Len(s) + 1 \/ (i \in DOMAIN s /\ t[i] = s[i])
  BY <1>1, <1>2
<1>4. \A i \in DOMAIN s : i \in DOMAIN t /\ t[i] = s[i] /\ s[i] # x
  BY <1>1, <1>2 DEF Range
<1>5. Once(t)
  BY <1>1, <1>3, <1>4 DEF Once
<1>6. Range(t) \subseteq Range(s) \cup {x}
  BY <1>1, <1>3 DEF Range
<1>7. Range(s) \cup {x} \subseteq Range(t)
  <2>1. x \in Range(t)
    BY <1>1, <1>2 DEF Range
  <2>2. Range(s) \subseteq Range(t)
    BY <1>4 DEF Range
  <2> QED BY <2>1, <2>2
<1> QED BY <1>1, <1>5, <1>6, <1>7 DEF t

LEMMA Fronted ==
  ASSUME NEW T, NEW s \in Seq(T), s # <<>>, Once(s)
  PROVE  /\ Front(s) \in Seq(T) /\ Once(Front(s)) /\ Len(Front(s)) = Len(s) - 1
         /\ Last(s) = s[Len(s)] /\ Len(s) \in DOMAIN s /\ Last(s) \in T
         /\ Last(s) \in Range(s)
         /\ Range(Front(s)) = Range(s) \ {Last(s)}
         /\ \A i \in 1 .. Len(s) - 1 : Front(s)[i] = s[i]
<1> DEFINE t == Front(s)
<1>1. Len(s) \in Nat /\ Len(s) > 0 /\ DOMAIN s = 1 .. Len(s) /\ \A i \in DOMAIN s : s[i] \in T
  OBVIOUS
<1>2. t = SubSeq(s, 1, Len(s) - 1)
  BY DEF Front
<1>3. /\ t \in Seq(T) /\ Len(t) = Len(s) - 1 /\ DOMAIN t = 1 .. Len(s) - 1
      /\ \A i \in 1 .. Len(s) - 1 : t[i] = s[i]
  BY <1>1, <1>2
<1>4. Last(s) = s[Len(s)]
  BY DEF Last
<1> HIDE DEF t
<1>5. Once(t)
  BY <1>1, <1>3 DEF Once
<1>6. Range(t) \subseteq Range(s) \ {Last(s)}
  BY <1>1, <1>3, <1>4 DEF Range, Once
<1>7. Range(s) \ {Last(s)} \subseteq Range(t)
  <2> SUFFICES ASSUME NEW i \in DOMAIN s, s[i] # Last(s) PROVE s[i] \in Range(t)
    BY DEF Range
  <2>1. i \in 1 .. Len(s) - 1
    BY <1>1, <1>4
  <2> QED BY <1>3, <2>1 DEF Range
<1>8. Last(s) \in Range(s)
  BY <1>1, <1>4 DEF Range
<1>9. Range(t) = Range(s) \ {Last(s)}
  BY <1>6, <1>7
<1> QED BY <1>1, <1>3, <1>4, <1>5, <1>8, <1>9 DEF t

LEMMA RootLeft ==
  ASSUME setup \in Setups, Left # {}
  PROVE  NextRoot \in Left
<1> DEFINE I == {i \in DOMAIN Sorted : Sorted[i] \in Left}
<1>1. Left \subseteq SortedSet
  BY BundleFacts DEF Left
<1>2. I # {}
  BY <1>1 DEF SortedSet, Range
<1>3. I \subseteq Nat
  BY SortedIsList
<1>4. PICK x \in I : \A y \in I : x <= y
  BY <1>2, <1>3, MinExists
<1>5. Min(I) \in I
  BY <1>4 DEF Min
<1> QED BY <1>5 DEF NextRoot

\* A node that is visited in turn goes to the end of the path.
LEMMA VisitKeeps ==
  ASSUME SortIInv, stage = "sort", NEW m \in Nodes, m \notin Range(order), m \notin Range(path),
         path # <<>> => m \in Uses(Last(path)),
         path' = Append(path, m), UNCHANGED <<setup, stage, order>>
  PROVE  SortIInv'
<1> USE DEF SortIInv
<1>1. /\ path' \in Seq(Nodes) /\ Once(path') /\ Range(path') = Range(path) \cup {m}
      /\ Len(path') = Len(path) + 1 /\ path'[Len(path) + 1] = m
      /\ \A i \in 1 .. Len(path) : path'[i] = path[i]
  BY Appended
<1>2. Len(path) \in Nat
  OBVIOUS
<1>3. ASSUME NEW i \in 1 .. Len(path') - 1 PROVE path'[i + 1] \in Uses(path'[i])
  <2>1. CASE i < Len(path)
    <3>1. path'[i] = path[i] /\ path'[i + 1] = path[i + 1]
      BY <1>1, <1>2, <2>1
    <3> QED BY <1>2, <2>1, <3>1 DEF Chained
  <2>2. CASE i = Len(path)
    <3>1. path # <<>>
      BY <2>2
    <3>2. path'[i] = Last(path) /\ path'[i + 1] = m
      BY <1>1, <1>2, <2>2 DEF Last
    <3> QED BY <3>1, <3>2
  <2> QED BY <1>1, <1>2, <2>1, <2>2
<1>4. stage' = "sort" /\ order' = order /\ setup' = setup
  OBVIOUS
<1>5. \A i \in DOMAIN order' : Uses(order'[i]) \subseteq {order'[j] : j \in 1 .. i - 1}
  BY <1>4 DEF Before
<1> QED BY <1>1, <1>3, <1>4, <1>5, SortKeeps

LEMMA VisitRootKeeps == ASSUME SortIInv, VisitRoot PROVE SortIInv'
<1>1. NextRoot \in Left /\ Left \subseteq Nodes
  BY RootLeft DEF SortIInv, VisitRoot, Left
<1>2. path' = Append(path, NextRoot) /\ path = <<>>
  BY DEF VisitRoot
<1>3. NextRoot \notin Range(order) /\ NextRoot \notin Range(path)
  BY <1>1 DEF Left
<1> QED BY <1>1, <1>2, <1>3, VisitKeeps DEF VisitRoot

LEMMA PathEnd ==
  ASSUME SortIInv, path # <<>>
  PROVE  /\ Last(path) \in Nodes /\ Waiting(Last(path)) = Uses(Last(path)) \ Range(order)
         /\ Last(path) \in Range(path) /\ Last(path) \notin Range(order)
<1>1. Last(path) \in Nodes /\ Last(path) \in Range(path)
  BY Fronted DEF SortIInv
<1> QED BY <1>1, EdgesAreUses DEF SortIInv, Waiting

LEMMA VisitDependencyKeeps ==
  ASSUME SortIInv, NEW m, VisitDependency(m) PROVE SortIInv'
<1>1. m \in Uses(Last(path)) \ Range(order) /\ m \notin Range(path)
  BY PathEnd DEF VisitDependency
<1>2. m \in Nodes
  BY <1>1, UsesAreNodes
<1> QED BY <1>1, <1>2, VisitKeeps DEF VisitDependency

\* A node that waits for one that is being visited closes a circle: each node from that
\* one on uses the next, and the last uses it.
LEMMA FindCycleKeeps == ASSUME SortIInv, FindCycle PROVE SortIInv'
<1> USE DEF SortIInv
<1>1. /\ stage = "sort" /\ path # <<>> /\ UNCHANGED <<setup, path, order>> /\ stage' = "cycle"
      /\ Waiting(Last(path)) \cap Range(path) # {}
  BY DEF FindCycle
<1>2. PICK k \in DOMAIN path : path[k] \in Uses(Last(path))
  BY <1>1, PathEnd DEF Range
<1> DEFINE S == {path[i] : i \in k .. Len(path)}
<1>3. Len(path) \in Nat /\ DOMAIN path = 1 .. Len(path) /\ Last(path) = path[Len(path)]
  BY DEF Last
<1>4. S \subseteq Nodes /\ path[k] \in S
  BY <1>3
<1>5. ASSUME NEW i \in k .. Len(path) PROVE Uses(path[i]) \cap S # {}
  <2>1. CASE i = Len(path)
    BY <1>2, <1>3, <1>4, <2>1
  <2>2. CASE i < Len(path)
    <3>1. i \in 1 .. Len(path) - 1 /\ i + 1 \in k .. Len(path)
      BY <1>3, <2>2
    <3>2. path[i + 1] \in Uses(path[i]) /\ path[i + 1] \in S
      BY <3>1 DEF Chained
    <3> QED BY <3>2
  <2> QED BY <1>3, <2>1, <2>2
<1>6. \A n \in S : Uses(n) \cap S # {}
  BY <1>5
<1> HIDE DEF S
<1>7. Cyclic
  BY <1>4, <1>6 DEF Cyclic
<1> QED BY <1>1, <1>7, BundleKept DEF Chained, Before

LEMMA FinishVisitKeeps == ASSUME SortIInv, FinishVisit PROVE SortIInv'
<1> USE DEF SortIInv
<1> DEFINE n == Last(path)
<1>1. /\ stage = "sort" /\ path # <<>> /\ Waiting(n) = {} /\ UNCHANGED <<setup, stage>>
      /\ order' = Append(order, n) /\ path' = Front(path)
  BY DEF FinishVisit
<1>2. n \in Nodes /\ Uses(n) \subseteq Range(order) /\ n \notin Range(order)
  BY <1>1, PathEnd
<1>3. /\ path' \in Seq(Nodes) /\ Once(path') /\ Len(path') = Len(path) - 1
      /\ Range(path') = Range(path) \ {n} /\ \A i \in 1 .. Len(path) - 1 : path'[i] = path[i]
  BY <1>1, Fronted
<1> HIDE DEF n
<1>4. /\ order' \in Seq(Nodes) /\ Once(order') /\ Range(order') = Range(order) \cup {n}
      /\ Len(order') = Len(order) + 1 /\ order'[Len(order) + 1] = n
      /\ \A i \in 1 .. Len(order) : order'[i] = order[i]
  BY <1>1, <1>2, Appended
<1>5. /\ Len(path) \in Nat /\ Len(order) \in Nat /\ DOMAIN order = 1 .. Len(order)
      /\ DOMAIN order' = 1 .. Len(order) + 1
  BY <1>4
<1>6. \A i \in 1 .. Len(path') - 1 : path'[i + 1] \in Uses(path'[i])
  BY <1>3, <1>5 DEF Chained
<1>7. ASSUME NEW i \in DOMAIN order'
      PROVE  Uses(order'[i]) \subseteq {order'[j] : j \in 1 .. i - 1}
  <2>1. CASE i = Len(order) + 1
    <3>1. order'[i] = n /\ \A j \in DOMAIN order : j \in 1 .. i - 1 /\ order'[j] = order[j]
      BY <1>4, <1>5, <2>1
    <3> QED BY <1>2, <3>1 DEF Range
  <2>2. CASE i # Len(order) + 1
    <3>1. i \in DOMAIN order
      BY <1>5, <2>2
    <3>2. order'[i] = order[i] /\ \A j \in 1 .. i - 1 : order'[j] = order[j]
      BY <1>4, <1>5, <3>1
    <3> QED BY <3>1, <3>2 DEF Before
  <2> QED BY <2>1, <2>2
<1>8. Range(path') \cap Range(order') = {}
  BY <1>3, <1>4
<1> QED BY <1>1, <1>3, <1>4, <1>6, <1>7, <1>8, SortKeeps

LEMMA SortingKeeps == ASSUME SortIInv, Sorting PROVE SortIInv'
<1> USE DEF SortIInv
<1>1. /\ path = <<>> /\ Left = {} /\ stage' = "eval" /\ UNCHANGED <<setup, path, order>>
  BY DEF Sorting
<1>2. Range(order) \subseteq Nodes
  BY DEF Range
<1>3. Range(path) = {}
  BY <1>1 DEF Range
<1>4. Range(order) = Nodes
  BY <1>1, <1>2, <1>3 DEF Left
<1> QED BY <1>1, <1>4, BundleKept DEF Chained, Before

Evaluation ==
  EvalVariable \/ EvalComponent \/ EvalGroup \/ EvalStatutory \/ EvalItem \/ EvalEnd

LEMMA EvaluationKeeps == ASSUME SortIInv, Evaluation PROVE SortIInv'
<1>1. /\ stage = "eval" /\ stage' \in {"eval", "done", "raised"}
      /\ UNCHANGED <<setup, path, order>>
  BY DEF Evaluation, EvalVariable, EvalComponent, EvalGroup, EvalStatutory, EvalItem, EvalEnd,
         Evaluating
<1> QED BY <1>1, BundleKept DEF SortIInv, Chained, Before

LEMMA SortStep == SortIInv /\ [PayNext]_engineVars => SortIInv'
<1> SUFFICES ASSUME SortIInv, [PayNext]_engineVars PROVE SortIInv'
  OBVIOUS
<1>1. CASE UNCHANGED engineVars
  BY <1>1, BundleKept DEF SortIInv, Chained, Before, engineVars
<1>2. ASSUME NEW m \in SortedSet, VisitDependency(m) PROVE SortIInv'
  BY <1>2, VisitDependencyKeeps
<1>3. CASE VisitRoot \/ FindCycle \/ FinishVisit \/ Sorting
  BY <1>3, VisitRootKeeps, FindCycleKeeps, FinishVisitKeeps, SortingKeeps
<1>4. CASE Evaluation
  BY <1>4, EvaluationKeeps
<1> QED BY <1>1, <1>2, <1>3, <1>4 DEF PayNext, Evaluation

\* An order in which every node comes after those it uses leaves no circle: the earliest
\* node of one uses another of it.
LEMMA OrderMeansNoCircle == ASSUME SortIInv, Range(order) = Nodes PROVE ~Cyclic
<1> SUFFICES ASSUME NEW S \in SUBSET Nodes, S # {}, \A n \in S : Uses(n) \cap S # {}
             PROVE  FALSE
  BY DEF Cyclic
<1> DEFINE I == {i \in DOMAIN order : order[i] \in S}
<1>1. DOMAIN order = 1 .. Len(order) /\ Len(order) \in Nat
  BY DEF SortIInv
<1>2. I # {} /\ I \subseteq Nat
  BY <1>1 DEF Range
<1>3. PICK i \in I : \A y \in I : i <= y
  BY <1>2, MinExists
<1>4. PICK j \in 1 .. i - 1 : order[j] \in S
  BY <1>3 DEF SortIInv, Before
<1>5. j \in I /\ j < i
  BY <1>1, <1>3, <1>4
<1> QED BY <1>2, <1>3, <1>5

LEMMA SortIsRight == SortIInv => SortRight
BY OrderMeansNoCircle DEF SortIInv, SortRight, Before
------------------------------------------------------------------------------
(* The evaluation *)

Evaluated == {order[j] : j \in 1 .. step}
Codes == {lines[i].code : i \in DOMAIN lines}
CodesOf(cs) == {Code(c) : c \in cs} \ {NoCode}

\* A line is of a component that has a code, of the linked one if the template pays it.
LineOf(l) ==
  /\ l.comp \in Comps /\ l.code = Code(l.comp) /\ l.code # NoCode
  /\ l.code \in Emitting => l.comp = Linked(l.code)

\* The codes the template pays are on a line from the moment their node is evaluated, the
\* others from when a group reaches them.
EvalIInv ==
  /\ step \in 0 .. Len(order)
  /\ stage \in {"sort", "cycle"} => step = 0 /\ queue = <<>> /\ lines = <<>>
  /\ queue \in Seq(Items)
  /\ \A c \in Range(queue) : CompNode(Code(c)) \in Nodes => CompNode(Code(c)) \in Evaluated
  /\ lines \in Seq(Range(lines)) /\ \A l \in Range(lines) : LineOf(l)
  /\ \A i, j \in DOMAIN lines : lines[i].code = lines[j].code => i = j
  /\ Codes \subseteq Emitting \cup CodesOf(Items)
  /\ \A k \in Emitting : k \in Codes <=> CompNode(k) \in Evaluated
  /\ \A g \in DOMAIN setup.items : GroupNode(g) \in Evaluated =>
       CodesOf(Range(setup.items[g])) \subseteq Codes \cup CodesOf(Range(queue))
  /\ stage = "done" => queue = <<>> /\ step = Len(order)

\* What is said of the parts of the bundle stays too.
LEMMA PartsKept ==
  ASSUME setup' = setup
  PROVE  /\ Emitting' = Emitting /\ \A cs : CodesOf(cs)' = CodesOf(cs)
         /\ \A l : LineOf(l)' <=> LineOf(l)
<1>1. Emitting' = Emitting
  BY BundleKept DEF Emitting
<1>2. \A cs : CodesOf(cs)' = CodesOf(cs)
  BY BundleKept DEF CodesOf
<1>3. \A l : LineOf(l)' <=> LineOf(l)
  BY <1>1, BundleKept DEF LineOf
<1> QED BY <1>1, <1>2, <1>3

LEMMA EvalInit == PayInit => EvalIInv
<1> SUFFICES ASSUME PayInit PROVE EvalIInv
  OBVIOUS
<1>1. /\ step = 0 /\ Len(order) = 0 /\ queue = <<>> /\ lines = <<>> /\ stage = "sort"
  BY DEF PayInit
<1>2. Evaluated = {} /\ Codes = {} /\ Range(queue) = {} /\ Range(lines) = {}
  BY <1>1 DEF Evaluated, Codes, Range
<1> QED BY <1>1, <1>2 DEF EvalIInv

\* While the graph is sorted nothing is evaluated.
LEMMA SortPhaseKeeps ==
  ASSUME SortIInv', EvalIInv, stage = "sort", UNCHANGED <<setup, step, queue, lines>>,
         stage' \in {"sort", "cycle", "eval"}
  PROVE  EvalIInv'
<1>1. /\ step' = 0 /\ queue' = <<>> /\ lines' = <<>>
  BY DEF EvalIInv
<1>2. Evaluated = {} /\ Evaluated' = {} /\ Codes' = {} /\ Range(queue') = {} /\ Range(lines') = {}
  BY <1>1 DEF Evaluated, Codes, Range, EvalIInv
<1>3. Len(order') \in Nat
  BY DEF SortIInv
<1>4. Emitting' = Emitting /\ \A k \in Emitting : k \notin Codes
  BY <1>2, PartsKept DEF EvalIInv
<1> QED BY <1>1, <1>2, <1>3, <1>4 DEF EvalIInv

\* What was evaluated uses only what was evaluated before it.
LEMMA EvaluatedFacts ==
  ASSUME SortIInv, EvalIInv
  PROVE  Evaluated \subseteq Nodes /\ \A n \in Evaluated : Uses(n) \subseteq Evaluated
<1>1. /\ DOMAIN order = 1 .. Len(order) /\ Len(order) \in Nat /\ step \in 0 .. Len(order)
      /\ \A i \in DOMAIN order : order[i] \in Nodes
  BY DEF SortIInv, EvalIInv
<1>2. ASSUME NEW i \in 1 .. step PROVE order[i] \in Nodes /\ Uses(order[i]) \subseteq Evaluated
  <2>1. i \in DOMAIN order
    BY <1>1
  <2>2. Uses(order[i]) \subseteq {order[j] : j \in 1 .. i - 1}
    BY <2>1 DEF SortIInv, Before
  <2>3. {order[j] : j \in 1 .. i - 1} \subseteq Evaluated
    BY <1>1 DEF Evaluated
  <2> QED BY <1>1, <2>1, <2>2, <2>3
<1> QED BY <1>2 DEF Evaluated

LEMMA CurrentFacts ==
  ASSUME SortIInv, EvalIInv, NEW kind, Evaluating(kind)
  PROVE  /\ Current \in Nodes /\ Current[1] = kind
         /\ Current \notin Evaluated /\ Uses(Current) \subseteq Evaluated
         /\ step + 1 \in 0 .. Len(order)
         /\ order' = order /\ step' = step + 1 => Evaluated' = Evaluated \cup {Current}
<1>1. /\ DOMAIN order = 1 .. Len(order) /\ Len(order) \in Nat /\ step \in 0 .. Len(order)
      /\ \A i \in DOMAIN order : order[i] \in Nodes
      /\ step + 1 \in DOMAIN order
  BY DEF SortIInv, EvalIInv, Evaluating
<1>2. Current \in Nodes
  BY <1>1 DEF Current
<1>3. Current \notin Evaluated
  BY <1>1 DEF Current, Evaluated, SortIInv, Once
<1>4. Uses(Current) \subseteq Evaluated
  <2>1. Uses(Current) \subseteq {order[j] : j \in 1 .. (step + 1) - 1}
    BY <1>1 DEF SortIInv, Before, Current
  <2> QED BY <1>1, <2>1 DEF Evaluated
<1>5. ASSUME order' = order, step' = step + 1 PROVE Evaluated' = Evaluated \cup {Current}
  BY <1>1, <1>5 DEF Evaluated, Current
<1> QED BY <1>1, <1>2, <1>3, <1>4, <1>5 DEF Evaluating

\* A line of a code that has none yet.
LEMMA LineAdded ==
  ASSUME EvalIInv, NEW c \in Comps, NEW v, Code(c) # NoCode, Code(c) \notin Codes,
         Code(c) \in Emitting => c = Linked(Code(c)),
         lines' = Append(lines, [comp |-> c, code |-> Code(c), val |-> v])
  PROVE  /\ lines' \in Seq(Range(lines')) /\ Codes' = Codes \cup {Code(c)}
         /\ Range(lines') = Range(lines) \cup {[comp |-> c, code |-> Code(c), val |-> v]}
         /\ \A l \in Range(lines') : LineOf(l)
         /\ \A i, j \in DOMAIN lines' : lines'[i].code = lines'[j].code => i = j
<1> DEFINE l == [comp |-> c, code |-> Code(c), val |-> v]
           T == Range(lines) \cup {l}
<1>1. lines \in Seq(T) /\ l \in T /\ l.code = Code(c) /\ LineOf(l)
  BY DEF EvalIInv, LineOf
<1> HIDE DEF l
<1>2. /\ lines' \in Seq(T) /\ Len(lines') = Len(lines) + 1 /\ lines'[Len(lines) + 1] = l
      /\ \A i \in 1 .. Len(lines) : lines'[i] = lines[i]
      /\ Len(lines) \in Nat
  BY <1>1 DEF l
<1>3. DOMAIN lines = 1 .. Len(lines) /\ DOMAIN lines' = 1 .. Len(lines) + 1
  BY <1>1, <1>2
<1>4. DOMAIN lines' = DOMAIN lines \cup {Len(lines) + 1} /\ Len(lines) + 1 \notin DOMAIN lines
  BY <1>2, <1>3
<1>5. Codes' = Codes \cup {Code(c)}
  BY <1>1, <1>2, <1>3, <1>4 DEF Codes
<1>6. \A i, j \in DOMAIN lines' : lines'[i].code = lines'[j].code => i = j
  BY <1>1, <1>2, <1>3, <1>4 DEF Codes, EvalIInv
<1>7. Range(lines') = T
  BY <1>2, <1>3, <1>4 DEF Range
<1>8. lines' \in Seq(Range(lines'))
  BY <1>2, <1>7
<1>9. \A r \in Range(lines') : LineOf(r)
  BY <1>1, <1>7 DEF EvalIInv
<1> QED BY <1>5, <1>6, <1>7, <1>8, <1>9 DEF l

\* A node that adds no line: a variable, a system component, a statutory group.
LEMMA NoLineKeeps ==
  ASSUME SortIInv, EvalIInv, NEW kind, Evaluating(kind), kind # "grp",
         kind = "comp" => Subject \notin Emitting,
         step' = step + 1, UNCHANGED <<setup, order, queue, lines>>, stage' \in {"eval", "raised"}
  PROVE  EvalIInv'
<1>1. /\ Evaluated' = Evaluated \cup {Current} /\ step' \in 0 .. Len(order') /\ Current[1] = kind
      /\ Current \in Nodes
  BY CurrentFacts
<1>2. Codes' = Codes /\ Range(queue') = Range(queue) /\ Range(lines') = Range(lines)
  BY DEF Codes
<1>3. \A k \in Emitting : Current # CompNode(k)
  BY <1>1 DEF CompNode, Subject
<1>4. \A g : Current # GroupNode(g)
  BY <1>1 DEF GroupNode
<1>5. \A g \in DOMAIN setup.items : GroupNode(g) \in Evaluated' =>
        CodesOf(Range(setup.items[g])) \subseteq Codes' \cup CodesOf(Range(queue'))
  BY <1>1, <1>2, <1>4 DEF EvalIInv
<1>6. \A k \in Emitting : k \in Codes' <=> CompNode(k) \in Evaluated'
  BY <1>1, <1>2, <1>3 DEF EvalIInv
<1> QED BY <1>1, <1>2, <1>5, <1>6, BundleKept, PartsKept DEF EvalIInv

LEMMA EvalVariableKeeps == ASSUME SortIInv, EvalIInv, EvalVariable PROVE EvalIInv'
BY NoLineKeeps DEF EvalVariable, Evaluating

LEMMA EvalStatutoryKeeps == ASSUME SortIInv, EvalIInv, EvalStatutory PROVE EvalIInv'
BY NoLineKeeps DEF EvalStatutory, Evaluating

\* The component that is evaluated: the linked one of a code the template holds.
LEMMA ComponentFacts ==
  ASSUME SortIInv, EvalIInv, Evaluating("comp")
  PROVE  /\ Subject \in TemplateCodes /\ Current = CompNode(Subject)
         /\ Linked(Subject) \in Comps /\ Code(Linked(Subject)) = Subject
         /\ Subject # NoCode /\ Subject \in Names
         /\ Subject \in Emitting <=> Definition(Linked(Subject)).how \notin {"system", "other"}
         /\ Subject \in Emitting => Subject \notin Codes
<1>1. Current \in Nodes /\ Current[1] = "comp" /\ Current \notin Evaluated
  BY CurrentFacts
<1>2. Subject \in TemplateCodes /\ Current = CompNode(Subject)
  BY <1>1, NodeKinds DEF Subject
<1>3. setup \in Setups
  BY DEF SortIInv
<1> QED BY <1>1, <1>2, <1>3, LinkedFacts DEF Emitting, EvalIInv

LEMMA EvalComponentKeeps == ASSUME SortIInv, EvalIInv, EvalComponent PROVE EvalIInv'
<1> DEFINE c == Linked(Subject)
<1>1. /\ Evaluating("comp") /\ stage = "eval" /\ stage' = "eval" /\ queue = <<>>
      /\ step' = step + 1 /\ UNCHANGED <<setup, order, queue>>
  BY DEF EvalComponent, Evaluating
<1>2. CASE Definition(c).how \in {"system", "other"}
  <2>1. lines' = lines /\ Subject \notin Emitting
    BY <1>1, <1>2, ComponentFacts DEF EvalComponent
  <2> QED BY <1>1, <2>1, NoLineKeeps
<1>3. CASE Definition(c).how \notin {"system", "other"}
  <2>1. /\ c \in Comps /\ Code(c) = Subject /\ Subject \in Emitting /\ Subject \notin Codes
        /\ Subject # NoCode /\ Current = CompNode(Subject)
    BY <1>1, <1>3, ComponentFacts
  <2>2. PICK v : lines' = Append(lines, [comp |-> c, code |-> Code(c), val |-> v])
    BY <1>3 DEF EvalComponent, AddLine
  <2>3. Evaluated' = Evaluated \cup {CompNode(Subject)} /\ step' \in 0 .. Len(order')
    BY <1>1, <2>1, CurrentFacts
  <2> HIDE DEF c
  <2>4. Code(c) \in Emitting => c = Linked(Code(c))
    BY <2>1 DEF c
  <2>5. /\ lines' \in Seq(Range(lines')) /\ Codes' = Codes \cup {Subject}
        /\ \A l \in Range(lines') : LineOf(l)
        /\ \A i, j \in DOMAIN lines' : lines'[i].code = lines'[j].code => i = j
    BY <2>1, <2>2, <2>4, LineAdded
  <2>6. \A g \in DOMAIN setup.items : GroupNode(g) \in Evaluated' =>
          CodesOf(Range(setup.items[g])) \subseteq Codes' \cup CodesOf(Range(queue'))
    BY <1>1, <2>3, <2>5 DEF EvalIInv, GroupNode, CompNode
  <2>7. \A k \in Emitting : k \in Codes' <=> CompNode(k) \in Evaluated'
    BY <2>3, <2>5 DEF EvalIInv, CompNode
  <2>8. Codes' \subseteq Emitting \cup CodesOf(Items)
    BY <2>1, <2>5 DEF EvalIInv
  <2> QED BY <1>1, <2>3, <2>5, <2>6, <2>7, <2>8, BundleKept, PartsKept DEF EvalIInv
<1> QED BY <1>2, <1>3

LEMMA EvalGroupKeeps == ASSUME SortIInv, EvalIInv, EvalGroup PROVE EvalIInv'
<1> DEFINE g == Subject
<1>1. /\ Evaluating("grp") /\ queue = <<>> /\ stage = "eval" /\ stage' = "eval"
      /\ step' = step + 1 /\ queue' = setup.items[g] /\ UNCHANGED <<setup, order, lines>>
  BY DEF EvalGroup, Evaluating
<1>2. /\ Current \in Nodes /\ Current[1] = "grp" /\ Uses(Current) \subseteq Evaluated
      /\ step' \in 0 .. Len(order') /\ Evaluated' = Evaluated \cup {Current}
  BY <1>1, CurrentFacts
<1>3. g \in DOMAIN setup.items /\ Current = GroupNode(g)
  BY <1>2, NodeKinds DEF Subject
<1> HIDE DEF g
<1>4. Codes' = Codes /\ Range(lines') = Range(lines) /\ Range(queue) = {}
  BY <1>1 DEF Codes, Range
<1>5. Range(queue') \subseteq Items /\ queue' \in Seq(Comps)
  BY <1>1, <1>3, BundleFacts DEF Items, SortIInv
<1>6. queue' \in Seq(Items)
  <2>1. \A i \in 1 .. Len(queue') : queue'[i] \in Items
    BY <1>5 DEF Range
  <2> QED BY <1>5, <2>1
<1>7. ASSUME NEW c \in Range(queue'), CompNode(Code(c)) \in Nodes
      PROVE  CompNode(Code(c)) \in Evaluated'
  <2>1. Current[1] = "grp" /\ Current[2] = g /\ CompNode(Code(c))[1] = "comp"
        /\ CompNode(Code(c))[2] = Code(c)
    BY <1>3 DEF GroupNode, CompNode
  <2>2. CompNode(Code(c)) \in Uses(Current)
    BY <1>1, <1>7, <2>1 DEF Uses
  <2> QED BY <1>2, <2>2
<1>8. \A h \in DOMAIN setup.items : GroupNode(h) \in Evaluated' =>
        CodesOf(Range(setup.items[h])) \subseteq Codes' \cup CodesOf(Range(queue'))
  <2>1. CodesOf({}) = {}
    BY DEF CodesOf
  <2> QED BY <1>1, <1>2, <1>3, <1>4, <2>1 DEF EvalIInv, GroupNode
<1>9. \A k \in Emitting : k \in Codes' <=> CompNode(k) \in Evaluated'
  BY <1>2, <1>3, <1>4 DEF EvalIInv, CompNode, GroupNode
<1> QED BY <1>1, <1>2, <1>4, <1>6, <1>7, <1>8, <1>9, BundleKept, PartsKept DEF EvalIInv

\* The head and the rest of the items left.
LEMMA QueueFacts ==
  ASSUME NEW T, NEW q \in Seq(T), q # <<>>
  PROVE  Head(q) \in T /\ Tail(q) \in Seq(T) /\ Range(q) = {Head(q)} \cup Range(Tail(q))
<1> DEFINE t == Tail(q)
<1>1. /\ Len(q) \in Nat /\ Len(q) > 0 /\ DOMAIN q = 1 .. Len(q) /\ Head(q) = q[1] /\ Head(q) \in T
      /\ t \in Seq(T) /\ Len(t) = Len(q) - 1 /\ DOMAIN t = 1 .. Len(q) - 1
      /\ \A i \in 1 .. Len(q) - 1 : t[i] = q[i + 1]
  OBVIOUS
<1> HIDE DEF t
<1>2. Range(q) \subseteq {Head(q)} \cup Range(t)
  <2> SUFFICES ASSUME NEW i \in DOMAIN q, i # 1 PROVE q[i] \in Range(t)
    BY <1>1 DEF Range
  <2>1. i - 1 \in DOMAIN t /\ t[i - 1] = q[i]
    BY <1>1
  <2> QED BY <2>1 DEF Range
<1>3. {Head(q)} \cup Range(t) \subseteq Range(q)
  <2>1. \A i \in DOMAIN t : i + 1 \in DOMAIN q /\ t[i] = q[i + 1]
    BY <1>1
  <2>2. 1 \in DOMAIN q
    BY <1>1
  <2> QED BY <1>1, <2>1, <2>2 DEF Range
<1> QED BY <1>1, <1>2, <1>3 DEF t

\* The item that is looked at: the template does not pay its code, or has paid it.
LEMMA ItemFacts ==
  ASSUME SortIInv, EvalIInv, EvalItem
  PROVE  LET c == Head(queue) IN
         /\ c \in Items /\ c \in Comps /\ queue' \in Seq(Items)
         /\ Range(queue) = {c} \cup Range(queue')
         /\ AlreadyPaid(Code(c)) <=> Code(c) \in Codes
         /\ Code(c) \in Emitting => Code(c) \in Codes
<1> DEFINE c == Head(queue)
<1>1. queue # <<>> /\ queue' = Tail(queue)
  BY DEF EvalItem
<1>2. c \in Items /\ queue' \in Seq(Items) /\ Range(queue) = {c} \cup Range(queue')
  BY <1>1, QueueFacts DEF EvalIInv
<1> HIDE DEF c
<1>3. ASSUME Code(c) \in Emitting PROVE Code(c) \in Codes
  <2>1. CompNode(Code(c)) \in Nodes
    BY <1>3, NodeKinds DEF Emitting
  <2> QED BY <1>2, <1>3, <2>1 DEF EvalIInv
<1>4. AlreadyPaid(Code(c)) <=> Code(c) \in Codes
  BY DEF AlreadyPaid, Codes
<1> QED BY <1>2, <1>3, <1>4 DEF Comps, c

LEMMA EvalItemKeeps == ASSUME SortIInv, EvalIInv, EvalItem PROVE EvalIInv'
<1> DEFINE c == Head(queue)
<1>1. /\ stage = "eval" /\ stage' = "eval" /\ queue # <<>> /\ UNCHANGED <<setup, order, step>>
      /\ Code(c) = NoCode \/ AlreadyPaid(Code(c)) => UNCHANGED lines
      /\ ~(Code(c) = NoCode \/ AlreadyPaid(Code(c))) => AddLine(c, Emitted(c, ItemAmount(c)))
  BY DEF EvalItem
<1>2. /\ c \in Items /\ c \in Comps /\ queue' \in Seq(Items) /\ Range(queue) = {c} \cup Range(queue')
      /\ AlreadyPaid(Code(c)) <=> Code(c) \in Codes
      /\ Code(c) \in Emitting => Code(c) \in Codes
  BY ItemFacts
<1>3. PICK v : v = Emitted(c, ItemAmount(c))
  OBVIOUS
<1> HIDE DEF c
<1>4. Evaluated' = Evaluated
  BY <1>1 DEF Evaluated
<1>5. CodesOf(Range(queue)) \subseteq CodesOf(Range(queue')) \cup ({Code(c)} \ {NoCode})
  BY <1>2 DEF CodesOf
<1>6. CASE Code(c) = NoCode \/ Code(c) \in Codes
  <2>1. lines' = lines
    BY <1>1, <1>2, <1>6
  <2>2. Codes' = Codes /\ Range(lines') = Range(lines)
    BY <2>1 DEF Codes
  <2>3. \A g \in DOMAIN setup.items : GroupNode(g) \in Evaluated' =>
          CodesOf(Range(setup.items[g])) \subseteq Codes' \cup CodesOf(Range(queue'))
    BY <1>4, <1>5, <1>6, <2>2 DEF EvalIInv
  <2>4. /\ lines' \in Seq(Range(lines'))
        /\ \A i, j \in DOMAIN lines' : lines'[i].code = lines'[j].code => i = j
    BY <2>1 DEF EvalIInv
  <2> QED BY <1>1, <1>2, <1>4, <2>2, <2>3, <2>4, BundleKept, PartsKept DEF EvalIInv
<1>7. CASE Code(c) # NoCode /\ Code(c) \notin Codes
  <2>1. lines' = Append(lines, [comp |-> c, code |-> Code(c), val |-> v])
    BY <1>1, <1>2, <1>3, <1>7 DEF AddLine
  <2>2. /\ lines' \in Seq(Range(lines')) /\ Codes' = Codes \cup {Code(c)}
        /\ \A l \in Range(lines') : LineOf(l)
        /\ \A i, j \in DOMAIN lines' : lines'[i].code = lines'[j].code => i = j
    BY <1>2, <1>7, <2>1, LineAdded
  <2>3. \A g \in DOMAIN setup.items : GroupNode(g) \in Evaluated' =>
          CodesOf(Range(setup.items[g])) \subseteq Codes' \cup CodesOf(Range(queue'))
    BY <1>4, <1>5, <2>2 DEF EvalIInv
  <2>4. Code(c) \in CodesOf(Items)
    BY <1>2, <1>7 DEF CodesOf
  <2>5. Codes' \subseteq Emitting \cup CodesOf(Items)
    BY <2>2, <2>4 DEF EvalIInv
  <2>6. \A k \in Emitting : k \in Codes' <=> CompNode(k) \in Evaluated'
    BY <1>2, <1>4, <1>7, <2>2 DEF EvalIInv
  <2> QED BY <1>1, <1>2, <1>4, <2>2, <2>3, <2>5, <2>6, BundleKept, PartsKept DEF EvalIInv
<1> QED BY <1>6, <1>7

LEMMA EvalStays ==
  ASSUME EvalIInv, UNCHANGED <<setup, order, step, queue, lines>>,
         stage' = stage \/ (stage' = "done" /\ queue = <<>> /\ step = Len(order))
  PROVE  EvalIInv'
<1>1. Evaluated' = Evaluated /\ Codes' = Codes /\ Range(lines') = Range(lines)
  BY DEF Evaluated, Codes
<1> QED BY <1>1, BundleKept, PartsKept DEF EvalIInv

LEMMA EvalStep == SortIInv /\ SortIInv' /\ EvalIInv /\ [PayNext]_engineVars => EvalIInv'
<1> SUFFICES ASSUME SortIInv, SortIInv', EvalIInv, [PayNext]_engineVars PROVE EvalIInv'
  OBVIOUS
<1>1. CASE UNCHANGED engineVars
  BY <1>1, EvalStays DEF engineVars
<1>2. ASSUME NEW m \in SortedSet, VisitDependency(m) PROVE EvalIInv'
  BY <1>2, SortPhaseKeeps DEF VisitDependency
<1>3. CASE VisitRoot \/ FindCycle \/ FinishVisit \/ Sorting
  BY <1>3, SortPhaseKeeps DEF VisitRoot, FindCycle, FinishVisit, Sorting
<1>4. CASE EvalVariable \/ EvalComponent \/ EvalGroup \/ EvalStatutory \/ EvalItem
  BY <1>4, EvalVariableKeeps, EvalComponentKeeps, EvalGroupKeeps, EvalStatutoryKeeps,
     EvalItemKeeps
<1>5. CASE EvalEnd
  BY <1>5, EvalStays DEF EvalEnd
<1> QED BY <1>1, <1>2, <1>3, <1>4, <1>5 DEF PayNext

\* At the end every node was evaluated, and every component of a group is paid.
LEMMA AllEvaluated ==
  ASSUME SortIInv, EvalIInv, stage = "done"
  PROVE  Evaluated = Nodes /\ Codes = Emitting \cup CodesOf(Items)
<1>1. Evaluated = Range(order) /\ Range(order) = Nodes
  <2>1. DOMAIN order = 1 .. Len(order) /\ step = Len(order)
    BY DEF SortIInv, EvalIInv
  <2> QED BY <2>1 DEF Evaluated, Range, SortIInv
<1>2. Range(queue) = {} /\ CodesOf({}) = {}
  BY DEF EvalIInv, Range, CodesOf
<1>3. Emitting \subseteq Codes
  BY <1>1, NodeKinds DEF EvalIInv, Emitting
<1>4. CodesOf(Items) \subseteq Codes
  <2>1. \A g \in DOMAIN setup.items : CodesOf(Range(setup.items[g])) \subseteq Codes
    BY <1>1, <1>2, NodeKinds DEF EvalIInv
  <2> QED BY <2>1 DEF CodesOf, Items
<1> QED BY <1>1, <1>3, <1>4 DEF EvalIInv

LEMMA PaidJustOnce == ASSUME SortIInv, EvalIInv PROVE PaidOnce
BY AllEvaluated DEF PaidOnce, EvalIInv, Codes, CodesOf, Accepted
------------------------------------------------------------------------------
(* The amounts *)

\* Is the name written for the last time, if at all, once the nodes are evaluated?
Stable(x, done) ==
  IF x = "CTC" THEN ~Called("CTC")
  ELSE x \in Names /\ Tracked(x) /\ {CompNode(x), VarNode(x)} \cap Nodes \subseteq done

\* What the definitions give on the names e, of a line of the template ...
LineSettled(l, e) ==
  l.code \in Emitting /\ Ordered(Definition(l.comp)) =>
    l.val = Emitted(l.comp, Amount(Definition(l.comp), e))

\* ... and of a name, one of whose nodes is evaluated.
NameSettled(x, done, e, ls) ==
  /\ Tracked(x) /\ (x \in setup.vars => Ordered(setup.expr[x]))
  /\ VarNode(x) \in done \/ (x \in Emitting /\ CompNode(x) \in done)
  => \/ x \in setup.vars /\ VarNode(x) \in done /\ e[x] = VariableAmount(x, e)
     \/ \E l \in ls : l.code = x /\ l.val = e[x]

AmountsIInv ==
  /\ DOMAIN env = Names \cup {"CTC"}
  /\ ~Called("CTC") => env["CTC"] = Value(CTC, 0)
  /\ \A l \in Range(lines) : LineSettled(l, env)
  /\ \A x \in Names : NameSettled(x, Evaluated, env, Range(lines))

LEMMA AmountsKept ==
  ASSUME setup' = setup
  PROVE  /\ \A x : (Called(x)' <=> Called(x)) /\ (Tracked(x)' <=> Tracked(x))
         /\ \A d, e : Amount(d, e)' = Amount(d, e)
         /\ \A c, v : Emitted(c, v)' = Emitted(c, v)
         /\ \A l, e : LineSettled(l, e)' <=> LineSettled(l, e)
         /\ \A x, done, e, ls : NameSettled(x, done, e, ls)' <=> NameSettled(x, done, e, ls)
<1>1. \A x : (Called(x)' <=> Called(x)) /\ (Tracked(x)' <=> Tracked(x))
  BY BundleKept, PartsKept DEF Called, Tracked
<1>2. \A d : Ordered(d)' <=> Ordered(d)
  BY <1>1 DEF Ordered
<1>3. \A d, e : Amount(d, e)' = Amount(d, e)
  BY DEF Amount, Lookup, Half, Cut, Value
<1>4. \A c, v : Emitted(c, v)' = Emitted(c, v)
  BY DEF Emitted, CutBy, Prorating, Cut, Value
<1>5. \A l, e : LineSettled(l, e)' <=> LineSettled(l, e)
  BY <1>2, <1>3, <1>4, BundleKept, PartsKept DEF LineSettled
<1>6. \A v : Cut(v)' = Cut(v)
  BY DEF Cut
<1>7. \A x, e : VariableAmount(x, e)' = VariableAmount(x, e)
  BY <1>3, <1>6 DEF VariableAmount
<1>8. \A x, done, e, ls : NameSettled(x, done, e, ls)' <=> NameSettled(x, done, e, ls)
  BY <1>1, <1>2, <1>7, PartsKept DEF NameSettled, VarNode, CompNode
<1> QED BY <1>1, <1>3, <1>4, <1>5, <1>8

\* An amount depends on nothing but the names its definition reads.
LEMMA LookupSame ==
  ASSUME NEW e, NEW f, NEW ns, \A n \in ns : e[n] = f[n]
  PROVE  Lookup(e, ns) = Lookup(f, ns)
<1> DEFINE known == {n \in ns : e[n].set}
<1>1. known = {n \in ns : f[n].set}
  OBVIOUS
<1>2. [n \in known |-> e[n].amt] = [n \in known |-> f[n].amt]
  OBVIOUS
<1>3. {e[n].cuts : n \in known} = {f[n].cuts : n \in known}
  OBVIOUS
<1> HIDE DEF known
<1> QED BY <1>1, <1>2, <1>3 DEF Lookup, known

LEMMA AmountSame ==
  ASSUME NEW d, NEW e, NEW f, d.how \in Reading => \A x \in d.of : e[x] = f[x]
  PROVE  Amount(d, e) = Amount(d, f)
<1>1. CASE d.how \in Reading
  <2>1. Lookup(e, d.of) = Lookup(f, d.of)
    BY <1>1, LookupSame
  <2> QED BY <2>1 DEF Amount
<1>2. CASE d.how \notin Reading
  BY <1>2 DEF Amount, Reading
<1> QED BY <1>1, <1>2

\* What an ordered definition reads is written for the last time before its node comes.
LEMMA ReadsStable ==
  ASSUME setup \in Setups, NEW n \in Nodes, n[1] \in {"comp", "dv"}, NEW done, Uses(n) \subseteq done,
         Ordered(DefinitionOf(n)), DefinitionOf(n).how \in Reading, NEW x \in DefinitionOf(n).of
  PROVE  Stable(x, done)
<1> DEFINE d == DefinitionOf(n)
<1>1. CASE x = "CTC"
  BY <1>1 DEF Ordered, Stable
<1>2. CASE x # "CTC"
  <2>1. d.exact /\ Tracked(x)
    BY <1>2 DEF Ordered
  <2>2. x \in Dependencies(d)
    BY <1>2, <2>1 DEF Dependencies
  <2>3. ASSUME NEW m \in {CompNode(x), VarNode(x)} \cap Nodes PROVE m \in Uses(n)
    BY <2>2, <2>3 DEF Uses, CompNode, VarNode
  <2>4. x \in Names
    <3>1. CASE n[1] = "comp"
      BY <3>1, NodeKinds, LinkedFacts, BundleFacts DEF DefinitionOf
    <3>2. CASE n[1] = "dv"
      BY <3>2, NodeKinds, BundleFacts DEF DefinitionOf
    <3> QED BY <3>1, <3>2
  <2> QED BY <1>2, <2>1, <2>3, <2>4 DEF Stable
<1> QED BY <1>1, <1>2

LEMMA SameOnStable ==
  ASSUME setup \in Setups, NEW n \in Nodes, n[1] \in {"comp", "dv"}, NEW done, Uses(n) \subseteq done,
         Ordered(DefinitionOf(n)), NEW e, NEW f, \A x : Stable(x, done) => f[x] = e[x]
  PROVE  Amount(DefinitionOf(n), e) = Amount(DefinitionOf(n), f)
<1>1. DefinitionOf(n).how \in Reading => \A x \in DefinitionOf(n).of : e[x] = f[x]
  BY ReadsStable
<1> QED BY <1>1, AmountSame

\* A step that leaves what is stable leaves what was settled.
LEMMA StaysSettled ==
  ASSUME SortIInv, EvalIInv, AmountsIInv, NEW f, \A x : Stable(x, Evaluated) => f[x] = env[x],
         NEW ls, Range(lines) \subseteq ls
  PROVE  /\ ~Called("CTC") => f["CTC"] = Value(CTC, 0)
         /\ \A l \in Range(lines) : LineSettled(l, f)
         /\ \A x \in Names : f[x] = env[x] => NameSettled(x, Evaluated, f, ls)
<1>1. ~Called("CTC") => f["CTC"] = Value(CTC, 0)
  BY DEF Stable, AmountsIInv
<1>2. ASSUME NEW l \in Range(lines), l.code \in Emitting, Ordered(Definition(l.comp))
      PROVE  l.val = Emitted(l.comp, Amount(Definition(l.comp), f))
  <2> DEFINE n == CompNode(l.code)
  <2>1. l.comp = Linked(l.code) /\ l.code \in Codes
    BY <1>2 DEF EvalIInv, LineOf, Codes, Range
  <2>2. n \in Evaluated /\ n \in Nodes /\ Uses(n) \subseteq Evaluated
    BY <1>2, <2>1, EvaluatedFacts DEF EvalIInv
  <2>3. DefinitionOf(n) = Definition(l.comp) /\ n[1] = "comp"
    BY <2>1 DEF DefinitionOf, CompNode
  <2> HIDE DEF n
  <2>4. Ordered(DefinitionOf(n)) /\ setup \in Setups
    BY <1>2, <2>3 DEF SortIInv
  <2>5. Amount(DefinitionOf(n), env) = Amount(DefinitionOf(n), f)
    BY <2>2, <2>3, <2>4, SameOnStable
  <2> QED BY <1>2, <2>3, <2>5 DEF AmountsIInv, LineSettled
<1>3. ASSUME NEW x \in Names, f[x] = env[x], Tracked(x),
             x \in setup.vars => Ordered(setup.expr[x]),
             VarNode(x) \in Evaluated \/ (x \in Emitting /\ CompNode(x) \in Evaluated)
      PROVE  \/ x \in setup.vars /\ VarNode(x) \in Evaluated /\ f[x] = VariableAmount(x, f)
             \/ \E l \in ls : l.code = x /\ l.val = f[x]
  <2>1. CASE x \in setup.vars /\ VarNode(x) \in Evaluated /\ env[x] = VariableAmount(x, env)
    <3> DEFINE n == VarNode(x)
    <3>1. n \in Evaluated /\ n \in Nodes /\ Uses(n) \subseteq Evaluated
      BY <2>1, EvaluatedFacts
    <3>2. DefinitionOf(n) = setup.expr[x] /\ n[1] = "dv"
      BY DEF DefinitionOf, VarNode
    <3> HIDE DEF n
    <3>3. Ordered(DefinitionOf(n)) /\ setup \in Setups
      BY <1>3, <2>1, <3>2 DEF SortIInv
    <3>4. Amount(DefinitionOf(n), env) = Amount(DefinitionOf(n), f)
      BY <3>1, <3>2, <3>3, SameOnStable
    <3> QED BY <1>3, <2>1, <3>2, <3>4 DEF VariableAmount
  <2>2. CASE \E l \in Range(lines) : l.code = x /\ l.val = env[x]
    BY <1>3, <2>2
  <2> QED BY <1>3, <2>1, <2>2 DEF AmountsIInv, NameSettled
<1> QED BY <1>1, <1>2, <1>3 DEF LineSettled, NameSettled

LEMMA AmountsGoOver ==
  ASSUME setup' = setup, DOMAIN env' = Names \cup {"CTC"},
         ~Called("CTC") => env'["CTC"] = Value(CTC, 0),
         \A l \in Range(lines') : LineSettled(l, env'),
         \A x \in Names : NameSettled(x, Evaluated', env', Range(lines'))
  PROVE  AmountsIInv'
BY AmountsKept DEF AmountsIInv

LEMMA AmountsInit == PayInit => AmountsIInv
<1> SUFFICES ASSUME PayInit PROVE AmountsIInv
  OBVIOUS
<1>1. step = 0 /\ lines = <<>> /\ env = Given
  BY DEF PayInit
<1>2. Evaluated = {} /\ Range(lines) = {}
  BY <1>1 DEF Evaluated, Range
<1>3. DOMAIN env = Names \cup {"CTC"} /\ env["CTC"] = Value(CTC, 0)
  BY <1>1 DEF Given
<1> QED BY <1>2, <1>3 DEF AmountsIInv, NameSettled

\* Nothing is written, and no node that gives a name its amount is evaluated.
LEMMA AmountsStay ==
  ASSUME SortIInv, EvalIInv, AmountsIInv, UNCHANGED <<setup, env, lines>>,
         Evaluated \subseteq Evaluated',
         \A x : VarNode(x) \in Evaluated' => VarNode(x) \in Evaluated,
         \A x \in Emitting : CompNode(x) \in Evaluated' => CompNode(x) \in Evaluated
  PROVE  AmountsIInv'
<1>1. \A x \in Names : NameSettled(x, Evaluated', env', Range(lines'))
  BY DEF AmountsIInv, NameSettled
<1> QED BY <1>1, AmountsGoOver DEF AmountsIInv

LEMMA AmountsVariable == ASSUME SortIInv, EvalIInv, AmountsIInv, EvalVariable PROVE AmountsIInv'
<1>1. /\ Evaluating("dv") /\ env' = [env EXCEPT ![Subject] = VariableAmount(Subject, env)]
      /\ UNCHANGED <<setup, order, lines>> /\ step' = step + 1
  BY DEF EvalVariable
<1>2. /\ Current \in Nodes /\ Current[1] = "dv" /\ Current \notin Evaluated
      /\ Uses(Current) \subseteq Evaluated /\ Evaluated' = Evaluated \cup {Current}
  BY <1>1, CurrentFacts
<1>3. Subject \in setup.vars /\ Current = VarNode(Subject) /\ Subject \in Names
  BY <1>2, NodeKinds, BundleFacts DEF Subject, SortIInv
<1>4. /\ DOMAIN env' = Names \cup {"CTC"} /\ env'[Subject] = VariableAmount(Subject, env)
      /\ \A x \in Names \cup {"CTC"} : x # Subject => env'[x] = env[x]
  BY <1>1, <1>3 DEF AmountsIInv
<1>5. ~Stable(Subject, Evaluated)
  BY <1>2, <1>3 DEF Stable, Called
<1>6. \A x : Stable(x, Evaluated) => env'[x] = env[x]
  BY <1>4, <1>5 DEF Stable
<1>7. /\ ~Called("CTC") => env'["CTC"] = Value(CTC, 0)
      /\ \A l \in Range(lines') : LineSettled(l, env')
      /\ \A x \in Names : env'[x] = env[x] => NameSettled(x, Evaluated, env', Range(lines'))
  BY <1>1, <1>6, StaysSettled
<1>8. ASSUME NEW x \in Names PROVE NameSettled(x, Evaluated', env', Range(lines'))
  <2>1. CASE x = Subject
    <3>1. DefinitionOf(Current) = setup.expr[x]
      BY <1>3, <2>1 DEF DefinitionOf, VarNode
    <3>2. PICK f : f = env'
      OBVIOUS
    <3>3. ASSUME Ordered(setup.expr[x]) PROVE f[x] = VariableAmount(x, f)
      <4>1. Ordered(DefinitionOf(Current)) /\ setup \in Setups
        BY <3>1, <3>3 DEF SortIInv
      <4>2. \A y : Stable(y, Evaluated) => f[y] = env[y]
        BY <1>6, <3>2
      <4>3. Amount(DefinitionOf(Current), env) = Amount(DefinitionOf(Current), f)
        BY <1>2, <4>1, <4>2, SameOnStable
      <4> QED BY <1>4, <2>1, <3>1, <3>2, <4>3 DEF VariableAmount
    <3>4. NameSettled(x, Evaluated', f, Range(lines'))
      BY <1>2, <1>3, <2>1, <3>3 DEF NameSettled
    <3> QED BY <3>2, <3>4
  <2>2. CASE x # Subject
    <3>1. NameSettled(x, Evaluated, env', Range(lines'))
      BY <1>4, <1>7, <2>2
    <3>2. Current # VarNode(x) /\ Current # CompNode(x)
      BY <1>3, <2>2 DEF VarNode, CompNode
    <3> QED BY <1>2, <3>1, <3>2 DEF NameSettled
  <2> QED BY <2>1, <2>2
<1> QED BY <1>1, <1>4, <1>7, <1>8, AmountsGoOver

\* What a line does to the context.
LEMMA Written ==
  ASSUME SortIInv, AmountsIInv, NEW c \in Comps, NEW v, Code(c) # NoCode, AddLine(c, v)
  PROVE  /\ DOMAIN env' = Names \cup {"CTC"}
         /\ \A x \in {Code(c), setup.name[c]} : x \in Names /\ env'[x] = v
         /\ \A x \in Names \cup {"CTC"} : x \notin {Code(c), setup.name[c]} => env'[x] = env[x]
<1>1. DOMAIN env = Names \cup {"CTC"}
  BY DEF AmountsIInv
<1>2. env' = [x \in DOMAIN env |-> IF x \in {Code(c), setup.name[c]} THEN v ELSE env[x]]
  BY DEF AddLine
<1>3. Code(c) \in Names /\ setup.name[c] \in Names
  BY BundleFacts DEF SortIInv
<1>4. \A x \in {Code(c), setup.name[c]} : x \in Names /\ env'[x] = v
  BY <1>1, <1>2, <1>3
<1>5. ASSUME NEW x \in Names \cup {"CTC"}, x \notin {Code(c), setup.name[c]} PROVE env'[x] = env[x]
  BY <1>1, <1>2, <1>5
<1> QED BY <1>1, <1>2, <1>4, <1>5

\* The component of a node: its line is what its definition gives, as is the name.
LEMMA AmountsComponent == ASSUME SortIInv, EvalIInv, AmountsIInv, EvalComponent PROVE AmountsIInv'
<1> DEFINE c == Linked(Subject)
           d == Definition(c)
<1>1. /\ Evaluating("comp") /\ UNCHANGED <<setup, order>> /\ step' = step + 1
      /\ d.how \in {"system", "other"} => UNCHANGED <<env, lines>>
      /\ d.how \notin {"system", "other"} => AddLine(c, Emitted(c, Amount(d, env)))
  BY DEF EvalComponent
<1>2. /\ Current \in Nodes /\ Current[1] = "comp" /\ Current \notin Evaluated
      /\ Uses(Current) \subseteq Evaluated /\ Evaluated' = Evaluated \cup {Current}
  BY <1>1, CurrentFacts
<1>3. /\ Current = CompNode(Subject) /\ c \in Comps /\ Code(c) = Subject
      /\ Subject # NoCode /\ Subject \in Names /\ Subject \in TemplateCodes
      /\ Subject \in Emitting <=> d.how \notin {"system", "other"}
      /\ Subject \in Emitting => Subject \notin Codes
  BY <1>1, ComponentFacts
<1>4. DefinitionOf(Current) = d /\ setup \in Setups
  BY <1>3 DEF DefinitionOf, CompNode, SortIInv
<1>5. PICK v : v = Emitted(c, Amount(d, env))
  OBVIOUS
<1>6. Subject \in Emitting => c = Linked(Code(c))
  BY <1>3
<1> HIDE DEF c, d
<1>7. CASE Subject \notin Emitting
  <2>1. \A x : Current # VarNode(x) /\ (x \in Emitting => Current # CompNode(x))
    BY <1>3, <1>7 DEF VarNode, CompNode
  <2> QED BY <1>1, <1>2, <1>3, <1>7, <2>1, AmountsStay
<1>8. CASE Subject \in Emitting
  <2>1. AddLine(c, v)
    BY <1>1, <1>3, <1>5, <1>8
  <2>2. /\ DOMAIN env' = Names \cup {"CTC"} /\ env'[Subject] = v
        /\ \A x \in Names \cup {"CTC"} : x \notin {Subject, setup.name[c]} => env'[x] = env[x]
    BY <1>3, <2>1, Written
  <2>3. Range(lines') = Range(lines) \cup {[comp |-> c, code |-> Subject, val |-> v]}
    <3>1. lines' = Append(lines, [comp |-> c, code |-> Code(c), val |-> v])
      BY <2>1 DEF AddLine
    <3> QED BY <1>3, <1>6, <1>8, <3>1, LineAdded
  <2>4. \A x \in {Subject, setup.name[c]} : ~Stable(x, Evaluated)
    BY <1>2, <1>3 DEF Stable, Called, Tracked
  <2>5. \A x : Stable(x, Evaluated) => env'[x] = env[x]
    BY <2>2, <2>4 DEF Stable
  <2>6. /\ ~Called("CTC") => env'["CTC"] = Value(CTC, 0)
        /\ \A l \in Range(lines) : LineSettled(l, env')
        /\ \A x \in Names : env'[x] = env[x] => NameSettled(x, Evaluated, env', Range(lines'))
    BY <2>3, <2>5, StaysSettled
  <2>7. ASSUME NEW l, l = [comp |-> c, code |-> Subject, val |-> v] PROVE LineSettled(l, env')
    <3>1. PICK f : f = env'
      OBVIOUS
    <3>2. \A y : Stable(y, Evaluated) => f[y] = env[y]
      BY <2>5, <3>1
    <3>3. ASSUME Ordered(d) PROVE v = Emitted(c, Amount(d, f))
      <4>1. Amount(d, env) = Amount(d, f)
        BY <1>2, <1>4, <3>2, <3>3, SameOnStable
      <4> QED BY <1>5, <4>1
    <3>4. LineSettled(l, f)
      BY <2>7, <3>3 DEF LineSettled, d
    <3> QED BY <3>1, <3>4
  <2>8. ASSUME NEW x \in Names PROVE NameSettled(x, Evaluated', env', Range(lines'))
    <3>1. CASE x = Subject
      <4>1. PICK l : l = [comp |-> c, code |-> Subject, val |-> v]
        OBVIOUS
      <4>2. l \in Range(lines') /\ l.code = x /\ l.val = env'[x]
        BY <2>2, <2>3, <3>1, <4>1
      <4> QED BY <4>2 DEF NameSettled
    <3>2. CASE x # Subject /\ x = setup.name[c]
      BY <1>3, <3>2 DEF NameSettled, Tracked
    <3>3. CASE x # Subject /\ x # setup.name[c]
      <4>1. NameSettled(x, Evaluated, env', Range(lines'))
        BY <2>2, <2>6, <3>3
      <4>2. Current # VarNode(x) /\ Current # CompNode(x)
        BY <1>3, <3>3 DEF VarNode, CompNode
      <4> QED BY <1>2, <4>1, <4>2 DEF NameSettled
    <3> QED BY <3>1, <3>2, <3>3
  <2> QED BY <1>1, <2>2, <2>3, <2>6, <2>7, <2>8, AmountsGoOver
<1> QED BY <1>7, <1>8

\* An item of a group writes only what nothing in the graph waits for.
LEMMA AmountsItem == ASSUME SortIInv, EvalIInv, AmountsIInv, EvalItem PROVE AmountsIInv'
<1> DEFINE c == Head(queue)
<1>1. /\ UNCHANGED <<setup, order, step>>
      /\ Code(c) = NoCode \/ AlreadyPaid(Code(c)) => UNCHANGED <<env, lines>>
      /\ ~(Code(c) = NoCode \/ AlreadyPaid(Code(c))) => AddLine(c, Emitted(c, ItemAmount(c)))
  BY DEF EvalItem
<1>2. /\ c \in Comps
      /\ AlreadyPaid(Code(c)) <=> Code(c) \in Codes
      /\ Code(c) \in Emitting => Code(c) \in Codes
  BY ItemFacts
<1>3. PICK v : v = Emitted(c, ItemAmount(c))
  OBVIOUS
<1> HIDE DEF c
<1>4. Evaluated' = Evaluated
  BY <1>1 DEF Evaluated
<1>5. CASE Code(c) = NoCode \/ Code(c) \in Codes
  BY <1>1, <1>2, <1>4, <1>5, AmountsStay
<1>6. CASE Code(c) # NoCode /\ Code(c) \notin Codes
  <2>1. AddLine(c, v)
    BY <1>1, <1>2, <1>3, <1>6
  <2>2. /\ DOMAIN env' = Names \cup {"CTC"}
        /\ \A x \in Names \cup {"CTC"} : x \notin {Code(c), setup.name[c]} => env'[x] = env[x]
    BY <1>2, <1>6, <2>1, Written
  <2>3. Range(lines') = Range(lines) \cup {[comp |-> c, code |-> Code(c), val |-> v]}
    <3>1. lines' = Append(lines, [comp |-> c, code |-> Code(c), val |-> v])
      BY <2>1 DEF AddLine
    <3> QED BY <1>2, <1>6, <3>1, LineAdded
  <2>4. \A x \in {Code(c), setup.name[c]} : ~Tracked(x) /\ ~Stable(x, Evaluated)
    BY <1>2, <1>6 DEF Stable, Called, Tracked
  <2>5. \A x : Stable(x, Evaluated) => env'[x] = env[x]
    BY <2>2, <2>4 DEF Stable
  <2>6. /\ ~Called("CTC") => env'["CTC"] = Value(CTC, 0)
        /\ \A l \in Range(lines) : LineSettled(l, env')
        /\ \A x \in Names : env'[x] = env[x] => NameSettled(x, Evaluated, env', Range(lines'))
    BY <2>3, <2>5, StaysSettled
  <2>7. LineSettled([comp |-> c, code |-> Code(c), val |-> v], env')
    BY <1>2, <1>6 DEF LineSettled
  <2>8. ASSUME NEW x \in Names PROVE NameSettled(x, Evaluated', env', Range(lines'))
    <3>1. CASE x \in {Code(c), setup.name[c]}
      BY <2>4, <3>1 DEF NameSettled
    <3>2. CASE x \notin {Code(c), setup.name[c]}
      BY <1>4, <2>2, <2>6, <3>2
    <3> QED BY <3>1, <3>2
  <2> QED BY <1>1, <2>2, <2>3, <2>6, <2>7, <2>8, AmountsGoOver
<1> QED BY <1>5, <1>6

LEMMA AmountsStep ==
  SortIInv /\ EvalIInv /\ EvalIInv' /\ AmountsIInv /\ [PayNext]_engineVars => AmountsIInv'
<1> SUFFICES ASSUME SortIInv, EvalIInv, EvalIInv', AmountsIInv, [PayNext]_engineVars
             PROVE  AmountsIInv'
  OBVIOUS
<1>1. CASE UNCHANGED engineVars
  <2>1. Evaluated' = Evaluated
    BY <1>1 DEF engineVars, Evaluated
  <2> QED BY <1>1, <2>1, AmountsStay DEF engineVars
<1>2. ASSUME stage = "sort", UNCHANGED <<setup, env, lines, step>> PROVE AmountsIInv'
  <2>1. Evaluated = {} /\ Evaluated' = {}
    BY <1>2 DEF EvalIInv, Evaluated
  <2> QED BY <1>2, <2>1, AmountsStay
<1>3. ASSUME NEW m \in SortedSet, VisitDependency(m) PROVE AmountsIInv'
  BY <1>2, <1>3 DEF VisitDependency
<1>4. CASE VisitRoot \/ FindCycle \/ FinishVisit \/ Sorting
  BY <1>2, <1>4 DEF VisitRoot, FindCycle, FinishVisit, Sorting
<1>5. CASE EvalVariable \/ EvalComponent \/ EvalItem
  BY <1>5, AmountsVariable, AmountsComponent, AmountsItem
<1>6. ASSUME NEW kind \in {"grp", "sys"}, Evaluating(kind), step' = step + 1,
             UNCHANGED <<setup, order, env, lines>>
      PROVE  AmountsIInv'
  <2>1. Current[1] = kind /\ Evaluated' = Evaluated \cup {Current}
    BY <1>6, CurrentFacts
  <2>2. \A x : Current # VarNode(x) /\ Current # CompNode(x)
    BY <2>1 DEF VarNode, CompNode
  <2> QED BY <1>6, <2>1, <2>2, AmountsStay
<1>7. CASE EvalGroup \/ EvalStatutory
  BY <1>6, <1>7 DEF EvalGroup, EvalStatutory
<1>8. CASE EvalEnd
  <2>1. Evaluated' = Evaluated
    BY <1>8 DEF EvalEnd, Evaluated
  <2> QED BY <1>8, <2>1, AmountsStay DEF EvalEnd
<1> QED BY <1>1, <1>3, <1>4, <1>5, <1>7, <1>8 DEF PayNext

LEMMA EngineInvariant == PaySpec => [](SortIInv /\ EvalIInv /\ AmountsIInv)
BY SortInit, SortStep, EvalInit, EvalStep, AmountsInit, AmountsStep, PTL DEF PaySpec

LEMMA AmountsFinal == ASSUME SortIInv, EvalIInv, AmountsIInv PROVE FinalAmounts
<1> SUFFICES ASSUME stage = "done" PROVE FinalAmounts
  BY DEF FinalAmounts, Accepted
<1>1. ASSUME NEW i \in DOMAIN lines, lines[i].code \in Emitting,
             Ordered(Definition(Linked(lines[i].code)))
      PROVE  /\ lines[i].comp = Linked(lines[i].code)
             /\ lines[i].val = Emitted(Linked(lines[i].code),
                                       Amount(Definition(Linked(lines[i].code)), env))
  <2>1. PICK l : l = lines[i]
    OBVIOUS
  <2>2. l \in Range(lines)
    BY <2>1 DEF Range
  <2> QED BY <1>1, <2>1, <2>2 DEF AmountsIInv, LineSettled, EvalIInv, LineOf
<1>2. ASSUME NEW x \in Emitting \cup setup.vars, Tracked(x),
             x \in setup.vars => Ordered(setup.expr[x])
      PROVE  \/ x \in setup.vars /\ env[x] = VariableAmount(x, env)
             \/ \E i \in DOMAIN lines : lines[i].code = x /\ lines[i].val = env[x]
  <2>1. Evaluated = Nodes
    BY AllEvaluated
  <2>2. x \in Names
    BY <1>2, BundleFacts, LinkedFacts DEF SortIInv, Emitting
  <2>3. VarNode(x) \in Evaluated \/ (x \in Emitting /\ CompNode(x) \in Evaluated)
    BY <1>2, <2>1, NodeKinds DEF Emitting
  <2>4. \/ x \in setup.vars /\ env[x] = VariableAmount(x, env)
        \/ \E l \in Range(lines) : l.code = x /\ l.val = env[x]
    BY <1>2, <2>2, <2>3 DEF AmountsIInv, NameSettled
  <2> QED BY <2>4 DEF Range
<1> QED BY <1>1, <1>2 DEF FinalAmounts

\* PaidAsDefined holds for every bundle and whatever order sets iterate in: the sort refuses
\* just the circles, every amount is what its definition gives on the final amounts as
\* long as the graph knows the names it reads, and every code is paid on one line.
THEOREM PayAlwaysAsDefined == PaySpec => []PaidAsDefined
<1>1. SortIInv /\ EvalIInv /\ AmountsIInv => PaidAsDefined
  BY SortIsRight, AmountsFinal, PaidJustOnce DEF PaidAsDefined
<1> QED BY <1>1, EngineInvariant, PTL
------------------------------------------------------------------------------
(* A short month *)

\* How often the factor is in a line: as ShortMonthReachesPay says.
LineOK(l) ==
  LET c == l.comp
      d == Definition(c) IN
  setup.short /\ setup.cat[c] = "earning" =>
    /\ d.how = "days" \/ (setup.open[c] /\ ~setup.signal[c]) => l.val.cuts >= 1
    /\ \/ d.how = "fixed" /\ Alone(c)
       \/ d.how \in Reading /\ d.of \subseteq {"CTC"} /\ ~Called("CTC")
       => l.val.cuts <= 1

CutsIInv ==
  /\ \A x \in Names \cup {"CTC"} : env[x].cuts \in Nat
  /\ last.cuts \in Nat
  /\ \A c \in Comps : Alone(c) /\ Code(c) # NoCode /\ Code(c) \notin Codes => env[Code(c)].cuts = 0
  /\ \A l \in Range(lines) : LineOK(l)

LEMMA CutsKept ==
  ASSUME setup' = setup
  PROVE  /\ \A c : Alone(c)' <=> Alone(c)
         /\ \A l : LineOK(l)' <=> LineOK(l)
<1>1. \A c : Alone(c)' <=> Alone(c)
  BY BundleKept DEF Alone
<1>2. \A l : LineOK(l)' <=> LineOK(l)
  BY <1>1, AmountsKept, BundleKept DEF LineOK
<1> QED BY <1>1, <1>2

\* The factor is in a sum as often as in the name that has it most often.
LEMMA LookupCuts ==
  ASSUME NEW e, NEW ns, IsFiniteSet(ns), \A n \in ns : e[n].cuts \in Nat
  PROVE  /\ Lookup(e, ns).cuts \in Nat
         /\ (\A n \in ns : e[n].cuts = 0) => Lookup(e, ns).cuts = 0
<1> DEFINE known == {n \in ns : e[n].set}
           C == {e[n].cuts : n \in known}
           S == {0} \cup C
<1>1. IsFiniteSet(known)
  BY FS_Subset
<1>2. IsFiniteSet(C)
  <2> DEFINE f == [n \in known |-> e[n].cuts]
  <2>1. f \in Surjection(known, C)
    BY DEF Surjection
  <2> HIDE DEF f, C, known
  <2> QED BY <1>1, <2>1, FS_Surjection
<1>3. IsFiniteSet(S)
  BY <1>2, FS_AddElement
<1>4. S \subseteq Nat /\ S # {}
  OBVIOUS
<1>5. Max(S) \in S
  BY <1>3, <1>4, MaxExists
<1>6. Lookup(e, ns).cuts = Max(S)
  BY DEF Lookup, Value
<1> QED BY <1>4, <1>5, <1>6

LEMMA AmountCuts ==
  ASSUME NEW d, IsFiniteSet(d.of), d.of \subseteq Names,
         NEW e, \A x \in Names \cup {"CTC"} : e[x].cuts \in Nat
  PROVE  /\ Amount(d, e).cuts \in Nat
         /\ d.how = "fixed" => Amount(d, e).cuts = 0
         /\ d.how = "days" /\ setup.short => Amount(d, e).cuts >= 1
         /\ d.how \in Reading /\ d.of \subseteq {"CTC"} /\ e["CTC"].cuts = 0 =>
              Amount(d, e).cuts = IF d.how = "days" /\ setup.short THEN 1 ELSE 0
<1> DEFINE l == Lookup(e, d.of)
           a == Amount(d, e)
<1>1. l.cuts \in Nat /\ (d.of \subseteq {"CTC"} /\ e["CTC"].cuts = 0 => l.cuts = 0)
  <2>1. \A x \in d.of : e[x].cuts \in Nat
    OBVIOUS
  <2>2. d.of \subseteq {"CTC"} /\ e["CTC"].cuts = 0 => \A x \in d.of : e[x].cuts = 0
    OBVIOUS
  <2> QED BY <2>1, <2>2, LookupCuts
<1>2. /\ d.how = "fixed" => a = Value(CTC, 0)
      /\ d.how = "percentage" => a = Half(l)
      /\ d.how = "formula" => a = l
      /\ d.how = "days" => a = Cut(l)
      /\ d.how \notin Reading \cup {"fixed"} => a = Zero
  BY DEF Amount, Reading
<1> HIDE DEF l, a
<1>3. /\ Value(CTC, 0).cuts = 0 /\ Zero.cuts = 0 /\ Half(l).cuts = l.cuts
      /\ Cut(l).cuts = IF setup.short THEN l.cuts + 1 ELSE l.cuts
  BY DEF Value, Zero, Half, Cut
<1>4. CASE d.how = "fixed"
  BY <1>2, <1>3, <1>4 DEF a, Reading
<1>5. CASE d.how \in {"percentage", "formula"}
  BY <1>1, <1>2, <1>3, <1>5 DEF a, Reading
<1>6. CASE d.how = "days"
  BY <1>1, <1>2, <1>3, <1>6 DEF a, Reading
<1>7. CASE d.how \notin Reading \cup {"fixed"}
  BY <1>2, <1>3, <1>7 DEF a, Reading
<1> QED BY <1>4, <1>5, <1>6, <1>7 DEF Reading

\* The line of a component whose amount has the factor as often as its definition asks.
CutsAsDefined(c, v) ==
  LET d == Definition(c) IN
  /\ v.cuts \in Nat
  /\ d.how = "days" /\ setup.short => v.cuts >= 1
  /\ d.how = "fixed" /\ Alone(c) => v.cuts = 0
  /\ d.how \in Reading /\ d.of \subseteq {"CTC"} /\ ~Called("CTC") =>
       v.cuts = IF d.how = "days" /\ setup.short THEN 1 ELSE 0

LEMMA EmittedLine ==
  ASSUME setup \in Setups, NEW c \in Comps, NEW v, CutsAsDefined(c, v), NEW l,
         l.comp = c, l.val = Emitted(c, v)
  PROVE  Emitted(c, v).cuts \in Nat /\ LineOK(l)
<1>1. Emitted(c, v).cuts = IF CutBy(c) /\ setup.short THEN v.cuts + 1 ELSE v.cuts
  BY DEF Emitted, Cut, Value
<1>2. v.cuts \in Nat
  BY DEF CutsAsDefined
<1>3. Definition(c).how = "days" => setup.signal[c]
  BY BundleFacts
<1>4. ASSUME setup.short, setup.cat[c] = "earning"
      PROVE  CutBy(c) <=> setup.open[c] /\ ~setup.signal[c]
  BY <1>4 DEF CutBy, Prorating
<1>5. ASSUME setup.short, setup.cat[c] = "earning",
             Definition(c).how = "days" \/ (setup.open[c] /\ ~setup.signal[c])
      PROVE  Emitted(c, v).cuts >= 1
  <2>1. CASE CutBy(c)
    BY <1>1, <1>2, <1>5, <2>1
  <2>2. CASE ~CutBy(c)
    <3>1. v.cuts >= 1
      BY <1>4, <1>5, <2>2 DEF CutsAsDefined
    <3> QED BY <1>1, <2>2, <3>1
  <2> QED BY <2>1, <2>2
<1>6. ASSUME setup.short, setup.cat[c] = "earning",
             \/ Definition(c).how = "fixed" /\ Alone(c)
             \/ Definition(c).how \in Reading /\ Definition(c).of \subseteq {"CTC"} /\ ~Called("CTC")
      PROVE  Emitted(c, v).cuts <= 1
  <2>1. CASE Definition(c).how = "days"
    <3>1. v.cuts = 1 /\ ~CutBy(c)
      BY <1>3, <1>4, <1>6, <2>1 DEF CutsAsDefined
    <3> QED BY <1>1, <3>1
  <2>2. CASE Definition(c).how # "days"
    <3>1. v.cuts = 0
      BY <1>6, <2>2 DEF CutsAsDefined
    <3> QED BY <1>1, <3>1
  <2> QED BY <2>1, <2>2
<1> QED BY <1>1, <1>2, <1>5, <1>6 DEF LineOK

LEMMA CutsInit == PayInit => CutsIInv
<1> SUFFICES ASSUME PayInit PROVE CutsIInv
  OBVIOUS
<1>1. env = Given /\ last = Unset /\ lines = <<>> /\ setup \in Setups
  BY DEF PayInit
<1>2. \A x \in Names \cup {"CTC"} : Given[x].cuts = 0
  BY DEF Given, Value, Unset
<1>3. last.cuts = 0 /\ Range(lines) = {}
  BY <1>1 DEF Unset, Range
<1>4. \A c \in Comps : Code(c) # NoCode => Code(c) \in Names
  BY <1>1, BundleFacts
<1> QED BY <1>1, <1>2, <1>3, <1>4 DEF CutsIInv

\* CutsIInv goes over to a state of which it says the same.
LEMMA CutsGoOver ==
  ASSUME setup' = setup, \A x \in Names \cup {"CTC"} : env'[x].cuts \in Nat, last'.cuts \in Nat,
         \A c \in Comps : Alone(c) /\ Code(c) # NoCode /\ Code(c) \notin Codes' => env'[Code(c)].cuts = 0,
         \A l \in Range(lines') : LineOK(l)
  PROVE  CutsIInv'
<1>1. \A c \in Comps' : Alone(c)' /\ Code(c)' # NoCode /\ Code(c)' \notin Codes' => env'[Code(c)'].cuts = 0
  BY CutsKept, BundleKept
<1>2. \A l \in Range(lines') : LineOK(l)'
  BY CutsKept
<1> QED BY <1>1, <1>2 DEF CutsIInv

LEMMA CutsStay ==
  ASSUME CutsIInv, UNCHANGED <<setup, env, lines>>, last'.cuts \in Nat
  PROVE  CutsIInv'
<1>1. Codes' = Codes
  BY DEF Codes
<1> QED BY <1>1, CutsGoOver DEF CutsIInv

LEMMA CutsLine ==
  ASSUME SortIInv, EvalIInv, AmountsIInv, CutsIInv, setup' = setup, NEW c \in Comps, NEW v,
         CutsAsDefined(c, v), Code(c) # NoCode, Code(c) \notin Codes,
         Code(c) \in Emitting => c = Linked(Code(c)), AddLine(c, Emitted(c, v)), last'.cuts \in Nat
  PROVE  CutsIInv'
<1>1. PICK w : w = Emitted(c, v)
  OBVIOUS
<1>2. PICK l : l = [comp |-> c, code |-> Code(c), val |-> w]
  OBVIOUS
<1>3. w.cuts \in Nat /\ LineOK(l)
  <2>1. l.comp = c /\ l.val = Emitted(c, v)
    BY <1>1, <1>2
  <2> QED BY <1>1, <2>1, EmittedLine DEF SortIInv
<1>4. Codes' = Codes \cup {Code(c)} /\ Range(lines') = Range(lines) \cup {l}
  <2>1. lines' = Append(lines, [comp |-> c, code |-> Code(c), val |-> w])
    BY <1>1 DEF AddLine
  <2> QED BY <1>2, <2>1, LineAdded
<1>5. /\ \A x \in {Code(c), setup.name[c]} : x \in Names /\ env'[x] = w
      /\ \A x \in Names \cup {"CTC"} : x \notin {Code(c), setup.name[c]} => env'[x] = env[x]
  BY <1>1, Written
<1>6. \A x \in Names \cup {"CTC"} : env'[x].cuts \in Nat
  BY <1>3, <1>5 DEF CutsIInv
<1>7. ASSUME NEW d \in Comps, Alone(d), Code(d) # NoCode, Code(d) \notin Codes'
      PROVE  env'[Code(d)].cuts = 0
  <2>1. d # c /\ Code(d) \in Names
    BY <1>4, <1>7, BundleFacts DEF SortIInv
  <2>2. Code(d) \notin {Code(c), setup.name[c]}
    BY <1>7, <2>1 DEF Alone
  <2> QED BY <1>4, <1>5, <1>7, <2>1, <2>2 DEF CutsIInv
<1>8. \A r \in Range(lines') : LineOK(r)
  BY <1>3, <1>4 DEF CutsIInv
<1> QED BY <1>6, <1>7, <1>8, CutsGoOver

LEMMA CutsComponent ==
  ASSUME SortIInv, EvalIInv, AmountsIInv, CutsIInv, EvalComponent PROVE CutsIInv'
<1> DEFINE c == Linked(Subject)
           d == Definition(c)
<1>1. /\ Evaluating("comp") /\ UNCHANGED <<setup, last>>
      /\ d.how \in {"system", "other"} => UNCHANGED <<env, lines>>
      /\ d.how \notin {"system", "other"} => AddLine(c, Emitted(c, Amount(d, env)))
  BY DEF EvalComponent
<1>2. /\ c \in Comps /\ Code(c) = Subject /\ Subject # NoCode
      /\ Subject \in Emitting <=> d.how \notin {"system", "other"}
      /\ Subject \in Emitting => Subject \notin Codes
  BY <1>1, ComponentFacts
<1>3. Code(c) \in Emitting => c = Linked(Code(c))
  BY <1>2
<1>4. IsFiniteSet(d.of) /\ d.of \subseteq Names
  BY <1>2, BundleFacts DEF SortIInv
<1>5. PICK v : v = Amount(d, env)
  OBVIOUS
<1>6. last'.cuts \in Nat
  BY <1>1 DEF CutsIInv
<1> HIDE DEF c
<1>7. CutsAsDefined(c, v)
  <2>1. ~Called("CTC") => env["CTC"].cuts = 0
    BY DEF AmountsIInv, Value
  <2>2. /\ v.cuts \in Nat /\ (d.how = "fixed" => v.cuts = 0)
        /\ d.how = "days" /\ setup.short => v.cuts >= 1
        /\ d.how \in Reading /\ d.of \subseteq {"CTC"} /\ env["CTC"].cuts = 0 =>
             v.cuts = IF d.how = "days" /\ setup.short THEN 1 ELSE 0
    <3> HIDE DEF d
    <3> QED BY <1>4, <1>5, AmountCuts DEF CutsIInv
  <2> QED BY <2>1, <2>2 DEF CutsAsDefined
<1> HIDE DEF d
<1>8. CASE Subject \notin Emitting
  BY <1>1, <1>2, <1>6, <1>8, CutsStay
<1>9. CASE Subject \in Emitting
  <2>1. AddLine(c, Emitted(c, v)) /\ Code(c) \notin Codes /\ Code(c) # NoCode
    BY <1>1, <1>2, <1>5, <1>9
  <2> QED BY <1>1, <1>2, <1>3, <1>6, <1>7, <2>1, CutsLine
<1> QED BY <1>8, <1>9

LEMMA CutsVariable ==
  ASSUME SortIInv, EvalIInv, AmountsIInv, CutsIInv, EvalVariable PROVE CutsIInv'
<1> DEFINE a == Amount(setup.expr[Subject], env)
<1>1. /\ Evaluating("dv") /\ UNCHANGED <<setup, last, lines>>
      /\ env' = [env EXCEPT ![Subject] = VariableAmount(Subject, env)]
  BY DEF EvalVariable
<1>2. Current \in Nodes /\ Current[1] = "dv"
  BY <1>1, CurrentFacts
<1>3. Subject \in setup.vars /\ Subject \in Names
  BY <1>2, NodeKinds, BundleFacts DEF Subject, SortIInv
<1>4. a.cuts \in Nat
  <2>1. IsFiniteSet(setup.expr[Subject].of) /\ setup.expr[Subject].of \subseteq Names
    BY <1>3, BundleFacts DEF SortIInv
  <2> QED BY <2>1, AmountCuts DEF CutsIInv
<1>5. PICK v : v = VariableAmount(Subject, env)
  OBVIOUS
<1>6. v.cuts \in Nat
  <2> HIDE DEF a
  <2>1. v = IF Subject \in setup.wage THEN Cut(a) ELSE a
    BY <1>5 DEF VariableAmount, a
  <2> QED BY <1>4, <2>1 DEF Cut, Value
<1>7. /\ env'[Subject] = v
      /\ \A x \in Names \cup {"CTC"} : x # Subject => env'[x] = env[x]
  BY <1>1, <1>3, <1>5 DEF AmountsIInv
<1>8. \A x \in Names \cup {"CTC"} : env'[x].cuts \in Nat
  BY <1>6, <1>7 DEF CutsIInv
<1>9. Codes' = Codes
  BY <1>1 DEF Codes
<1>10. ASSUME NEW c \in Comps, Alone(c), Code(c) # NoCode, Code(c) \notin Codes'
       PROVE  env'[Code(c)].cuts = 0
  <2>1. Code(c) \in Names /\ Code(c) # Subject
    BY <1>3, <1>10, BundleFacts DEF SortIInv, Alone
  <2> QED BY <1>7, <1>9, <1>10, <2>1 DEF CutsIInv
<1>11. last'.cuts \in Nat /\ \A l \in Range(lines') : LineOK(l)
  BY <1>1 DEF CutsIInv
<1> QED BY <1>1, <1>8, <1>10, <1>11, CutsGoOver

LEMMA CutsItem ==
  ASSUME SortIInv, EvalIInv, AmountsIInv, CutsIInv, EvalItem PROVE CutsIInv'
<1> DEFINE c == Head(queue)
           d == Definition(c)
           a == Amount(d, env)
<1>1. /\ UNCHANGED setup
      /\ Code(c) = NoCode \/ AlreadyPaid(Code(c)) => UNCHANGED <<env, lines, last>>
      /\ ~(Code(c) = NoCode \/ AlreadyPaid(Code(c))) =>
           /\ AddLine(c, Emitted(c, ItemAmount(c)))
           /\ last' = last \/ last' = ItemAmount(c)
  BY DEF EvalItem
<1>2. /\ c \in Comps
      /\ AlreadyPaid(Code(c)) <=> Code(c) \in Codes
      /\ Code(c) \in Emitting => Code(c) \in Codes
  BY ItemFacts
<1>3. PICK v : v = ItemAmount(c)
  OBVIOUS
<1>4. IsFiniteSet(d.of) /\ d.of \subseteq Names
  BY <1>2, BundleFacts DEF SortIInv
<1>5. \/ d.how = "fixed" /\ v = env[Code(c)]
      \/ d.how \in {"empty", "system", "other"} /\ v = last
      \/ v = a
  BY <1>3 DEF ItemAmount
<1> HIDE DEF c
<1>6. CASE Code(c) = NoCode \/ Code(c) \in Codes
  BY <1>1, <1>2, <1>6, CutsStay DEF CutsIInv
<1>7. CASE Code(c) # NoCode /\ Code(c) \notin Codes
  <2>1. ~Called("CTC") => env["CTC"].cuts = 0
    BY DEF AmountsIInv, Value
  <2>2. /\ a.cuts \in Nat /\ (d.how = "fixed" => a.cuts = 0)
        /\ d.how = "days" /\ setup.short => a.cuts >= 1
        /\ d.how \in Reading /\ d.of \subseteq {"CTC"} /\ env["CTC"].cuts = 0 =>
             a.cuts = IF d.how = "days" /\ setup.short THEN 1 ELSE 0
    <3> HIDE DEF d
    <3> QED BY <1>4, AmountCuts DEF CutsIInv
  <2> HIDE DEF a
  <2>3. ASSUME v = a PROVE CutsAsDefined(c, v)
    BY <2>1, <2>2, <2>3 DEF CutsAsDefined
  <2>4. ASSUME d.how = "fixed", v = env[Code(c)] PROVE CutsAsDefined(c, v)
    <3>1. Code(c) \in Names
      BY <1>2, <1>7, BundleFacts DEF SortIInv
    <3>2. v.cuts \in Nat /\ (Alone(c) => v.cuts = 0)
      BY <1>2, <1>7, <2>4, <3>1 DEF CutsIInv
    <3> QED BY <2>4, <3>2 DEF CutsAsDefined, Reading
  <2>5. ASSUME d.how \in {"empty", "system", "other"}, v = last PROVE CutsAsDefined(c, v)
    BY <2>5 DEF CutsAsDefined, Reading, CutsIInv
  <2>6. CutsAsDefined(c, v)
    BY <1>5, <2>3, <2>4, <2>5
  <2>7. AddLine(c, Emitted(c, v))
    BY <1>1, <1>2, <1>3, <1>7
  <2>8. last'.cuts \in Nat
    BY <1>1, <1>2, <1>3, <1>7, <2>6 DEF CutsAsDefined, CutsIInv
  <2>9. Code(c) \notin Emitting
    BY <1>2, <1>7
  <2> HIDE DEF d
  <2> QED BY <1>1, <1>2, <1>7, <2>6, <2>7, <2>8, <2>9, CutsLine
<1> QED BY <1>6, <1>7

LEMMA CutsStep ==
  SortIInv /\ EvalIInv /\ AmountsIInv /\ CutsIInv /\ [PayNext]_engineVars => CutsIInv'
<1> SUFFICES ASSUME SortIInv, EvalIInv, AmountsIInv, CutsIInv, [PayNext]_engineVars
             PROVE  CutsIInv'
  OBVIOUS
<1>1. ASSUME UNCHANGED <<setup, env, last, lines>> PROVE CutsIInv'
  BY <1>1, CutsStay DEF CutsIInv
<1>2. CASE UNCHANGED engineVars
  BY <1>1, <1>2 DEF engineVars
<1>3. ASSUME NEW m \in SortedSet, VisitDependency(m) PROVE CutsIInv'
  BY <1>1, <1>3 DEF VisitDependency
<1>4. CASE VisitRoot \/ FindCycle \/ FinishVisit \/ Sorting
  BY <1>1, <1>4 DEF VisitRoot, FindCycle, FinishVisit, Sorting
<1>5. CASE EvalVariable \/ EvalComponent \/ EvalItem
  BY <1>5, CutsVariable, CutsComponent, CutsItem
<1>6. CASE EvalGroup \/ EvalStatutory \/ EvalEnd
  BY <1>1, <1>6 DEF EvalGroup, EvalStatutory, EvalEnd
<1> QED BY <1>2, <1>3, <1>4, <1>5, <1>6 DEF PayNext

\* ShortMonthReachesPay holds for every bundle: the attendance factor goes into every earning
\* that is open to it, unless one of its formulas names an attendance scalar, and just once
\* into one made of CTC and fixed amounts.
THEOREM ShortMonthAlwaysReachesPay == PaySpec => []ShortMonthReachesPay
<1>1. CutsIInv => ShortMonthReachesPay
  <2>1. ASSUME CutsIInv, NEW i \in DOMAIN lines PROVE LineOK(lines[i])
    <3>1. lines[i] \in Range(lines)
      BY DEF Range
    <3> QED BY <2>1, <3>1 DEF CutsIInv
  <2> QED BY <2>1 DEF ShortMonthReachesPay, LineOK
<1>2. PaySpec => [](SortIInv /\ EvalIInv /\ AmountsIInv /\ CutsIInv)
  BY SortInit, SortStep, EvalInit, EvalStep, AmountsInit, AmountsStep, CutsInit, CutsStep,
     PTL DEF PaySpec
<1> QED BY <1>1, <1>2, PTL
------------------------------------------------------------------------------
(* The calculators *)

\* No line is of the category they disagree about, so each pair adds up the same terms.
LEMMA NetsAgree == NetAgrees
<1> SUFFICES ASSUME \A i \in DOMAIN lines : setup.cat[lines[i].comp] # "benefit"
             PROVE  EngineEarnings + BucketTakes = BucketEarnings + EngineTakes
  BY DEF NetAgrees
<1> DEFINE Terms(cats) == [i \in DOMAIN lines |->
             IF setup.cat[lines[i].comp] \in cats THEN lines[i].val.amt ELSE 0]
<1>1. /\ EngineEarnings = SumFunction(Terms({"earning", "benefit"}))
      /\ BucketEarnings = SumFunction(Terms({"earning"}))
      /\ EngineTakes = SumFunction(Terms({"deduction", "statutory"}))
      /\ BucketTakes = SumFunction(Terms({"deduction", "statutory", "benefit"}))
  BY DEF EngineEarnings, BucketEarnings, EngineTakes, BucketTakes, Paid
<1>2. Terms({"earning", "benefit"}) = Terms({"earning"})
  OBVIOUS
<1>3. Terms({"deduction", "statutory", "benefit"}) = Terms({"deduction", "statutory"})
  OBVIOUS
<1> HIDE DEF Terms
<1> QED BY <1>1, <1>2, <1>3

\* The legacy calculator goes through the template component by component.
LegacyStep(e, n) ==
  [e EXCEPT ![setup.name[setup.template[n]]] = LegacyAmount(setup.template[n], e)]
Run(f, m) == f = [n \in 0 .. m |-> IF n = 0 THEN Given ELSE LegacyStep(f[n - 1], n)]

LEMMA RunExists == ASSUME NEW m \in Nat PROVE \E f : Run(f, m)
<1> DEFINE K == {k \in Nat : \E f : Run(f, k)}
<1>1. 0 \in K
  <2> DEFINE f == [n \in 0 .. 0 |-> Given]
  <2>1. Run(f, 0)
    BY DEF Run
  <2> QED BY <2>1
<1>2. ASSUME NEW k \in Nat, k \in K PROVE k + 1 \in K
  <2>1. PICK f : Run(f, k)
    BY <1>2
  <2> DEFINE g == [n \in 0 .. k + 1 |-> IF n = k + 1 THEN LegacyStep(f[k], k + 1) ELSE f[n]]
  <2>2. \A n \in 0 .. k : g[n] = f[n]
    OBVIOUS
  <2>3. \A n \in 0 .. k : f[n] = IF n = 0 THEN Given ELSE LegacyStep(f[n - 1], n)
    BY <2>1 DEF Run
  <2>4. \A n \in 0 .. k + 1 : g[n] = IF n = 0 THEN Given ELSE LegacyStep(g[n - 1], n)
    <3> TAKE n \in 0 .. k + 1
    <3>1. CASE n = k + 1
      BY <2>2, <3>1
    <3>2. CASE n # k + 1
      <4>1. n \in 0 .. k /\ (n # 0 => n - 1 \in 0 .. k)
        BY <3>2
      <4> QED BY <2>2, <2>3, <4>1
    <3> QED BY <3>1, <3>2
  <2>5. g = [n \in 0 .. k + 1 |-> g[n]]
    OBVIOUS
  <2> HIDE DEF g
  <2>6. Run(g, k + 1)
    BY <2>4, <2>5 DEF Run
  <2> QED BY <2>6
<1> HIDE DEF K
<1>3. Nat \subseteq K
  BY <1>1, <1>2, AllNumbers
<1> QED BY <1>3 DEF K

LEMMA LegacyIsRun ==
  ASSUME setup \in Setups
  PROVE  \E f : Run(f, Len(setup.template)) /\ Legacy = f[Len(setup.template)]
<1>1. Len(setup.template) \in Nat
  BY BundleFacts
<1> DEFINE m == Len(setup.template)
           r == CHOOSE f : Run(f, m)
<1>2. Run(r, m)
  BY <1>1, RunExists
<1>3. Legacy = r[m]
  BY DEF Legacy, Run, LegacyStep
<1> QED BY <1>2, <1>3

\* Names that have values which come to the same on both sides add up to the same.
Alike(e, f, n) == e[n].set = TRUE /\ f[n].set = TRUE /\ e[n].amt = f[n].amt

LEMMA LookupAgrees ==
  ASSUME NEW e, NEW f, NEW ns, \A n \in ns : Alike(e, f, n)
  PROVE  Lookup(e, ns).amt = Lookup(f, ns).amt
<1> USE DEF Alike
<1>1. {n \in ns : e[n].set} = ns /\ {n \in ns : f[n].set} = ns
  OBVIOUS
<1>2. [n \in ns |-> e[n].amt] = [n \in ns |-> f[n].amt]
  OBVIOUS
<1>3. /\ Lookup(e, ns).amt = SumFunction([n \in ns |-> e[n].amt])
      /\ Lookup(f, ns).amt = SumFunction([n \in ns |-> f[n].amt])
  BY <1>1 DEF Lookup, Value
<1> QED BY <1>2, <1>3

\* The code of the component at a place of the template.
CodeAt(i) == Code(setup.template[i])

\* What the legacy calculator knows: fixed amounts and percentages of earlier components
\* whose names have one use.
Plain(i) ==
  LET c == setup.template[i]
      d == Definition(c) IN
  /\ setup.name[c] = Code(c) /\ Alone(c)
  /\ \/ d.how = "fixed"
     \/ /\ d.how = "percentage" /\ d.exact
        /\ d.of \subseteq {"CTC"} \cup {CodeAt(j) : j \in 1 .. i - 1}

\* After n components it has for each of them what the engine has at the end.
Agreed(e, n) ==
  /\ DOMAIN e = Names \cup {"CTC"} /\ e["CTC"] = Value(CTC, 0)
  /\ \A i \in 1 .. n : e[CodeAt(i)].set = TRUE /\ e[CodeAt(i)].amt = env[CodeAt(i)].amt

\* A result of a full month, of a template the legacy calculator knows.
PlainResult ==
  /\ SortIInv /\ EvalIInv /\ AmountsIInv
  /\ stage = "done" /\ ~setup.short /\ ~Called("CTC")
  /\ \A i \in DOMAIN setup.template : Plain(i)

LEMMA TemplateFacts ==
  ASSUME PlainResult
  PROVE  /\ DOMAIN setup.template = 1 .. Len(setup.template) /\ Len(setup.template) \in Nat
         /\ setup.short = FALSE
         /\ \A i \in DOMAIN setup.template :
              LET c == setup.template[i] IN
              /\ c \in Template /\ c \in Comps /\ setup.name[c] = Code(c) /\ Alone(c)
              /\ Code(c) \in Names /\ Code(c) # NoCode /\ Code(c) # "CTC"
              /\ Linked(Code(c)) = c /\ Code(c) \in Emitting /\ Tracked(Code(c))
              /\ Code(c) \notin setup.vars
<1>1. setup \in Setups /\ setup.short = FALSE
  BY BundleFacts DEF PlainResult, SortIInv
<1>2. DOMAIN setup.template = 1 .. Len(setup.template) /\ Len(setup.template) \in Nat
  BY <1>1, BundleFacts
<1>3. ASSUME NEW i \in DOMAIN setup.template, NEW c, c = setup.template[i]
      PROVE  /\ c \in Template /\ c \in Comps /\ setup.name[c] = Code(c) /\ Alone(c)
             /\ Code(c) \in Names /\ Code(c) # NoCode /\ Code(c) # "CTC"
             /\ Linked(Code(c)) = c /\ Code(c) \in Emitting /\ Tracked(Code(c))
             /\ Code(c) \notin setup.vars
  <2>1. c \in Template /\ c \in Comps
    BY <1>3 DEF Template, Range, Comps
  <2>2. /\ setup.name[c] = Code(c) /\ Alone(c)
        /\ Definition(c).how \in {"fixed", "percentage"}
    BY <1>3 DEF PlainResult, Plain
  <2>3. Code(c) \in Names /\ Code(c) # NoCode /\ Code(c) # "CTC"
    BY <1>1, <2>1, <2>2, BundleFacts DEF PlainResult, Called
  <2>4. Code(c) \in TemplateCodes
    BY <2>1, <2>3 DEF TemplateCodes
  <2>5. Linked(Code(c)) = c
    BY <1>1, <2>2, <2>4, LinkedFacts DEF Alone
  <2>6. Code(c) \in Emitting
    BY <2>2, <2>4, <2>5 DEF Emitting
  <2>7. Tracked(Code(c))
    BY <2>1, <2>2, <2>6 DEF Tracked, Alone
  <2> QED BY <2>1, <2>2, <2>3, <2>5, <2>6, <2>7 DEF Alone
<1> QED BY <1>1, <1>2, <1>3

\* In a full month the engine pays a component what its definition gives.
LEMMA EnginePaysPlain ==
  ASSUME PlainResult, NEW i \in DOMAIN setup.template
  PROVE  /\ env[CodeAt(i)] = Amount(Definition(setup.template[i]), env)
         /\ env[CodeAt(i)].set = TRUE
         /\ \E l \in Range(lines) : l.code = CodeAt(i) /\ l.val = env[CodeAt(i)]
<1> DEFINE c == setup.template[i]
           d == Definition(c)
<1>1. /\ c \in Template /\ Code(c) \in Names /\ Linked(Code(c)) = c /\ Code(c) \in Emitting
      /\ Tracked(Code(c)) /\ Code(c) \notin setup.vars
  BY TemplateFacts
<1>2. /\ d.how = "fixed" \/ d.how = "percentage"
      /\ d.how = "percentage" => /\ d.exact
                                 /\ d.of \subseteq {"CTC"} \cup {CodeAt(j) : j \in 1 .. i - 1}
  BY DEF PlainResult, Plain
<1>3. Ordered(d)
  <2>1. CASE d.how = "fixed"
    BY <2>1 DEF Ordered, Reading
  <2>2. CASE d.how = "percentage"
    <3>1. \A j \in 1 .. i - 1 : j \in DOMAIN setup.template
      BY TemplateFacts
    <3>2. \A j \in 1 .. i - 1 : Tracked(CodeAt(j))
      BY <3>1, TemplateFacts DEF CodeAt
    <3> HIDE DEF d
    <3>3. \A x \in d.of : IF x = "CTC" THEN ~Called("CTC") ELSE d.exact /\ Tracked(x)
      BY <1>2, <2>2, <3>2 DEF PlainResult
    <3> QED BY <3>3 DEF Ordered
  <2> QED BY <1>2, <2>1, <2>2
<1>4. Evaluated = Nodes /\ CompNode(Code(c)) \in Nodes
  BY <1>1, AllEvaluated, NodeKinds DEF PlainResult, Emitting
<1>5. PICK l \in Range(lines) : l.code = Code(c) /\ l.val = env[Code(c)]
  BY <1>1, <1>4 DEF PlainResult, AmountsIInv, NameSettled
<1>6. l.comp = c
  BY <1>1, <1>5 DEF PlainResult, EvalIInv, LineOf
<1>7. l.val = Emitted(c, Amount(d, env))
  BY <1>1, <1>3, <1>5, <1>6 DEF PlainResult, AmountsIInv, LineSettled
<1>8. l.val = Amount(d, env)
  BY <1>7, TemplateFacts DEF Emitted, Cut
<1>9. Amount(d, env).set = TRUE
  <2>1. CASE d.how = "fixed"
    BY <2>1 DEF Amount, Value
  <2>2. CASE d.how = "percentage"
    BY <2>2 DEF Amount, Half, Value
  <2> QED BY <1>2, <2>1, <2>2
<1> QED BY <1>5, <1>8, <1>9 DEF CodeAt

LEMMA LegacyStepAgrees ==
  ASSUME PlainResult, NEW e, NEW n \in Nat, n + 1 \in DOMAIN setup.template, Agreed(e, n)
  PROVE  Agreed(LegacyStep(e, n + 1), n + 1)
<1> DEFINE c == setup.template[n + 1]
           d == Definition(c)
           v == LegacyAmount(c, e)
           f == LegacyStep(e, n + 1)
<1>1. DOMAIN setup.template = 1 .. Len(setup.template) /\ Len(setup.template) \in Nat
  BY TemplateFacts
<1>2. /\ CodeAt(n + 1) = Code(c) /\ setup.name[c] = Code(c) /\ Code(c) \in Names /\ Code(c) # "CTC"
      /\ env[Code(c)] = Amount(d, env)
  BY TemplateFacts, EnginePaysPlain DEF CodeAt
<1>3. \/ d.how = "fixed"
      \/ d.how = "percentage" /\ d.of \subseteq {"CTC"} \cup {CodeAt(j) : j \in 1 .. n}
  <2>1. (n + 1) - 1 = n
    OBVIOUS
  <2> QED BY <2>1 DEF PlainResult, Plain
<1>4. v.set = TRUE /\ v.amt = env[Code(c)].amt
  <2>1. CASE d.how = "fixed"
    <3>1. v = Value(CTC, 0) /\ Amount(d, env) = Value(CTC, 0)
      BY <2>1 DEF LegacyAmount, Amount
    <3> HIDE DEF v, c, d
    <3> QED BY <1>2, <3>1 DEF Value
  <2>2. CASE d.how = "percentage" /\ d.of \subseteq {"CTC"} \cup {CodeAt(j) : j \in 1 .. n}
    <3>1. v = Half(Lookup(e, d.of)) /\ Amount(d, env) = Half(Lookup(env, d.of))
      BY <2>2 DEF LegacyAmount, Amount
    <3>2. ASSUME NEW m \in d.of
          PROVE  Alike(e, env, m)
      <4> USE DEF Alike
      <4>1. CASE m = "CTC"
        BY <4>1 DEF Agreed, PlainResult, AmountsIInv, Value
      <4>2. CASE m # "CTC"
        <5>1. PICK j \in 1 .. n : m = CodeAt(j)
          BY <2>2, <4>2
        <5>2. j \in DOMAIN setup.template
          BY <1>1, <5>1
        <5> QED BY <5>1, <5>2, EnginePaysPlain DEF Agreed
      <4> QED BY <4>1, <4>2
    <3>3. Lookup(e, d.of).amt = Lookup(env, d.of).amt
      BY <3>2, LookupAgrees
    <3> HIDE DEF v, c, d
    <3> QED BY <1>2, <3>1, <3>3 DEF Half, Value
  <2> QED BY <1>3, <2>1, <2>2
<1>5. f = [e EXCEPT ![Code(c)] = v]
  BY <1>2 DEF LegacyStep
<1> HIDE DEF v, c, d, f
<1>6. /\ DOMAIN f = Names \cup {"CTC"} /\ f["CTC"] = Value(CTC, 0) /\ f[Code(c)] = v
      /\ \A m \in Names : m # Code(c) => f[m] = e[m]
  BY <1>2, <1>5 DEF Agreed
<1>7. ASSUME NEW i \in 1 .. n + 1
      PROVE  f[CodeAt(i)].set = TRUE /\ f[CodeAt(i)].amt = env[CodeAt(i)].amt
  <2>1. CASE CodeAt(i) = Code(c)
    BY <1>4, <1>6, <2>1
  <2>2. CASE CodeAt(i) # Code(c)
    <3>1. i \in 1 .. n /\ i \in DOMAIN setup.template
      BY <1>1, <1>2, <2>2
    <3>2. CodeAt(i) \in Names
      BY <3>1, TemplateFacts DEF CodeAt
    <3> QED BY <1>6, <2>2, <3>1, <3>2 DEF Agreed
  <2> QED BY <2>1, <2>2
<1> QED BY <1>6, <1>7 DEF Agreed, f

LEMMA LegacyPaysTheSame ==
  ASSUME PlainResult
  PROVE  \A i \in DOMAIN setup.template : Legacy[CodeAt(i)].amt = env[CodeAt(i)].amt
<1> DEFINE m == Len(setup.template)
<1>1. m \in Nat /\ DOMAIN setup.template = 1 .. m
  BY TemplateFacts
<1>2. PICK f : Run(f, m) /\ Legacy = f[m]
  BY LegacyIsRun DEF PlainResult, SortIInv
<1>3. \A n \in 0 .. m : f[n] = IF n = 0 THEN Given ELSE LegacyStep(f[n - 1], n)
  BY <1>2 DEF Run
<1> HIDE DEF m
<1> DEFINE K == {n \in Nat : n <= m => Agreed(f[n], n)}
<1>4. 0 \in K
  <2>1. f[0] = Given
    BY <1>1, <1>3
  <2>2. Agreed(Given, 0)
    BY DEF Agreed, Given
  <2> QED BY <2>1, <2>2
<1>5. ASSUME NEW n \in Nat, n \in K PROVE n + 1 \in K
  <2> SUFFICES ASSUME n + 1 <= m PROVE Agreed(f[n + 1], n + 1)
    OBVIOUS
  <2>1. Agreed(f[n], n) /\ n + 1 \in DOMAIN setup.template
    BY <1>1, <1>5
  <2>2. f[n + 1] = LegacyStep(f[n], n + 1)
    BY <1>1, <1>3
  <2>3. PICK e : e = f[n]
    OBVIOUS
  <2>4. Agreed(LegacyStep(e, n + 1), n + 1)
    BY <2>1, <2>3, LegacyStepAgrees
  <2> QED BY <2>2, <2>3, <2>4
<1>6. m \in K
  <2> HIDE DEF K
  <2>1. Nat \subseteq K
    BY <1>4, <1>5, AllNumbers
  <2> QED BY <1>1, <2>1
<1>7. Agreed(Legacy, m)
  BY <1>1, <1>2, <1>6
<1> QED BY <1>1, <1>7 DEF Agreed

LEMMA LegacyIsRight == ASSUME SortIInv, EvalIInv, AmountsIInv PROVE LegacyAgrees
<1> SUFFICES ASSUME PlainResult, NEW i \in DOMAIN lines, lines[i].comp \in Template
             PROVE  Legacy[lines[i].code].amt = lines[i].val.amt
  BY DEF LegacyAgrees, PlainResult, Plain, Accepted, CodeAt
<1>1. lines[i] \in Range(lines)
  BY DEF Range
<1>2. PICK j \in DOMAIN setup.template : lines[i].comp = setup.template[j]
  BY DEF Template, Range
<1>3. lines[i].code = CodeAt(j)
  BY <1>1, <1>2 DEF PlainResult, EvalIInv, LineOf, CodeAt
<1>4. PICK k \in DOMAIN lines : lines[k].code = CodeAt(j) /\ lines[k].val = env[CodeAt(j)]
  BY EnginePaysPlain DEF Range
<1>5. k = i
  BY <1>3, <1>4 DEF PlainResult, EvalIInv
<1> QED BY <1>3, <1>4, <1>5, LegacyPaysTheSame

\* CalculatorsAgree holds for every bundle: engine, payslip, register and bank file come to
\* the same net pay, and the legacy calculator pays what it knows the same.
THEOREM CalculatorsAlwaysAgree == PaySpec => []CalculatorsAgree
<1>1. SortIInv /\ EvalIInv /\ AmountsIInv => CalculatorsAgree
  BY LegacyIsRight, NetsAgree DEF CalculatorsAgree
<1> QED BY <1>1, EngineInvariant, PTL
=============================================================================
