------------------------- MODULE SalaryConfigProofs -------------------------
(***************************************************************************)
(* Theorems about SalaryConfig, for any number of publishers, days, edits  *)
(* and publications.                                                       *)
(***************************************************************************)
EXTENDS SalaryConfig, SequenceTheorems, FiniteSetTheorems, TLAPS

\* A publication of the history Publication describes; how many rows its snapshot may
\* hold does not matter here.
Request == [pc : {"checked", "updating"}, of : Entities, day : Days, head : LiveRow,
            rows : SUBSET Nat]

Types ==
  /\ live \in [Entities -> LiveRow]
  /\ links \in [Linkable -> Link \cup {NoLink}]
  /\ items \in SUBSET {"component"}
  /\ versions \in [Entities -> Seq(Version)]
  /\ pub \in [Publishers -> Request \cup {Idle}]
  /\ raced \in [Entities -> BOOLEAN]

\* A history without gaps of its own making: every version but the last is closed before
\* the next one starts, and the last one is open.
Chain(rows) ==
  \A i \in DOMAIN rows :
    /\ i < Len(rows) => rows[i].to # Open
    /\ i = Len(rows) => rows[i].to = Open
    /\ \A j \in DOMAIN rows : i < j => rows[i].to < rows[j].from

\* The inductive invariant: while the publications of an entity have not overlapped its
\* history is a chain, one request at most is publishing it, and the snapshot that
\* request took is still the truth.
IInv ==
  /\ Types
  /\ \A e \in Entities : Unraced(e) =>
       /\ Chain(versions[e])
       /\ \A p \in Publishers : pub[p].pc # "idle" /\ pub[p].of = e =>
            /\ pub[p].pc = "updating" => pub[p].rows = OpenRows(versions[e])
            /\ \A q \in Publishers \ {p} : pub[q].pc = "idle"
------------------------------------------------------------------------------
(* Sequences of versions *)

LEMMA SeqOf ==
  ASSUME NEW S, NEW n \in Nat, NEW f \in [1 .. n -> S]
  PROVE  f \in Seq(S) /\ Len(f) = n
OBVIOUS

LEMMA Appended ==
  ASSUME NEW S, NEW rows \in Seq(S), NEW x \in S
  PROVE  /\ Append(rows, x) \in Seq(S) /\ Len(Append(rows, x)) = Len(rows) + 1
         /\ DOMAIN Append(rows, x) = 1 .. (Len(rows) + 1)
         /\ Append(rows, x)[Len(rows) + 1] = x
         /\ \A i \in 1 .. Len(rows) : Append(rows, x)[i] = rows[i]
OBVIOUS

LEMMA CapturedType ==
  ASSUME Types, NEW e \in Entities, NEW head \in LiveRow
  PROVE  Captured(e, head) \in Content
<1>1. (IF e = "template" THEN links ELSE [k \in Linkable |-> NoLink])
        \in [Linkable -> Link \cup {NoLink}]
  BY DEF Types
<1>2. (IF e = "group" THEN items ELSE {}) \in SUBSET {"component"}
  BY DEF Types
<1> QED
  BY <1>1, <1>2 DEF Captured, Content

\* What publication p of entity e commits: the rows of its snapshot that are still open
\* end the day before, and the new version is row n + 1.
Extended(p, e, day, n) ==
  /\ e \in Entities /\ day \in Days /\ n \in Nat
  /\ DOMAIN versions[e] = 1 .. n /\ DOMAIN versions'[e] = 1 .. (n + 1)
  /\ versions[e] \in Seq(Version) /\ Len(versions'[e]) = n + 1
  /\ versions'[e][n + 1] = [from |-> day, to |-> Open, what |-> Captured(e, pub[p].head)]
  /\ \A i \in 1 .. n :
       /\ versions'[e][i].from = versions[e][i].from
       /\ versions'[e][i].to = IF i \in pub[p].rows /\ versions[e][i].to = Open
                               THEN day - 1 ELSE versions[e][i].to
       /\ i \in pub[p].rows /\ versions[e][i].to = Open => day - 1 >= versions[e][i].from

LEMMA Published ==
  ASSUME Types, NEW p \in Publishers, CommitPublish(p), versions' # versions,
         NEW e, e = pub[p].of, NEW day, day = pub[p].day, NEW n, n = Len(versions[e])
  PROVE  /\ Extended(p, e, day, n)
         /\ \A x \in Entities \ {e} : versions'[x] = versions[x]
         /\ versions' \in [Entities -> Seq(Version)]
<1> DEFINE q == pub[p]
           old == versions[e]
           rows == q.rows \cap OpenRows(old)
           closed == [i \in DOMAIN old |-> IF i \in rows THEN [old[i] EXCEPT !.to = ClosedAt(day)]
                                           ELSE old[i]]
           new == [from |-> day, to |-> Open, what |-> Captured(e, q.head)]
<1>1. /\ q.pc = "updating"
      /\ \A i \in rows : RangeHolds(old[i], ClosedAt(day))
      /\ versions' = [versions EXCEPT ![e] = Append(closed, new)]
  BY DEF CommitPublish
<1>2. q \in Request
  <2>1. pub[p] \in Request \cup {Idle} /\ Idle.pc = "idle"
    BY DEF Types, Idle
  <2> QED
    BY <1>1, <2>1
<1>3. e \in Entities /\ day \in Days /\ q.head \in LiveRow
  BY <1>2 DEF Request
<1>4. old \in Seq(Version) /\ n \in Nat /\ DOMAIN old = 1 .. n
      /\ \A i \in 1 .. n : old[i] \in Version
  BY <1>3 DEF Types
<1>5. day - 1 \in 0 .. MaxDay /\ Open \in 0 .. MaxDay /\ MaxDay \in Nat
  BY <1>3, ConfigAssumption DEF Days, Open
<1>6. new \in Version
  BY <1>3, <1>5, CapturedType DEF Version
<1>7. ASSUME NEW i \in 1 .. n
      PROVE  /\ closed[i] \in Version /\ closed[i].from = old[i].from
             /\ closed[i].to = IF i \in q.rows /\ old[i].to = Open THEN day - 1 ELSE old[i].to
             /\ i \in q.rows /\ old[i].to = Open => day - 1 >= old[i].from
  <2>1. i \in rows <=> i \in q.rows /\ old[i].to = Open
    BY <1>4 DEF OpenRows
  <2>2. closed[i] = IF i \in rows THEN [old[i] EXCEPT !.to = day - 1] ELSE old[i]
    BY <1>4 DEF ClosedAt
  <2>3. old[i] \in Version
    BY <1>4
  <2>4. i \in rows => day - 1 >= old[i].from
    BY <1>1 DEF RangeHolds, ClosedAt
  <2> HIDE DEF closed, rows
  <2> QED
    BY <1>5, <2>1, <2>2, <2>3, <2>4 DEF Version
<1>8. closed \in [1 .. n -> Version]
  BY <1>4, <1>7
<1>9. closed \in Seq(Version) /\ Len(closed) = n
  BY <1>4, <1>8, SeqOf
<1> HIDE DEF closed, new
<1>10. /\ Append(closed, new) \in Seq(Version) /\ Len(Append(closed, new)) = n + 1
       /\ DOMAIN Append(closed, new) = 1 .. (n + 1)
       /\ Append(closed, new)[n + 1] = new
       /\ \A i \in 1 .. n : Append(closed, new)[i] = closed[i]
  BY <1>6, <1>9, Appended
<1>11. /\ versions'[e] = Append(closed, new)
       /\ \A x \in Entities \ {e} : versions'[x] = versions[x]
       /\ versions' \in [Entities -> Seq(Version)]
  BY <1>1, <1>3, <1>10 DEF Types
<1>12. /\ DOMAIN versions'[e] = 1 .. (n + 1) /\ Len(versions'[e]) = n + 1
       /\ versions'[e][n + 1] = [from |-> day, to |-> Open, what |-> Captured(e, q.head)]
  BY <1>10, <1>11 DEF new
<1>13. \A i \in 1 .. n : versions'[e][i] = closed[i]
  BY <1>10, <1>11
<1>14. Extended(p, e, day, n)
  BY <1>3, <1>4, <1>7, <1>12, <1>13 DEF Extended
<1> QED
  BY <1>11, <1>14
------------------------------------------------------------------------------
LEMMA TypesInit == ConfigInit => Types
BY ConfigAssumption DEF ConfigInit, Types, LiveRow, Idle, Entities, Linkable

LEMMA EditTypes ==
  ASSUME Types, EditEntities \/ EditTemplate
  PROVE  /\ live' \in [Entities -> LiveRow] /\ links' \in [Linkable -> Link \cup {NoLink}]
         /\ items' \in SUBSET {"component"} /\ UNCHANGED <<versions, pub, raced>>
<1> USE ConfigAssumption
<1>0. /\ \A e \in Entities : live[e] \in LiveRow /\ live[e].rev \in Nat
      /\ \A k \in Linkable : links[k] # NoLink => links[k] \in Link /\ links[k].rev \in Nat
      /\ Cardinality(items) \in Nat
  <2>1. items = {} \/ items = {"component"}
    BY DEF Types
  <2>2. Cardinality(items) \in Nat
    <3>1. Cardinality({}) = 0 /\ Cardinality({"component"}) = 1
      BY FS_EmptySet, FS_Singleton, Zenon
    <3> QED
      BY <2>1, <3>1
  <2> QED
    BY <2>2 DEF Types, LiveRow, Link
<1>1. ASSUME NEW e \in Entities, NEW b \in BOOLEAN, UpdateLive(e, b)
      PROVE  live' \in [Entities -> LiveRow] /\ UNCHANGED <<links, items, versions, pub, raced>>
  <2>1. live[e].rev + 1 \in 0 .. MaxEdits
    BY <1>0, <1>1 DEF UpdateLive, Edits, Entities, Linkable
  <2> QED
    BY <1>1, <2>1 DEF UpdateLive, Types, LiveRow
<1>2. ASSUME NEW b \in BOOLEAN, UpdateTemplateComponent(b)
      PROVE  links' \in [Linkable -> Link \cup {NoLink}]
             /\ UNCHANGED <<live, items, versions, pub, raced>>
  <2>1. links["component"].rev + 1 \in 0 .. MaxEdits
    BY <1>0, <1>2 DEF UpdateTemplateComponent, Edits, Entities, Linkable
  <2> QED
    BY <1>2, <2>1 DEF UpdateTemplateComponent, Types, Link
<1>3. ASSUME AddComponentToTemplate \/ \E b \in BOOLEAN : AddGroupToTemplate(b)
      PROVE  links' \in [Linkable -> Link \cup {NoLink}]
             /\ UNCHANGED <<live, items, versions, pub, raced>>
  <2>1. \A b \in BOOLEAN : [rev |-> 0, active |-> b] \in Link
    BY DEF Link
  <2> QED
    BY <1>3, <2>1 DEF AddComponentToTemplate, AddGroupToTemplate, Types
<1>4. ASSUME AddGroupItem
      PROVE  items' \in SUBSET {"component"} /\ UNCHANGED <<live, links, versions, pub, raced>>
  BY <1>4 DEF AddGroupItem
<1> QED
  BY <1>1, <1>2, <1>3, <1>4 DEF EditEntities, EditTemplate, Types

\* A request of a publisher that is not idle.
LEMMA Publishing ==
  ASSUME Types, NEW p \in Publishers, pub[p].pc # "idle"
  PROVE  pub[p] \in Request /\ pub[p].of \in Entities
<1>1. pub[p] \in Request \cup {Idle} /\ Idle.pc = "idle"
  BY DEF Types, Idle
<1> QED
  BY <1>1 DEF Request

\* A step of one request, which commits or not.
LEMMA IInvPublish ==
  ASSUME IInv, NEW p \in Publishers, Publish(p) PROVE IInv'
<1>0. /\ Types /\ pub \in [Publishers -> Request \cup {Idle}] /\ raced \in [Entities -> BOOLEAN]
      /\ \A e \in Entities : DOMAIN versions[e] \in SUBSET Nat
  BY DEF IInv, Types
<1>1. ASSUME NEW e \in Entities, NEW d \in Days, BeginPublish(p, e, d) PROVE IInv'
  <2> DEFINE new == [pc |-> "checked", of |-> e, day |-> d, head |-> live[e], rows |-> {}]
  <2>1. /\ pub' = [pub EXCEPT ![p] = new] /\ pub[p].pc = "idle"
        /\ \A q \in Publishers : pub[q].pc # "idle" => pub[q].of = e
        /\ raced' = [raced EXCEPT ![e] = raced[e] \/ \E q \in Publishers : pub[q].pc # "idle"]
        /\ UNCHANGED <<live, links, items, versions>>
    BY <1>1 DEF BeginPublish
  <2>2. new \in Request /\ new.pc = "checked" /\ new.of = e
    BY <1>0 DEF Request, Types
  <2> HIDE DEF new
  <2>3. pub' \in [Publishers -> Request \cup {Idle}]
        /\ pub'[p] = new /\ \A q \in Publishers \ {p} : pub'[q] = pub[q]
    BY <1>0, <2>1, <2>2
  <2>4. /\ raced' \in [Entities -> BOOLEAN] /\ \A x \in Entities \ {e} : raced'[x] = raced[x]
        /\ raced'[e] = (raced[e] \/ \E q \in Publishers : pub[q].pc # "idle")
    BY <1>0, <2>1
  <2>7. ASSUME ~raced'[e]
        PROVE  ~raced[e] /\ \A q \in Publishers : pub[q].pc = "idle"
    BY <2>4, <2>7
  <2>5. Types'
    BY <1>0, <2>1, <2>3, <2>4 DEF Types
  <2>6. ASSUME NEW x \in Entities, Unraced(x)'
        PROVE  /\ Chain(versions[x])'
               /\ \A q \in Publishers : (pub[q].pc # "idle" /\ pub[q].of = x)' =>
                    /\ pub'[q].pc = "updating" => (pub[q].rows = OpenRows(versions[x]))'
                    /\ \A r \in Publishers \ {q} : pub'[r].pc = "idle"
    <3>1. Unraced(x)
      <4>1. CASE x = e
        <5>1. ~raced'[e]
          BY <2>6, <4>1 DEF Unraced
        <5> QED
          BY <2>7, <4>1, <5>1 DEF Unraced
      <4>2. CASE x # e
        <5>1. raced'[x] = raced[x]
          BY <2>4, <4>2
        <5> QED
          BY <2>6, <5>1, Zenon DEF Unraced
      <4> QED
        BY <4>1, <4>2
    <3>2. Chain(versions[x])'
      BY <2>1, <3>1 DEF IInv, Chain
    <3>3. CASE x = e
      <4>0. \A q \in Publishers : pub[q].pc = "idle"
        <5>1. ~raced'[e]
          BY <2>6, <3>3 DEF Unraced
        <5> QED
          BY <2>7, <5>1
      <4>1. \A q \in Publishers \ {p} : pub'[q].pc = "idle"
        BY <2>3, <4>0
      <4> QED
        BY <2>2, <2>3, <3>2, <4>1
    <3>4. CASE x # e
      <4>1. \A q \in Publishers : ~(pub'[q].pc # "idle" /\ pub'[q].of = x)
        BY <2>1, <2>2, <2>3, <3>4
      <4> QED
        BY <3>2, <4>1
    <3> QED
      BY <3>3, <3>4
  <2> QED
    BY <2>5, <2>6 DEF IInv
<1>2. CASE StartUpdate(p)
  <2> DEFINE open == OpenRows(versions[pub[p].of])
             new == [pub[p] EXCEPT !.pc = "updating", !.rows = open]
  <2>1. /\ pub' = [pub EXCEPT ![p] = new] /\ pub[p].pc = "checked"
        /\ UNCHANGED <<live, links, items, versions, raced>>
    BY <1>2 DEF StartUpdate
  <2>2. pub[p] \in Request /\ pub[p].of \in Entities
    BY <1>0, <2>1, Publishing
  <2>3. open \in SUBSET Nat
    BY <1>0, <2>2 DEF OpenRows
  <2> HIDE DEF open
  <2>4. new \in Request /\ new.pc = "updating" /\ new.of = pub[p].of /\ new.rows = open
    BY <2>2, <2>3 DEF Request
  <2> HIDE DEF new
  <2>5. pub' \in [Publishers -> Request \cup {Idle}]
        /\ pub'[p] = new /\ \A q \in Publishers \ {p} : pub'[q] = pub[q]
    BY <1>0, <2>1, <2>4
  <2>6. Types'
    BY <1>0, <2>1, <2>5 DEF Types
  <2>7. ASSUME NEW x \in Entities, Unraced(x)
        PROVE  /\ Chain(versions[x])
               /\ \A q \in Publishers : pub'[q].pc # "idle" /\ pub'[q].of = x =>
                    /\ pub'[q].pc = "updating" => pub'[q].rows = OpenRows(versions[x])
                    /\ \A r \in Publishers \ {q} : pub'[r].pc = "idle"
    <3>1. \A q \in Publishers : pub[q].pc # "idle" /\ pub[q].of = x =>
            /\ pub[q].pc = "updating" => pub[q].rows = OpenRows(versions[x])
            /\ \A r \in Publishers \ {q} : pub[r].pc = "idle"
      BY <2>7 DEF IInv
    <3>2. ASSUME NEW q \in Publishers, pub'[q].pc # "idle", pub'[q].of = x
          PROVE  /\ pub'[q].pc = "updating" => pub'[q].rows = OpenRows(versions[x])
                 /\ \A r \in Publishers \ {q} : pub'[r].pc = "idle"
      <4>1. CASE q = p
        BY <2>1, <2>4, <2>5, <3>1, <3>2, <4>1 DEF open
      <4>2. CASE q # p
        <5>1. pub[q].pc # "idle" /\ pub[q].of = x /\ pub'[q] = pub[q]
          BY <2>5, <3>2, <4>2
        <5> QED
          BY <2>1, <3>1, <4>2, <5>1
      <4> QED
        BY <4>1, <4>2
    <3> QED
      BY <2>7, <3>2 DEF IInv
  <2>8. \A x \in Entities : Chain(versions[x])' = Chain(versions[x])
    BY <2>1 DEF Chain
  <2> QED
    BY <2>1, <2>6, <2>7, <2>8 DEF IInv, Unraced, OpenRows
<1>3. CASE CommitPublish(p)
  <2>1. /\ pub[p].pc = "updating" /\ pub' = [pub EXCEPT ![p] = Idle]
        /\ UNCHANGED <<live, links, items, raced>>
    BY <1>3 DEF CommitPublish
  <2>2. PICK e \in Entities : e = pub[p].of
    BY <1>0, <2>1, Publishing
  <2>3. pub' \in [Publishers -> Request \cup {Idle}] /\ pub'[p].pc = "idle"
        /\ \A q \in Publishers \ {p} : pub'[q] = pub[q]
    BY <1>0, <2>1 DEF Idle
  <2>4. /\ versions' \in [Entities -> Seq(Version)]
        /\ \A x \in Entities \ {e} : versions'[x] = versions[x]
    <3>1. CASE versions' = versions
      BY <1>0, <3>1 DEF Types
    <3>2. CASE versions' # versions
      BY <1>0, <1>3, <2>2, <3>2, Published
    <3> QED
      BY <3>1, <3>2
  <2>5. Types'
    BY <1>0, <2>1, <2>3, <2>4 DEF Types
  <2>6. ASSUME Unraced(e)
        PROVE  Chain(versions'[e]) /\ \A q \in Publishers : pub'[q].pc = "idle"
    <3>1. /\ Chain(versions[e]) /\ pub[p].rows = OpenRows(versions[e])
          /\ \A q \in Publishers \ {p} : pub[q].pc = "idle"
      BY <2>1, <2>2, <2>6 DEF IInv
    <3>2. CASE versions' = versions
      BY <2>3, <3>1, <3>2
    <3>3. CASE versions' # versions
      <4>0. PICK day, n : day = pub[p].day /\ n = Len(versions[e])
        OBVIOUS
      <4>1. Extended(p, e, day, n)
        BY <1>0, <1>3, <2>2, <3>3, <4>0, Published
      <4> USE DEF Extended
      <4>2. ASSUME NEW i \in 1 .. n
            PROVE  versions[e][i].from \in Nat \ {0} /\ versions[e][i].to \in Nat
        <5>1. versions[e][i] \in Version
          BY <4>0, <4>1
        <5> QED
          BY <5>1, ConfigAssumption DEF Version, Days
      <4>3. versions'[e][n + 1].from = day /\ versions'[e][n + 1].to = 0 /\ day \in Nat \ {0}
        BY <4>1, ConfigAssumption DEF Days, Open
      <4>4. \A i \in 1 .. n :
              /\ i < n => versions[e][i].to # 0 /\ versions[e][i].to < versions[e][n].from
              /\ i = n => versions[e][i].to = 0 /\ i \in pub[p].rows
              /\ \A j \in 1 .. n : i < j => versions[e][i].to < versions[e][j].from
        BY <3>1, <4>0, <4>1 DEF Chain, OpenRows, Open
      <4>5. ASSUME NEW i \in 1 .. n
            PROVE  /\ versions'[e][i].to # 0 /\ versions'[e][i].to < day
                   /\ \A j \in 1 .. n : i < j => versions'[e][i].to < versions'[e][j].from
        <5>1. CASE i = n
          <6>1. versions'[e][i].to = day - 1 /\ day - 1 >= versions[e][i].from
            BY <4>1, <4>4, <5>1 DEF Open
          <6> QED
            BY <4>2, <4>3, <5>1, <6>1
        <5>2. CASE i < n
          <6>1. n \in 1 .. n /\ n \in pub[p].rows /\ versions[e][n].to = 0
            BY <4>1, <4>4, <5>2
          <6>2. day - 1 >= versions[e][n].from
            BY <4>1, <6>1 DEF Open
          <6>3. versions'[e][i].to = versions[e][i].to /\ versions[e][i].to # 0
            BY <4>1, <4>4, <5>2 DEF Open
          <6>4. \A j \in 1 .. n : versions'[e][j].from = versions[e][j].from
            BY <4>1
          <6> QED
            BY <4>2, <4>3, <4>4, <5>2, <6>1, <6>2, <6>3, <6>4
        <5> QED
          BY <4>1, <5>1, <5>2
      <4>6. Chain(versions'[e])
        <5> SUFFICES ASSUME NEW i \in 1 .. (n + 1)
                     PROVE  /\ i < n + 1 => versions'[e][i].to # Open
                            /\ i = n + 1 => versions'[e][i].to = Open
                            /\ \A j \in 1 .. (n + 1) :
                                 i < j => versions'[e][i].to < versions'[e][j].from
          BY <4>1 DEF Chain
        <5>1. CASE i = n + 1
          BY <4>1, <4>3, <5>1 DEF Open
        <5>2. CASE i \in 1 .. n
          BY <4>1, <4>3, <4>5, <5>2 DEF Open
        <5> QED
          BY <4>1, <5>1, <5>2
      <4> QED
        BY <2>3, <3>1, <4>6
    <3> QED
      BY <3>2, <3>3
  <2>7. ASSUME NEW x \in Entities, Unraced(x)
        PROVE  /\ Chain(versions'[x])
               /\ \A q \in Publishers : pub'[q].pc # "idle" /\ pub'[q].of = x =>
                    /\ pub'[q].pc = "updating" => pub'[q].rows = OpenRows(versions'[x])
                    /\ \A r \in Publishers \ {q} : pub'[r].pc = "idle"
    <3>1. CASE x = e
      BY <2>6, <2>7, <3>1
    <3>2. CASE x # e
      <4>1. versions'[x] = versions[x]
        BY <2>4, <3>2
      <4>2. /\ Chain(versions[x])
            /\ \A q \in Publishers : pub[q].pc # "idle" /\ pub[q].of = x =>
                 /\ pub[q].pc = "updating" => pub[q].rows = OpenRows(versions[x])
                 /\ \A r \in Publishers \ {q} : pub[r].pc = "idle"
        BY <2>7 DEF IInv
      <4> QED
        BY <2>3, <4>1, <4>2
    <3> QED
      BY <3>1, <3>2
  <2> QED
    BY <2>1, <2>5, <2>7 DEF IInv, Unraced, Chain, OpenRows
<1> QED
  BY <1>1, <1>2, <1>3 DEF Publish

LEMMA IInvInit == ConfigInit => IInv
<1> SUFFICES ASSUME ConfigInit PROVE IInv
  OBVIOUS
<1>1. \A e \in Entities : versions[e] = <<>> /\ DOMAIN versions[e] = {}
  BY DEF ConfigInit
<1>2. \A p \in Publishers : pub[p].pc = "idle"
  BY DEF ConfigInit, Idle
<1>3. \A e \in Entities : Chain(versions[e])
  BY <1>1 DEF Chain
<1> QED
  BY <1>2, <1>3, TypesInit DEF IInv

LEMMA IInvNext == IInv /\ [ConfigNext]_configVars => IInv'
<1> SUFFICES ASSUME IInv, [ConfigNext]_configVars PROVE IInv'
  OBVIOUS
<1>1. ASSUME NEW p \in Publishers, Publish(p) PROVE IInv'
  BY <1>1, IInvPublish
<1>2. CASE EditEntities \/ EditTemplate
  <2>1. Types' /\ UNCHANGED <<versions, pub, raced>>
    BY <1>2, EditTypes DEF IInv, Types
  <2> QED
    BY <2>1 DEF IInv, Unraced, Chain, OpenRows
<1>3. CASE UNCHANGED configVars
  BY <1>3 DEF configVars, IInv, Types, Unraced, Chain, OpenRows
<1> QED
  BY <1>1, <1>2, <1>3 DEF ConfigNext

LEMMA Invariance == ConfigSpec => []IInv
BY IInvInit, IInvNext, PTL DEF ConfigSpec
------------------------------------------------------------------------------
\* At most one version of an entity is in force on any day, as long as no two
\* publications of it overlapped: its history is a chain.
THEOREM OneAlwaysInForce == ConfigSpec => []OneVersionInForce
<1>1. IInv => OneVersionInForce
  <2> SUFFICES ASSUME IInv, NEW e \in Entities, NEW d \in Days, Unraced(e)
               PROVE  Cardinality(Effective(e, d)) <= 1
    BY DEF OneVersionInForce
  <2>1. Chain(versions[e]) /\ versions[e] \in Seq(Version)
    BY DEF IInv, Types
  <2>2. \A i \in DOMAIN versions[e] :
          /\ i \in Nat /\ i <= Len(versions[e])
          /\ versions[e][i].from \in Nat /\ versions[e][i].to \in Nat
    <3> SUFFICES ASSUME NEW i \in DOMAIN versions[e]
                 PROVE  /\ i \in Nat /\ i <= Len(versions[e])
                        /\ versions[e][i].from \in Nat /\ versions[e][i].to \in Nat
      OBVIOUS
    <3>1. versions[e][i] \in Version /\ i \in Nat /\ i <= Len(versions[e])
      BY <2>1
    <3> QED
      BY <3>1, ConfigAssumption DEF Version, Days
  <2>3. ASSUME NEW i \in Effective(e, d), NEW j \in Effective(e, d), i < j PROVE FALSE
    <3>1. i \in DOMAIN versions[e] /\ j \in DOMAIN versions[e] /\ d \in Nat
      BY ConfigAssumption DEF Effective, Days
    <3>2. i < Len(versions[e])
      BY <2>1, <2>2, <2>3, <3>1
    <3>3. versions[e][i].to # Open /\ versions[e][i].to < versions[e][j].from
      BY <2>1, <2>3, <3>1, <3>2 DEF Chain
    <3>4. versions[e][i].to >= d /\ versions[e][j].from <= d
      BY <3>3 DEF Effective, Covers
    <3> QED
      BY <2>2, <3>1, <3>3, <3>4
  <2>4. \A i, j \in Effective(e, d) : i = j
    <3>1. Effective(e, d) \subseteq Nat
      BY <2>2 DEF Effective
    <3> QED
      BY <2>3, <3>1
  <2>5. CASE Effective(e, d) = {}
    <3>1. Cardinality(Effective(e, d)) = 0
      BY <2>5, FS_EmptySet, Zenon
    <3> QED
      BY <3>1
  <2>6. CASE Effective(e, d) # {}
    <3>1. PICK i : Effective(e, d) = {i}
      BY <2>4, <2>6
    <3>2. Cardinality({i}) = 1
      BY FS_Singleton, Zenon
    <3> QED
      BY <3>1, <3>2
  <2> QED
    BY <2>5, <2>6
<1> QED
  BY <1>1, Invariance, PTL

\* Publishing from a day on changes nothing that is in force before that day, whatever
\* else is published at the same time.
THEOREM PastAlwaysKept == ConfigSpec => PastKept
<1>1. Types /\ [ConfigNext]_configVars =>
        [\A e \in Entities, d \in Days :
           /\ Len(versions'[e]) > Len(versions[e])
           /\ d < versions'[e][Len(versions'[e])].from
           => Effective(e, d)' = Effective(e, d)]_configVars
  <2> SUFFICES ASSUME Types, [ConfigNext]_configVars, NEW e \in Entities, NEW d \in Days,
                      Len(versions'[e]) > Len(versions[e]),
                      d < versions'[e][Len(versions'[e])].from
               PROVE  Effective(e, d)' = Effective(e, d)
    OBVIOUS
  <2>1. versions'[e] # versions[e]
    <3>1. Len(versions[e]) \in Nat
      BY DEF Types
    <3> QED
      BY <3>1
  <2>2. PICK p \in Publishers : CommitPublish(p) /\ versions' # versions
    <3>1. EditEntities \/ EditTemplate => versions' = versions
      BY EditTypes
    <3>2. \A p \in Publishers : Publish(p) => CommitPublish(p) \/ versions' = versions
      BY DEF Publish, BeginPublish, StartUpdate
    <3> QED
      BY <2>1, <3>1, <3>2 DEF ConfigNext, configVars
  <2>3. PICK day, n : day = pub[p].day /\ n = Len(versions[e])
    OBVIOUS
  <2>4. e = pub[p].of
    <3>1. PICK x : x = pub[p].of
      OBVIOUS
    <3>2. \A y \in Entities \ {x} : versions'[y] = versions[y]
      BY <2>2, <2>3, <3>1, Published
    <3> QED
      BY <2>1, <3>1, <3>2
  <2>5. Extended(p, e, day, n)
    BY <2>2, <2>3, <2>4, Published
  <2> USE DEF Extended
  <2>6. versions'[e][n + 1].from = day /\ d < day /\ d \in Nat /\ day \in Nat
    BY <2>5, ConfigAssumption DEF Days
  <2>7. ~Covers(versions'[e][n + 1], d)
    BY <2>6 DEF Covers
  <2>8. \A i \in 1 .. n : Covers(versions'[e][i], d) <=> Covers(versions[e][i], d)
    BY <2>5, <2>6 DEF Covers, Open
  <2> QED
    BY <2>5, <2>7, <2>8 DEF Effective
<1>2. IInv => Types
  BY DEF IInv
<1> QED
  BY <1>1, <1>2, Invariance, PTL DEF ConfigSpec, PastKept
------------------------------------------------------------------------------
(* The bundle of a day *)

\* The choices of the bundle, as functions of the rows they choose from.
Latest(history, rows) ==
  CHOOSE i \in rows : \A j \in rows : history[i].from >= history[j].from
Sole(rows) == CHOOSE i \in rows : TRUE

LEMMA Chosen ==
  ASSUME NEW d \in Days
  PROVE  /\ TemplateVersion(d) = Latest(versions["template"], Effective("template", d))
         /\ GroupItems(d) = IF Effective("group", d) = {} THEN items
                            ELSE versions["group"][Sole(Effective("group", d))].what.items
         /\ \A e : Picked(e, d) = IF Effective(e, d) = {} THEN live[e]
                                  ELSE IF Cardinality(Effective(e, d)) > 1 THEN Overlap
                                  ELSE versions[e][Sole(Effective(e, d))].what.head
BY Zenon DEF TemplateVersion, Latest, GroupItems, Picked, Sole

LEMMA ChosenNext ==
  ASSUME NEW d \in Days
  PROVE  /\ TemplateVersion(d)' = Latest(versions'["template"], Effective("template", d)')
         /\ GroupItems(d)' = IF Effective("group", d)' = {} THEN items'
                             ELSE versions'["group"][Sole(Effective("group", d)')].what.items
         /\ \A e : Picked(e, d)' = IF Effective(e, d)' = {} THEN live'[e]
                                   ELSE IF Cardinality(Effective(e, d)') > 1 THEN Overlap
                                   ELSE versions'[e][Sole(Effective(e, d)')].what.head
BY Zenon DEF TemplateVersion, Latest, GroupItems, Picked, Sole, Overlap

\* What is in force on a day depends on the versions of the entity alone.
LEMMA SameVersions ==
  ASSUME NEW d \in Days, NEW e, versions'[e] = versions[e]
  PROVE  /\ Effective(e, d)' = Effective(e, d)
         /\ e = "template" => TemplateVersion(d)' = TemplateVersion(d)
         /\ Effective(e, d) # {} => Picked(e, d)' = Picked(e, d)
         /\ Effective(e, d) # {} /\ e = "group" => GroupItems(d)' = GroupItems(d)
<1>1. Effective(e, d)' = Effective(e, d)
  BY DEF Effective, Covers
<1>2. e = "template" => TemplateVersion(d)' = TemplateVersion(d)
  BY <1>1, Chosen, ChosenNext, Zenon
<1>3. ASSUME Effective(e, d) # {} PROVE Picked(e, d)' = Picked(e, d)
  <2>1. Picked(e, d) = IF Cardinality(Effective(e, d)) > 1 THEN Overlap
                       ELSE versions[e][Sole(Effective(e, d))].what.head
    BY <1>3, Chosen, Zenon
  <2>2. Picked(e, d)' = IF Cardinality(Effective(e, d)) > 1 THEN Overlap
                        ELSE versions[e][Sole(Effective(e, d))].what.head
    BY <1>1, <1>3, ChosenNext, Zenon
  <2> QED
    BY <2>1, <2>2, Zenon
<1>4. ASSUME Effective("group", d) # {}, e = "group" PROVE GroupItems(d)' = GroupItems(d)
  BY <1>1, <1>4, Chosen, ChosenNext, Zenon
<1> QED
  BY <1>1, <1>2, <1>3, <1>4

\* The parts of the bundle of a day that a template version covers.
LEMMA VersionedParts ==
  ASSUME NEW d \in Days, Effective("template", d) # {},
         NEW linked, linked = versions["template"][TemplateVersion(d)].what.links
  PROVE  /\ Bundle(d).fails = (linked["component"] = NoLink /\ linked["group"] = NoLink)
         /\ Bundle(d).links = linked
         /\ Bundle(d).group = IF linked["group"] = NoLink THEN NoLink ELSE Picked("group", d)
         /\ Bundle(d).component =
              IF linked["component"] # NoLink THEN Picked("component", d)
              ELSE IF linked["group"] # NoLink /\ GroupItems(d) # {}
                THEN live["component"] ELSE NoLink
         /\ Bundle(d).grouped = (linked["group"] # NoLink /\ GroupItems(d) # {})
         /\ Bundle(d).variable = ActiveOnly(Picked("variable", d))
BY DEF Bundle, VersionedBundle

LEMMA VersionedPartsNext ==
  ASSUME NEW d \in Days, Effective("template", d)' # {},
         NEW linked, linked = versions'["template"][TemplateVersion(d)'].what.links
  PROVE  /\ Bundle(d)' = [fails |-> linked["component"] = NoLink /\ linked["group"] = NoLink,
              links |-> linked,
              group |-> IF linked["group"] = NoLink THEN NoLink ELSE Picked("group", d)',
              component |-> IF linked["component"] # NoLink THEN Picked("component", d)'
                            ELSE IF linked["group"] # NoLink /\ GroupItems(d)' # {}
                              THEN live'["component"] ELSE NoLink,
              grouped |-> linked["group"] # NoLink /\ GroupItems(d)' # {},
              variable |-> ActiveOnly(Picked("variable", d)')]
BY DEF Bundle, VersionedBundle, NoLink, ActiveOnly

\* Edits of the live tables do not reach what a version in force gives.
THEOREM EditsAlwaysStayOut == ConfigSpec => EditsStayOut
<1>1. ASSUME versions' = versions, NEW d \in Days, Effective("template", d) # {}
      PROVE  /\ Bundle(d).fails' = Bundle(d).fails /\ Bundle(d).links' = Bundle(d).links
             /\ Effective("group", d) # {} =>
                  Bundle(d).group' = Bundle(d).group /\ Bundle(d).grouped' = Bundle(d).grouped
             /\ Effective("component", d) # {} /\ Bundle(d).links["component"] # NoLink =>
                  Bundle(d).component' = Bundle(d).component
             /\ Effective("variable", d) # {} => Bundle(d).variable' = Bundle(d).variable
  <2>1. PICK linked : linked = versions["template"][TemplateVersion(d)].what.links
    OBVIOUS
  <2>2. Effective("template", d)' = Effective("template", d)
        /\ linked = versions'["template"][TemplateVersion(d)'].what.links
    BY <1>1, <2>1, SameVersions
  <2>3. /\ Effective("group", d) # {} =>
             Picked("group", d)' = Picked("group", d) /\ GroupItems(d)' = GroupItems(d)
        /\ Effective("component", d) # {} => Picked("component", d)' = Picked("component", d)
        /\ Effective("variable", d) # {} => Picked("variable", d)' = Picked("variable", d)
    BY <1>1, SameVersions
  <2>4. /\ Bundle(d)'.fails = (linked["component"] = NoLink /\ linked["group"] = NoLink)
        /\ Bundle(d)'.links = linked
        /\ Bundle(d)'.group = IF linked["group"] = NoLink THEN NoLink ELSE Picked("group", d)'
        /\ linked["component"] # NoLink => Bundle(d)'.component = Picked("component", d)'
        /\ Bundle(d)'.grouped = (linked["group"] # NoLink /\ GroupItems(d)' # {})
        /\ Bundle(d)'.variable = ActiveOnly(Picked("variable", d)')
    BY <1>1, <2>2, VersionedPartsNext
  <2>5. /\ Bundle(d).fails = (linked["component"] = NoLink /\ linked["group"] = NoLink)
        /\ Bundle(d).links = linked
        /\ Bundle(d).group = IF linked["group"] = NoLink THEN NoLink ELSE Picked("group", d)
        /\ linked["component"] # NoLink => Bundle(d).component = Picked("component", d)
        /\ Bundle(d).grouped = (linked["group"] # NoLink /\ GroupItems(d) # {})
        /\ Bundle(d).variable = ActiveOnly(Picked("variable", d))
    BY <1>1, <2>1, VersionedParts
  <2> QED
    BY <2>3, <2>4, <2>5, Zenon
<1>2. [ConfigNext]_configVars =>
        [\A d \in Days : Effective("template", d) # {} /\ versions' = versions =>
           /\ Bundle(d).fails' = Bundle(d).fails /\ Bundle(d).links' = Bundle(d).links
           /\ Effective("group", d) # {} =>
                Bundle(d).group' = Bundle(d).group /\ Bundle(d).grouped' = Bundle(d).grouped
           /\ Effective("component", d) # {} /\ Bundle(d).links["component"] # NoLink =>
                Bundle(d).component' = Bundle(d).component
           /\ Effective("variable", d) # {} => Bundle(d).variable' = Bundle(d).variable]_configVars
  BY <1>1
<1> QED
  BY <1>2, PTL DEF ConfigSpec, EditsStayOut

\* The bundle of the live tables, when no link of the template is inactive.
LEMMA LiveParts ==
  ASSUME NEW d \in Days, Effective("template", d) = {},
         links \in [Linkable -> Link \cup {NoLink}],
         \A k \in Linkable : links[k] # NoLink => links[k].active
  PROVE  Bundle(d) = [fails |-> links["component"] = NoLink,
            links |-> links,
            group |-> IF links["group"] = NoLink THEN NoLink ELSE live["group"],
            component |-> IF links["component"] # NoLink THEN live["component"]
                          ELSE IF links["group"] # NoLink /\ items # {}
                            THEN live["component"] ELSE NoLink,
            grouped |-> links["group"] # NoLink /\ items # {},
            variable |-> ActiveOnly(live["variable"])]
<1> DEFINE on(k) == links[k] # NoLink /\ links[k].active
<1>1. \A k \in Linkable : on(k) <=> links[k] # NoLink
  OBVIOUS
<1>2. Bundle(d) =
        [fails |-> ~on("component"),
         links |-> [k \in Linkable |-> IF on(k) THEN links[k] ELSE NoLink],
         group |-> IF on("group") THEN live["group"] ELSE NoLink,
         component |-> IF on("component") \/ (on("group") /\ items # {})
                       THEN live["component"] ELSE NoLink,
         grouped |-> on("group") /\ items # {},
         variable |-> ActiveOnly(live["variable"])]
  BY Zenon DEF Bundle, LiveBundle
<1> HIDE DEF on
<1>3. [k \in Linkable |-> IF on(k) THEN links[k] ELSE NoLink] = links
  BY <1>1
<1>4. (on("group") <=> links["group"] # NoLink) /\ (on("component") <=> links["component"] # NoLink)
  BY <1>1 DEF Linkable
<1>5. (on("group") /\ items # {}) = (links["group"] # NoLink /\ items # {})
  BY <1>4
<1> QED
  BY <1>2, <1>3, <1>4, <1>5

\* The first publication of a template does not change what the bundle of its days pays:
\* the version it commits holds the links that are live, and nothing else is in force.
\* Only a template of groups alone, which failed, fails no longer.
THEOREM PublishAlwaysKeepsPay == ConfigSpec => PublishKeepsPay
<1>1. ASSUME Types, ConfigNext, NEW d \in Days,
             Effective("template", d) = {}, Effective("template", d)' # {},
             \A k \in Linkable : links[k] # NoLink => links[k].active,
             \A e \in Entities \ {"template"} : Effective(e, d) = {}
      PROVE  /\ Bundle(d).fails = (links["component"] = NoLink)
             /\ Bundle(d)' = [Bundle(d) EXCEPT !.fails = @ /\ links["group"] = NoLink]
  <2>1. versions'["template"] # versions["template"]
    BY <1>1, SameVersions
  <2>2. PICK p \in Publishers : CommitPublish(p)
    <3>1. EditEntities \/ EditTemplate => versions' = versions
      BY <1>1, EditTypes
    <3>2. \A p \in Publishers : Publish(p) => CommitPublish(p) \/ versions' = versions
      BY DEF Publish, BeginPublish, StartUpdate
    <3> QED
      BY <1>1, <2>1, <3>1, <3>2 DEF ConfigNext
  <2>3. /\ pub[p].of = "template" /\ UNCHANGED <<live, links, items>>
        /\ \A x \in Entities \ {"template"} : versions'[x] = versions[x]
    <3>1. PICK x, day, n : x = pub[p].of /\ day = pub[p].day /\ n = Len(versions[x])
      OBVIOUS
    <3>2. \A y \in Entities \ {x} : versions'[y] = versions[y]
      BY <1>1, <2>1, <2>2, <3>1, Published
    <3>3. x = "template"
      BY <2>1, <3>2 DEF Entities
    <3> QED
      BY <2>2, <3>1, <3>2, <3>3 DEF CommitPublish
  <2>4. PICK day, n : day = pub[p].day /\ n = Len(versions["template"])
    OBVIOUS
  <2>5. Extended(p, "template", day, n)
    <3>1. PICK e : e = pub[p].of
      OBVIOUS
    <3>2. Types /\ n = Len(versions[e]) /\ day = pub[p].day /\ versions' # versions
      BY <1>1, <2>1, <2>3, <2>4, <3>1
    <3>3. Extended(p, e, day, n)
      BY <2>2, <3>1, <3>2, Published
    <3> QED
      BY <2>3, <3>1, <3>3
  <2> USE DEF Extended
  <2>6. Effective("template", d)' = {n + 1}
    <3>1. \A i \in 1 .. n : ~Covers(versions'["template"][i], d)
      <4> SUFFICES ASSUME NEW i \in 1 .. n, Covers(versions'["template"][i], d) PROVE FALSE
        OBVIOUS
      <4>1. ~Covers(versions["template"][i], d)
        BY <1>1, <2>5 DEF Effective
      <4>2. versions["template"][i].from <= d
        BY <2>5 DEF Covers
      <4>3. versions["template"][i].to # Open
        BY <4>1, <4>2 DEF Covers
      <4> QED
        BY <2>5, <4>1, <4>3 DEF Covers
    <3>2. Effective("template", d)' \subseteq 1 .. (n + 1)
      BY <2>5 DEF Effective
    <3>3. \A i \in 1 .. n : i \notin Effective("template", d)'
      BY <3>1 DEF Effective
    <3> QED
      BY <1>1, <2>5, <3>2, <3>3
  <2>7. versions'["template"][TemplateVersion(d)'].what.links = links
    <3>1. versions'["template"][n + 1].from = day /\ day \in Nat
      BY <2>5, ConfigAssumption DEF Days
    <3>2. Latest(versions'["template"], {n + 1}) = n + 1
      BY <3>1 DEF Latest
    <3>3. TemplateVersion(d)' = n + 1
      BY <2>6, <3>2, ChosenNext, Zenon
    <3> QED
      BY <2>5, <3>3 DEF Captured
  <2>8. /\ GroupItems(d)' = items /\ Picked("group", d)' = live["group"]
        /\ Picked("component", d)' = live["component"]
        /\ Picked("variable", d)' = live["variable"]
    <3>1. \A e \in Entities \ {"template"} : Effective(e, d)' = {}
      BY <1>1, <2>3, SameVersions
    <3>2. /\ Effective("group", d)' = {} /\ Effective("component", d)' = {}
          /\ Effective("variable", d)' = {}
      BY <3>1 DEF Entities
    <3> QED
      BY <2>3, <3>2, ChosenNext, Zenon
  <2>9. links \in [Linkable -> Link \cup {NoLink}]
    BY <1>1 DEF Types
  <2>10. PICK linked : linked = versions'["template"][TemplateVersion(d)'].what.links
    OBVIOUS
  <2>11. linked = links /\ live' = live
    BY <2>3, <2>7, <2>10
  <2>12. Bundle(d)' = [fails |-> links["component"] = NoLink /\ links["group"] = NoLink,
            links |-> links,
            group |-> IF links["group"] = NoLink THEN NoLink ELSE live["group"],
            component |-> IF links["component"] # NoLink THEN live["component"]
                          ELSE IF links["group"] # NoLink /\ items # {}
                            THEN live["component"] ELSE NoLink,
            grouped |-> links["group"] # NoLink /\ items # {},
            variable |-> ActiveOnly(live["variable"])]
    <3>1. Bundle(d)' = [fails |-> linked["component"] = NoLink /\ linked["group"] = NoLink,
              links |-> linked,
              group |-> IF linked["group"] = NoLink THEN NoLink ELSE Picked("group", d)',
              component |-> IF linked["component"] # NoLink THEN Picked("component", d)'
                            ELSE IF linked["group"] # NoLink /\ GroupItems(d)' # {}
                              THEN live'["component"] ELSE NoLink,
              grouped |-> linked["group"] # NoLink /\ GroupItems(d)' # {},
              variable |-> ActiveOnly(Picked("variable", d)')]
      BY <1>1, <2>10, VersionedPartsNext
    <3> QED
      BY <2>8, <2>11, <3>1, Zenon
  <2>13. PICK group, component, variable : /\ group = (IF links["group"] = NoLink THEN NoLink ELSE live["group"])
            /\ component = (IF links["component"] # NoLink THEN live["component"]
                            ELSE IF links["group"] # NoLink /\ items # {}
                              THEN live["component"] ELSE NoLink)
            /\ variable = ActiveOnly(live["variable"])
    OBVIOUS
  <2>14. Bundle(d) = [fails |-> links["component"] = NoLink, links |-> links, group |-> group,
            component |-> component, grouped |-> links["group"] # NoLink /\ items # {},
            variable |-> variable]
    BY <1>1, <2>9, <2>13, LiveParts, Zenon
  <2>15. Bundle(d)' = [fails |-> links["component"] = NoLink /\ links["group"] = NoLink,
            links |-> links, group |-> group,
            component |-> component, grouped |-> links["group"] # NoLink /\ items # {},
            variable |-> variable]
    BY <2>12, <2>13, Zenon
  <2>16. Bundle(d).fails = (links["component"] = NoLink)
    BY <2>14
  <2>17. PICK fails : fails = (links["component"] = NoLink /\ links["group"] = NoLink)
    OBVIOUS
  <2>18. [Bundle(d) EXCEPT !.fails = fails] =
           [fails |-> fails, links |-> links, group |-> group,
            component |-> component, grouped |-> links["group"] # NoLink /\ items # {},
            variable |-> variable]
    BY <2>14
  <2> QED
    BY <2>15, <2>16, <2>17, <2>18, Zenon
<1>2. Types /\ [ConfigNext]_configVars =>
        [\A d \in Days :
           /\ Effective("template", d) = {} /\ Effective("template", d)' # {}
           /\ \A k \in Linkable : links[k] # NoLink => links[k].active
           /\ \A e \in Entities \ {"template"} : Effective(e, d) = {}
           => /\ Bundle(d).fails = (links["component"] = NoLink)
              /\ Bundle(d)' = [Bundle(d) EXCEPT !.fails = @ /\ links["group"] = NoLink]]_configVars
  BY <1>1
<1>3. IInv => Types
  BY DEF IInv
<1> QED
  BY <1>2, <1>3, Invariance, PTL DEF ConfigSpec, PublishKeepsPay
=============================================================================
