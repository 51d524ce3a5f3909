---------------------------- MODULE SalaryConfig ----------------------------
(***************************************************************************)
(* The salary configuration of an organisation and its effective-dated     *)
(* versions: the live tables an administrator edits                        *)
(* (crud/salary_phase2_crud.py, crud/salary_crud.py), the publication of   *)
(* what they hold from a day on (crud/salary_version_crud.py), and the     *)
(* bundle a preview or a payroll run resolves for a day                    *)
(* (services/payroll_phase2_bundle_loader.py).                             *)
(*                                                                         *)
(* One template, one group, one component and one derived variable: what   *)
(* can go wrong is between an entity and its versions, and between a       *)
(* template and what it reaches.  Two administrators may publish at once, so *)
(* a publication is three steps: it reads the entity and its history, its  *)
(* UPDATE takes a snapshot (before it waits for row locks), it commits.    *)
(* Publications of different entities touch different rows; only those of  *)
(* one entity are interleaved.                                             *)
(***************************************************************************)
EXTENDS Naturals, Sequences, FiniteSets

CONSTANTS
  Publishers,  \* concurrent publish requests
  MaxDay,      \* days are 1 .. MaxDay
  MaxEdits,    \* bound on edits of the live tables
  MaxVersions  \* bound on publications

ASSUME ConfigAssumption == MaxDay \in Nat /\ MaxEdits \in Nat /\ MaxVersions \in Nat

VARIABLES
  live,      \* the row of every entity: its revision and whether it is active
  links,     \* salary_template_components, salary_template_groups
  items,     \* salary_component_group_items of the group
  versions,  \* the *_versions rows of every entity, oldest first
  pub,       \* what every publish request has read and done
  raced      \* history: did two publications of the entity ever overlap in time?

configVars == <<live, links, items, versions, pub, raced>>
------------------------------------------------------------------------------
Days == 1 .. MaxDay
Open == 0                 \* effective_to IS NULL
Entities == {"template", "group", "component", "variable"}
Linkable == {"component", "group"}
NoLink == [rev |-> "none"]
Link == [rev : 0 .. MaxEdits, active : BOOLEAN]
LiveRow == [rev : 0 .. MaxEdits, active : BOOLEAN]

\* What a version row freezes: the row of its entity, and the child rows copied
\* beside it (links for a template, items for a group).
Content == [head : LiveRow, links : [Linkable -> Link \cup {NoLink}], items : SUBSET {"component"}]
Version == [from : Days, to : 0 .. MaxDay, what : Content]

Idle == [pc |-> "idle"]
Publication ==
  [pc : {"checked", "updating"}, of : Entities, day : Days, head : LiveRow,
   rows : SUBSET (1 .. MaxVersions)]

ConfigTypeOK ==
  /\ live \in [Entities -> LiveRow]
  /\ links \in [Linkable -> Link \cup {NoLink}]
  /\ items \in SUBSET {"component"}
  /\ versions \in [Entities -> Seq(Version)]
  /\ pub \in [Publishers -> Publication \cup {Idle}]
  /\ raced \in [Entities -> BOOLEAN]

ConfigInit ==
  /\ live = [e \in Entities |-> [rev |-> 0, active |-> TRUE]]
  /\ links = [k \in Linkable |-> NoLink]
  /\ items = {}
  /\ versions = [e \in Entities |-> <<>>]
  /\ pub = [p \in Publishers |-> Idle]
  /\ raced = [e \in Entities |-> FALSE]
------------------------------------------------------------------------------
(* Edits of the live tables: each is one load and one commit. *)

Edits ==
  live["group"].rev + live["component"].rev + live["variable"].rev + Cardinality(items)
  + (IF links["component"] = NoLink THEN 0 ELSE 1 + links["component"].rev)
  + (IF links["group"] = NoLink THEN 0 ELSE 1)

\* update_salary_component_v2, update_component_group, update_derived_variable:
\* the fields the request sets, is_active among them.
UpdateLive(e, active) ==
  /\ e # "template"
  /\ Edits < MaxEdits
  /\ live' = [live EXCEPT ![e] = [rev |-> live[e].rev + 1, active |-> active]]
  /\ UNCHANGED <<links, items, versions, pub, raced>>

\* add_component_to_template: refused when the template has the component.
AddComponentToTemplate ==
  /\ Edits < MaxEdits
  /\ links["component"] = NoLink
  /\ links' = [links EXCEPT !["component"] = [rev |-> 0, active |-> TRUE]]
  /\ UNCHANGED <<live, items, versions, pub, raced>>

\* update_template_component: amount, formula or is_active of the link.
UpdateTemplateComponent(active) ==
  /\ links["component"] # NoLink
  /\ Edits < MaxEdits
  /\ links' = [links EXCEPT !["component"] =
                 [rev |-> links["component"].rev + 1, active |-> active]]
  /\ UNCHANGED <<live, items, versions, pub, raced>>

\* add_group_to_template, with the is_active of the request; no handler edits it.
AddGroupToTemplate(active) ==
  /\ Edits < MaxEdits
  /\ links["group"] = NoLink
  /\ links' = [links EXCEPT !["group"] = [rev |-> 0, active |-> active]]
  /\ UNCHANGED <<live, items, versions, pub, raced>>

AddGroupItem ==
  /\ Edits < MaxEdits
  /\ items = {}
  /\ items' = {"component"}
  /\ UNCHANGED <<live, links, versions, pub, raced>>
------------------------------------------------------------------------------
(* Publication *)

Publications ==
  Len(versions["template"]) + Len(versions["group"]) + Len(versions["component"])
  + Len(versions["variable"]) + Cardinality({q \in Publishers : pub[q].pc # "idle"})

\* Mutant: the last day of a version is no longer covered.
Covers_EndExclusive(row, d) == row.from <= d /\ (row.to = Open \/ row.to > d)

Covers(row, d) == row.from <= d /\ (row.to = Open \/ row.to >= d)

OpenRows(rows) == {i \in DOMAIN rows : rows[i].to = Open}

\* assert_publish_start_not_inside_closed_history
StartAllowed(rows, d) == \A i \in DOMAIN rows : rows[i].to # Open => ~Covers(rows[i], d)

\* The first half of publish_*_version: the entity and its history are read.
BeginPublish(p, e, d) ==
  /\ pub[p].pc = "idle"
  /\ \A q \in Publishers : pub[q].pc # "idle" => pub[q].of = e
  /\ Publications < MaxVersions
  /\ StartAllowed(versions[e], d)
  /\ pub' = [pub EXCEPT ![p] =
       [pc |-> "checked", of |-> e, day |-> d, head |-> live[e], rows |-> {}]]
  /\ raced' = [raced EXCEPT ![e] = @ \/ \E q \in Publishers : pub[q].pc # "idle"]
  /\ UNCHANGED <<live, links, items, versions>>

\* UPDATE ... SET effective_to WHERE effective_to IS NULL starts: the rows its
\* snapshot holds.
StartUpdate(p) ==
  /\ pub[p].pc = "checked"
  /\ pub' = [pub EXCEPT ![p].pc = "updating", ![p].rows = OpenRows(versions[pub[p].of])]
  /\ UNCHANGED <<live, links, items, versions, raced>>

\* Mutant: the column check on the date range is missing.
RangeHolds_Unchecked(row, to) == TRUE

\* CHECK (effective_to IS NULL OR effective_to >= effective_from)
RangeHolds(row, to) == to >= row.from

\* Mutant: the version is a row without the children of its entity.
Captured_HeadOnly(e, head) ==
  [head |-> head, links |-> [k \in Linkable |-> NoLink], items |-> {}]

\* The child rows are read after the version row is flushed, the entity before.
Captured(e, head) ==
  [head |-> head,
   links |-> IF e = "template" THEN links ELSE [k \in Linkable |-> NoLink],
   items |-> IF e = "group" THEN items ELSE {}]

\* Mutant: the version before ends the day after the new one starts.
ClosedAt_Next(d) == d + 1

\* previous_day
ClosedAt(d) == d - 1

\* The rows of the snapshot that are still open are closed, a row whose range
\* would be empty fails the request, and the new version is committed with them.
\* (A request that waits for a row lock gets it when the other has committed, so
\* the locks themselves need not be modelled.)
CommitPublish(p) ==
  LET q == pub[p]
      old == versions[q.of]
      rows == q.rows \cap OpenRows(old)
      closed == [i \in DOMAIN old |-> IF i \in rows THEN [old[i] EXCEPT !.to = ClosedAt(q.day)]
                                                    ELSE old[i]] IN
  /\ q.pc = "updating"
  /\ versions' = IF \A i \in rows : RangeHolds(old[i], ClosedAt(q.day))
       THEN [versions EXCEPT ![q.of] =
         Append(closed, [from |-> q.day, to |-> Open, what |-> Captured(q.of, q.head)])]
       ELSE versions
  /\ pub' = [pub EXCEPT ![p] = Idle]
  /\ UNCHANGED <<live, links, items, raced>>

\* What the administrators ask for: edits of the entities and of the template, and
\* publications of any entity from any day on.
EditEntities == (\E e \in Entities, b \in BOOLEAN : UpdateLive(e, b)) \/ AddGroupItem
EditTemplate ==
  AddComponentToTemplate \/ \E b \in BOOLEAN : UpdateTemplateComponent(b) \/ AddGroupToTemplate(b)
Publish(p) == (\E e \in Entities, d \in Days : BeginPublish(p, e, d)) \/ StartUpdate(p) \/ CommitPublish(p)

ConfigNext == EditEntities \/ EditTemplate \/ \E p \in Publishers : Publish(p)

ConfigSpec == ConfigInit /\ [][ConfigNext]_configVars
------------------------------------------------------------------------------
(* The bundle of a day *)

Effective(e, d) == {i \in DOMAIN versions[e] : Covers(versions[e][i], d)}

\* pick_effective_row; no version at all leaves the live row, two are an error.
Overlap == [rev |-> "overlap"]
Picked(e, d) ==
  LET rows == Effective(e, d) IN
  IF rows = {} THEN live[e]
  ELSE IF Cardinality(rows) > 1 THEN Overlap
  ELSE versions[e][CHOOSE i \in rows : TRUE].what.head

\* The template version: ORDER BY effective_from DESC LIMIT 1.
TemplateVersion(d) ==
  LET rows == Effective("template", d) IN
  CHOOSE i \in rows : \A j \in rows : versions["template"][i].from >= versions["template"][j].from

\* Mutant: the items of a group are read from the live table.
GroupItems_Live(d) == items

GroupItems(d) ==
  IF Effective("group", d) = {} THEN items
  ELSE versions["group"][CHOOSE i \in Effective("group", d) : TRUE].what.items

ActiveOnly(head) == IF "active" \in DOMAIN head /\ ~head.active THEN NoLink ELSE head

\* resolve_versioned_preview_bundle: what the engine gets for the day when a
\* template version covers it.  A component the template links is resolved by its
\* versions; one that only a group holds is read from the live table.  A template that
\* has neither components nor groups fails.
VersionedBundle(d) ==
  LET linked == versions["template"][TemplateVersion(d)].what.links
      direct == linked["component"] # NoLink
      grouped == linked["group"] # NoLink /\ GroupItems(d) # {} IN
  [fails |-> ~direct /\ linked["group"] = NoLink,
   links |-> linked,
   group |-> IF linked["group"] = NoLink THEN NoLink ELSE Picked("group", d),
   component |-> IF direct THEN Picked("component", d)
                 ELSE IF grouped THEN live["component"] ELSE NoLink,
   grouped |-> grouped,
   variable |-> ActiveOnly(Picked("variable", d))]

\* The legacy path: the live tables, active links only.  A template without a component
\* of its own fails, whatever groups it has.
LiveBundle ==
  LET on(k) == links[k] # NoLink /\ links[k].active IN
  [fails |-> ~on("component"),
   links |-> [k \in Linkable |-> IF on(k) THEN links[k] ELSE NoLink],
   group |-> IF on("group") THEN live["group"] ELSE NoLink,
   component |-> IF on("component") \/ (on("group") /\ items # {}) THEN live["component"] ELSE NoLink,
   grouped |-> on("group") /\ items # {},
   variable |-> ActiveOnly(live["variable"])]

\* load_phase2_engine_bundle; a payroll run of the day fails on an error.
Bundle(d) == IF Effective("template", d) # {} THEN VersionedBundle(d) ELSE LiveBundle
------------------------------------------------------------------------------
(* Properties *)

Unraced(e) == ~raced[e]

\* At most one version of an entity is in force on a day, so resolving a bundle
\* never fails, as long as no two publications of the entity overlapped in time:
\* the history check and the UPDATE alone do not give it, the CHECK of the column
\* does its part.
OneVersionInForce ==
  \A e \in Entities, d \in Days : Unraced(e) => Cardinality(Effective(e, d)) <= 1

\* Publishing from a day on changes nothing that is in force before that day,
\* whatever else is published at the same time.
PastKept ==
  [][\A e \in Entities, d \in Days :
       /\ Len(versions'[e]) > Len(versions[e])
       /\ d < versions'[e][Len(versions'[e])].from
       => Effective(e, d)' = Effective(e, d)]_configVars

\* A payroll run repeated for a day gets the bundle it got before, whatever was
\* edited in between: a part of the bundle that a version in force gives is not
\* reached by edits of the live tables.  A component that only a group holds is
\* left out: it is read from the live table even when it has versions.
EditsStayOut ==
  [][\A d \in Days : Effective("template", d) # {} /\ versions' = versions =>
       /\ Bundle(d).fails' = Bundle(d).fails /\ Bundle(d).links' = Bundle(d).links
       /\ Effective("group", d) # {} =>
            Bundle(d).group' = Bundle(d).group /\ Bundle(d).grouped' = Bundle(d).grouped
       /\ Effective("component", d) # {} /\ Bundle(d).links["component"] # NoLink =>
            Bundle(d).component' = Bundle(d).component
       /\ Effective("variable", d) # {} => Bundle(d).variable' = Bundle(d).variable]_configVars

\* The first publication of a template does not change what an employee is paid when
\* all its links are active: the bundle of its day, which came from the live tables, is
\* the one the versions now give.  (An inactive link is left out by the live path and
\* kept by the versioned one.)  Only a template that has groups and no component of its
\* own could not be paid from before, and can be now.
PublishKeepsPay ==
  [][\A d \in Days :
       /\ Effective("template", d) = {} /\ Effective("template", d)' # {}
       /\ \A k \in Linkable : links[k] # NoLink => links[k].active
       /\ \A e \in Entities \ {"template"} : Effective(e, d) = {}
       => /\ Bundle(d).fails = (links["component"] = NoLink)
          /\ Bundle(d)' = [Bundle(d) EXCEPT !.fails = @ /\ links["group"] = NoLink]]_configVars
=============================================================================
