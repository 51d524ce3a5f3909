------------------------------ MODULE OrgSetup ------------------------------
(* The settings of an organisation and the ways an administrator sets it up:  *)
(* /setup/, the attendance wizard (complete_setup), the activation of the     *)
(* attendance profile, and edits of settings, saved steps and feature flags.  *)
(* A request is a list of steps; every step reads the database, and then      *)
(* commits on what it read.  The wizard is a dozen transactions, so that it   *)
(* may end, or meet another request, between any two of them.                 *)
(* A JSON column is a function whose values name the request that wrote them. *)
EXTENDS Integers, Sequences, FiniteSets, SequencesExt

CONSTANTS
  Admins,       \* requests being served at a time
  CoreFlags,    \* the flags every activation turns on
  ModuleFlags,  \* the further flags the wizard turns on
  SettingKeys,  \* the keys of hr_settings ...
  Patches,      \* ... those an edit may set at once ...
  WizardKeys,   \* ... those the wizard sets ...
  SectionOf,    \* ... and the section of each, a function on SettingKeys
  Steps,        \* the steps of the wizard whose answers are saved
  Parts,        \* departments, designations and locations, by name
  MaxAsked,     \* bound on the requests
  MaxCut        \* bound on the requests that die

Flags == CoreFlags \cup ModuleFlags

ASSUME SetupAssumption ==
  /\ UNION Patches \cup WizardKeys \subseteq SettingKeys /\ DOMAIN SectionOf = SettingKeys
  /\ CoreFlags \cap ModuleFlags = {} /\ IsFiniteSet(Flags) /\ {MaxAsked, MaxCut} \subseteq Nat

VARIABLES
  org,    \* the rows of the organisation that a set-up writes
  admin,  \* the request each administrator is being served
  asked,  \* how many requests were made; a request's number names it
  cut,    \* how many of them died on the way
  owed,   \* history: the value of each setting after the last request about it
  unsure  \* history: the settings that a request of that time may undo

setupVars == <<org, admin, asked, cut, owed, unsure>>

NoRequest == [id |-> 0, todo |-> <<>>, looked |-> FALSE, seen |-> <<>>, arg |-> "v2", saved |-> <<>>, keys |-> {}]

\* What the rows may be when the first administrator arrives: the registration
\* has made the organisation, a profile is there once a request looked for one.
SetupInit ==
  /\ org \in [complete : {FALSE}, settings : {[k \in SettingKeys |-> 0]}, parts : {{}},
              engine : {"none", "legacy"}, sources : {FALSE}, done : {FALSE}, saved : {[s \in Steps |-> 0]},
              flags : {[f \in Flags |-> "unset"]}, policies : {0}, cycles : {0}, rules : {0}]
  /\ admin = [a \in Admins |-> NoRequest]
  /\ asked = 0 /\ cut = 0 /\ owed = org.settings /\ unsure = {}
------------------------------------------------------------------------------
Each(step, S) == [i \in 1 .. Len(SetToSeq(S)) |-> <<step, SetToSeq(S)[i]>>]

\* The flags of an activation and, when no published policy is there, one.
Bootstrap == Append(Each("turn_on", CoreFlags), <<"policy">>)

\* Mutant: set-up is stamped first, and the rest of it follows.
WizardSteps_Early ==
  <<<<"activate">>, <<"finish">>>> \o Bootstrap \o Each("turn_on", ModuleFlags)
  \o <<<<"configure">>, <<"policy">>>>

\* Each flag is set by a transaction of its own, which reads the row again; a flag
\* that the request set before is set once more.
WizardSteps ==
  <<<<"activate">>>> \o Bootstrap \o Each("turn_on", Flags)
  \o <<<<"configure">>, <<"policy">>, <<"finish">>>>

Request(a, todo, arg, keys) ==
  /\ admin[a].todo = <<>> /\ asked < MaxAsked
  /\ asked' = asked + 1
  /\ admin' = [admin EXCEPT ![a] =
                  [NoRequest EXCEPT !.id = asked + 1, !.todo = todo, !.arg = arg, !.keys = keys]]
  /\ UNCHANGED <<org, cut, owed, unsure>>

KeysOf(sections) == {k \in SettingKeys : SectionOf[k] \in sections}

\* PATCH /me/hr-settings, of some keys or with a null for a section, and the one
\* that enables the defaults.
AskSettings(a) ==
  \/ \E ks \in Patches : Request(a, <<<<"settings">>>>, "patch", ks)
  \/ \E k \in SettingKeys : Request(a, <<<<"settings">>>>, "null", KeysOf({SectionOf[k]}))
AskProgress(a) == \E s \in Steps : Request(a, <<<<"progress">>>>, s, {})
AskFlag(a) == \E f \in Flags, v \in {"on", "off"} : Request(a, <<<<"flag", f>>>>, v, {})
AskOnboarding(a) == \E ps \in (SUBSET Parts) \ {{}} : Request(a, <<<<"onboard">>>>, ps, {})
AskActivation(a) ==
  \E v \in {"legacy", "v2"} :
    Request(a, <<<<"activate">>>> \o (IF v = "v2" THEN Bootstrap ELSE <<>>), v, {})
\* With the answers in the request, or (recall) with those that were saved.
AskWizard(a) == \E v \in {"v2", "recall"} : Request(a, WizardSteps, v, WizardKeys)
------------------------------------------------------------------------------
Step(a) == Head(admin[a].todo)

\* The step has read what it goes by.
Look(a) ==
  /\ admin[a].todo # <<>> /\ ~admin[a].looked
  /\ admin' = [admin EXCEPT ![a].looked = TRUE, ![a].seen = org]
  /\ UNCHANGED <<org, asked, cut, owed, unsure>>

Ended(a) == [admin EXCEPT ![a] = NoRequest]

\* The keys of a section that is null; the wizard can not update such a section.
Nulled == -1

\* A row that two requests found missing is inserted by the first; the key refuses
\* the second, whose session is broken then: the request ends, though an
\* activation answers as if nothing had happened.
ProfileTaken(a) == admin[a].seen.engine = "none" /\ org.engine # "none"
SourceTaken(a) == ~admin[a].seen.sources /\ org.sources
FlagTaken(a, f) == admin[a].seen.flags[f] = "unset" /\ org.flags[f] # "unset"
Refused(a) ==
  \/ Step(a)[1] \in {"activate", "progress"} /\ ProfileTaken(a)
  \/ Step(a)[1] = "activate" /\ SourceTaken(a)
  \/ Step(a)[1] \in {"flag", "turn_on"} /\ FlagTaken(a, Step(a)[2])
  \/ Step(a)[1] = "configure" /\ \E k \in WizardKeys : admin[a].seen.settings[k] = Nulled
  \/ Step(a)[1] = "onboard" /\ (admin[a].seen.complete \/ admin[a].arg \cap org.parts # {})

\* The column that says whether a flag is on is not written when it already says so.
SetFlag(a, f, v) == IF admin[a].seen.flags[f] = v THEN org.flags ELSE [org.flags EXCEPT ![f] = v]

\* Mutant: a section of the request replaces the section.
Merged_Sections(a) ==
  LET value == IF admin[a].arg = "null" THEN Nulled ELSE admin[a].id IN
  [k \in SettingKeys |-> IF k \in admin[a].keys THEN value
                  ELSE IF \E j \in admin[a].keys : SectionOf[j] = SectionOf[k] THEN 0
                  ELSE admin[a].seen.settings[k]]

\* merge_organisation_hr_settings: the keys of the request into the column as read;
\* a null replaces a section, keys for a null section are all it has.
Merged(a) ==
  LET value == IF admin[a].arg = "null" THEN Nulled ELSE admin[a].id
      was == admin[a].seen.settings IN
  [k \in SettingKeys |->
     IF k \in admin[a].keys THEN value
     ELSE IF was[k] = Nulled /\ \E j \in admin[a].keys : SectionOf[j] = SectionOf[k] THEN 0
     ELSE was[k]]

\* The wizard updates the sections it read in place, and assigns a copy of the
\* whole that shares them: with both sections there, the column looks unchanged
\* and is not written.
LooksUnchanged(a) ==
  \A s \in {SectionOf[k] : k \in WizardKeys} :
    \E k \in SettingKeys : SectionOf[k] = s /\ admin[a].seen.settings[k] # 0

WizardMerged(a) == IF LooksUnchanged(a) THEN org.settings ELSE Merged(a)

Engine(a) ==
  LET wanted == IF admin[a].arg = "legacy" THEN "legacy" ELSE "v2" IN
  IF admin[a].seen.engine = wanted THEN org.engine ELSE wanted
Ensured == IF org.engine = "none" THEN "legacy" ELSE org.engine

\* The answers that were saved when the wizard began, with the template's answers
\* where there are none.
Completed(a) ==
  [s \in Steps |-> IF admin[a].saved[s] = 0 THEN admin[a].id ELSE admin[a].saved[s]]

\* setup_org: departments, designations and locations, and the mark.
Onboarded(a) == [org EXCEPT !.complete = TRUE, !.parts = @ \cup admin[a].arg]

\* save_setup_progress: the column as read, with the answers of one step.
Progressed(a) ==
  [org EXCEPT !.engine = Ensured,
              !.saved = [admin[a].seen.saved EXCEPT ![admin[a].arg] = admin[a].id]]

\* The wizard's settings, weekly offs and cycle, and the mark of a complete set-up.
Configured(a) ==
  [org EXCEPT !.complete = TRUE, !.settings = WizardMerged(a),
              !.cycles = @ + (IF admin[a].seen.cycles = 0 THEN 1 ELSE 0)]

\* The rules of the industry, added to a published policy each time, and the stamp.
Finished(a) ==
  [org EXCEPT !.done = TRUE, !.rules = @ + (IF admin[a].seen.policies > 0 THEN 1 ELSE 0),
              !.saved = IF admin[a].arg = "recall" THEN Completed(a) ELSE @]

DefaultPolicy(a) ==
  [org EXCEPT !.policies = @ + (IF admin[a].seen.policies = 0 THEN 1 ELSE 0)]

\* The rows after the step's transaction.
Written(a) ==
  LET step == Step(a) IN
  CASE step[1] = "settings" -> [org EXCEPT !.settings = Merged(a)]
    [] step[1] = "progress" -> Progressed(a)
    [] step[1] = "flag" -> [org EXCEPT !.flags = SetFlag(a, step[2], admin[a].arg)]
    [] step[1] = "turn_on" -> [org EXCEPT !.flags = SetFlag(a, step[2], "on")]
    [] step[1] = "onboard" -> Onboarded(a)
    [] step[1] = "activate" -> [org EXCEPT !.engine = Engine(a), !.sources = TRUE]
    [] step[1] = "policy" -> DefaultPolicy(a)
    [] step[1] = "configure" -> Configured(a)
    [] step[1] = "finish" -> Finished(a)

\* The wizard reads the profile, and the answers in it, before its first commit.
Advanced(a) ==
  [admin EXCEPT ![a].todo = Tail(@), ![a].looked = FALSE, ![a].seen = <<>>,
                ![a].saved = IF Step(a)[1] = "activate" /\ admin[a].arg = "recall"
                             THEN admin[a].seen.saved ELSE @]

\* The steps that write the settings; and the history of them: a request about some
\* keys has been answered, and another that has read the column may undo it.
WritesSettings(a) ==
  admin[a].todo # <<>> /\ admin[a].looked /\ Step(a)[1] \in {"settings", "configure"}

Answered(a) ==
  IF WritesSettings(a) /\ (Step(a)[1] = "configure" => ~LooksUnchanged(a))
  THEN /\ owed' = [k \in SettingKeys |-> IF k \notin admin[a].keys THEN owed[k]
                                        ELSE IF admin[a].arg = "null" THEN 0 ELSE admin[a].id]
       /\ unsure' = IF \E b \in Admins \ {a} : WritesSettings(b) THEN unsure \cup admin[a].keys
                    ELSE unsure \ admin[a].keys
  ELSE UNCHANGED <<owed, unsure>>

CommitStep(a) ==
  /\ admin[a].looked /\ ~Refused(a)
  /\ org' = Written(a) /\ Answered(a)
  /\ admin' = IF Len(admin[a].todo) = 1 THEN Ended(a) ELSE Advanced(a)
  /\ UNCHANGED <<asked, cut>>

RefuseStep(a) ==
  /\ admin[a].looked /\ Refused(a)
  /\ admin' = Ended(a)
  /\ UNCHANGED <<org, asked, cut, owed, unsure>>

\* A request that dies keeps what its steps have committed.
DieAsking(a) ==
  /\ admin[a].todo # <<>> /\ cut < MaxCut
  /\ admin' = Ended(a)
  /\ cut' = cut + 1
  /\ UNCHANGED <<org, asked, owed, unsure>>

SetupNext ==
  \E a \in Admins :
    \/ AskSettings(a) \/ AskProgress(a) \/ AskFlag(a) \/ AskOnboarding(a)
    \/ AskActivation(a) \/ AskWizard(a)
    \/ Look(a) \/ CommitStep(a) \/ RefuseStep(a) \/ DieAsking(a)

SetupSpec == SetupInit /\ [][SetupNext]_setupVars
------------------------------------------------------------------------------
SetupTypeOK ==
  /\ org.settings \in [SettingKeys -> -1 .. MaxAsked] /\ org.saved \in [Steps -> 0 .. MaxAsked]
  /\ org.engine \in {"none", "legacy", "v2"} /\ org.flags \in [Flags -> {"unset", "on", "off"}]
  /\ {org.complete, org.done, org.sources} \subseteq BOOLEAN /\ org.parts \subseteq Parts
  /\ \A a \in Admins : admin[a].id \in 0 .. MaxAsked /\ admin[a].keys \subseteq SettingKeys

\* A set-up that is stamped complete is complete, however many requests died on the
\* way there or met each other: the profile, every flag, a published policy, a
\* calendar and the mark that lets employees in were written first.
CompletedIsConfigured ==
  org.done =>
    /\ org.complete /\ org.engine # "none"
    /\ org.policies > 0 /\ org.cycles > 0
    /\ \A f \in Flags : org.flags[f] # "unset"

\* A setting has the value that the last answered request about it gave it, whatever
\* other keys and sections were patched, set to null or configured since; except that
\* a request which had read the column before that answer may have undone it.
SettingsLand ==
  \A k \in SettingKeys \ unsure :
    owed[k] = IF org.settings[k] = Nulled THEN 0 ELSE org.settings[k]
=============================================================================
