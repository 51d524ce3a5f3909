\* Three events, two dispatchers; two requests under two keys; two administrators
\* with three requests; two clerks with two files or new employees.
CONSTANTS
  Keys = {"k1", "k2", "k3"}
  Dispatchers = {"d1", "d2"}
  Limit = 2
  EventsBeat = TRUE
  MaxFaults = 2
  CallKeys = {"a", "b"}
  Bodies = {"x", "y"}
  Unstorable = {"b"}
  Callers = {"c1", "c2"}
  MaxCalls = 3
  MaxLost = 1
  a1 = a1  a2 = a2  s1 = s1  s2 = s2
  Admins = {a1, a2}
  CoreFlags = {"engine"}
  ModuleFlags = {"roster"}
  SettingKeys = {"mode", "rounding", "weekoff"}
  Patches = {{"rounding"}, {"mode", "weekoff"}}
  WizardKeys = {"mode", "weekoff"}
  SectionOf <- MCSections
  Steps = {1}
  Parts = {"sales"}
  MaxAsked = 3
  MaxCut = 1
  Clerks = {s1, s2}
  Codes = {"x", "y"}
  Emails = {"m", "n"}
  Null = "null"
  Files <- MCFiles
  MaxHired = 2
  MaxChanged = 1
SPECIFICATION MCSpec
CHECK_DEADLOCK FALSE
INVARIANTS HandedOnce ReplayTruthful CompletedIsConfigured  UploadsWhole
PROPERTIES EventsEnd
