SPECIFICATION Spec
CONSTANTS
  r1 = r1  r2 = r2  s1 = s1  s2 = s2  t1 = t1  t2 = t2  bad = bad  c1 = c1  c2 = c2
  RulesFile = {r1, r2}
  ScriptFile = {s1}
  Default = r1
  Watched = s1
  Text = {t1, t2, bad}
  Good = {t1, t2}
  Missing = Missing
  None = None
  Client = {c1, c2}
  ClientFiles = {r1, r2}
  MaxSaves = 2
  MaxEarly = 1
  MaxCalls = 2
INVARIANT RulesComeFromPath
CHECK_DEADLOCK FALSE
