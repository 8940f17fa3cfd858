SPECIFICATION Spec
CONSTANTS
  Scripts <- MCScripts
  PipeCap = 2
  LogCap = 2
  MaxWorkers = 2
  Pads = {1, 2}
  Actions = {"A", "B"}
  Keys = {"space", "shift"}
  ActionOf <- MCActionOf
  Unmapped = {"mode"}
  QueueCap = 2
  Windows = {w1, w2}
  Users = {w1, w2}
  Ids = {i1, i2}
  Kinds = {"placeholder", "synthetic", "homebrew"}
  MaxAttempts = 3
  Prefs = {0, 1}
  DefaultPrefs = 0
  ValidPrefs = {1}
SYMMETRY Symmetry
INVARIANTS
  WindowTruthful
  TitlesKept
  SettingsSaved
CHECK_DEADLOCK FALSE
