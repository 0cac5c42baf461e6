CONSTANTS
  ta = ta
  tb = tb
  r1 = r1
  r2 = r2
  d1 = d1
  None = None
  Tabs = {ta, tb}
  Requests = {r1, r2}
  Destroys = {d1}
  Kinds = {"graph", "registry"}
  Warm = {"graph"}
  MaxFaults <- EdgeFaults
  MaxRestarts <- EdgeRestarts
SPECIFICATION Spec
INVARIANTS TypeOK NoSpuriousFailure OneLiveWorker DirectoryRight
PROPERTIES CutOffNeverLands RequestsAnswered DestroySettles
CHECK_DEADLOCK FALSE
