SPECIFICATION Spec
CONSTANTS
  Threads = {t1, t2}
  Events = {e1, e2}
  SampledOut = {}
  Policies = {"warn"}
  Outcomes = {}
  Updates <- MCUpdates
  MaxConfigures = 1
  MaxRetries = 1
  Endpoints <- MCEndpoints
  Files <- MCFiles
  Keys <- MCKeys
  Injected = Injected
  File = File
  Console = Console
  k1 = k1
  k2 = k2
  NoKey = NoKey
  NoEvent = NoEvent
  NoThread = NoThread
INVARIANTS DiscardedExporterIsShut
