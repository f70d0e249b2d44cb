SPECIFICATION Spec
CONSTANTS
  Threads = {t1}
  Events = {e1, e2, e3}
  SampledOut = {}
  Policies = {"warn", "raise"}
  Outcomes = {"RedactionError", "StoreError"}
  Updates <- MCUpdates
  MaxConfigures = 2
  MaxRetries = 1
  Endpoints <- MCEndpoints
  Files <- MCFiles
  Keys <- MCKeys
  Injected = Injected
  File = File
  Console = Console
  k1 = k1
  k2 = k2
  NoKey = NoKey
  NoEvent = NoEvent
  NoThread = NoThread
INVARIANTS DiscardedExporterIsShut KeyChangeStartsNewChain FileSegmentsVerify
