SPECIFICATION FairSpec
CONSTANTS
  Threads = {t1, t2}
  Events = {e1, e2}
  SampledOut = {}
  Policies = {"raise"}
  Outcomes = {"ExportError", "StoreError", "CloseError"}
  Updates <- LiveUpdates
  MaxConfigures = 1
  MaxRetries = 1
  Endpoints <- MCEndpoints
  Files <- MCFiles
  Keys <- LiveKeys
  Injected = Injected
  File = File
  Console = Console
  k1 = k1
  k2 = k2
  NoKey = NoKey
  NoEvent = NoEvent
  NoThread = NoThread
PROPERTIES EveryCallReturns
