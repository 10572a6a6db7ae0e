\* Two requests: one on each server of the gateway, or two on one server.
CONSTANTS
  Request = {r1, r2}
  Programs <- AllPrograms
SPECIFICATION FairLifecycleSpec
INVARIANTS
  LifecycleTypeOK
  ObservedIsSent
  HandlersHaveStorage
  
  ServesMigrated
PROPERTIES
  SignalEnds
