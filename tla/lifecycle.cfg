SPECIFICATION FairSpec
CONSTANTS
  ShutDownCtxTimeout = 2
  TotalShutdownTimeout = 3
  MaxWork = 2
  MaxSignals = 2
CHECK_DEADLOCK FALSE
INVARIANTS
  TypeOK
  DrainedBeforeEnd
  ForcedOnlyByCalls
  WaitsForWhatCanEnd
PROPERTY NoticedSignalEnds
