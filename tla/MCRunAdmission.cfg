SPECIFICATION AdmissionSpec
CONSTANTS
  Api = {r1, r2}
  Cron = {m1}
  Creator = r1
  Nobody = Nobody
  LeaseTicks = 1
  DelayTicks = 1
  GraceTicks = 1
  CadenceTicks = 1
  MaxFaults = 0
  LocalMode = FALSE
INVARIANTS
  AtMostOneStart
  DispatchKeepsReservation
  AnalysisIsPrepared
PROPERTIES
  WithdrawnStaysWithdrawn
  RemovalLeavesNothing
  SlotIsFreed
