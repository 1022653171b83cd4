\* Arenas of up to three nodes, linked in every way, and what becomes of them.
SPECIFICATION AdapterSpec
CONSTANTS
  Nil = Nil
  Reports <- AllReports
  Traces <- SomeTraces
  Contents <- SmallContents
  Indices = {0, 1, 2, 3}
  Events = {"AssertionChecked", "other"}
  Positions = {0, 1, 2}
  MaxEntries = 5
  Policies <- BothPolicies
  Witnesses <- SomeWitnesses
  initial <- Start
INVARIANTS
  AdapterTypeOK
  EveryNodeOnce
  EffectiveEventsCount
  ClocksWithinLimits
  FloorHolds
