SPECIFICATION JobSpec
CONSTANTS
  Width = 6
  IntBits = 4
  StepBits = 4
  Requests <- MCRequests
  MaxPorts = 2
  Is40G = TRUE
  Latencies = {1, 4}
  MaxFrames = 2
  MaxResets = 1
  Scale = 10
CHECK_DEADLOCK FALSE
INVARIANTS StartsInTurn StepsInTurn EndsTogether SizesCovered HeaderWhole DistancesPoint FramesBracketed AverageWithinMeasured
