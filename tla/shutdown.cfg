SPECIFICATION RunningSpec
CONSTANTS
  Parts = {"stop"}
  Thing = {"x", "y"}
  Local = {"x"}
  Foreign = {}
  Engine = "postgres"
  Body = 1
  Huge = {"y"}
  DriftBody = {2}
  MaxUpset = 4
  Job = {1, 2}
  Pusher = {k1, k2}
  Barred = {2}
  MaxFault = 3
  Stops <- ServerLoops
  Version = {1, 2, 3}
  Broken = {3}
  Rules <- MCRules
  Assigned <- MCAssigned
  MaxEdit = 4
PROPERTY ShutdownEnds
CHECK_DEADLOCK FALSE
