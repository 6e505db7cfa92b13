SPECIFICATION Spec
CONSTANTS
    Instances <- All
    Channels = {6, 7, 15}
    Paths <- Routed
    Calls = {"errors", "sync", "route", "stop", "elf"}
CHECK_DEADLOCK FALSE
INVARIANTS
  ErrorsReported
  ErrorsLocated
  TimersSynchronised
  RouteExact
  EccHeard
