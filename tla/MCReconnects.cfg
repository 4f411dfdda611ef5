SPECIFICATION Spec
CONSTANTS
  s1 = s1
  s2 = s2
  s3 = s3
  Channels = {"session_event", "task_queued"}
  Subs <- MCSubs
  Chan <- MCChan
  NoChannel = NoChannel
  SubBuffer = 1
  MaxInFlight = 2
  Faults = {"die", "connect"}
CHECK_DEADLOCK FALSE
PROPERTY Reconnects
