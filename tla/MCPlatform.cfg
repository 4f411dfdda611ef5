SPECIFICATION PlatformSpec
CONSTANTS
  c1 = c1
  c2 = c2
  c3 = c3
  k1 = k1
  p1 = p1
  p2 = p2
  l1 = l1
  l2 = l2
  l3 = l3
  Channels = {"session_event", "task_queued"}
  Subs <- MCSubs
  Chan <- MCChan
  NoChannel = NoChannel
  SubBuffer = 1
  MaxInFlight = 2
  Faults = {"die"}
  Subscriptions = {h1}
  Announcements = {e1}
  MaxSubscriptions = 1
  Deliverers = {p1, p2}
  Nobody = Nobody
  MaxAttempts = 2
  MaxStalls = 1
  MaxHookCrashes = 1
  MaxToggles = 2
  MaxRetries = 1
  Clients = {c1, c2, c3}
  Keys = {k1}
  NoKey = NoKey
  KeyOf <- MCKeyOf
  Bodies = {"a", "b"}
  BodyOf <- MCBodyOf
  NoBody = "none"
  CallRetries = 1
  MaxPrunes = 1
  Writers = {w1, w2}
  Page = 1
  MaxReconnects = 1
  MaxEvents = 2
  Samples = {1, 2, 3, 4}
  BucketsOf <- MCBucketsOf
  Reducers = {r1, r2}
  ReduceBatch = 2
  MaxAborts = 1
  Replicas = {p1, p2}
  Callers = {c1, c2, c3}
  ServedBy <- MCServedBy
  TTL = 2
CHECK_DEADLOCK FALSE
INVARIANTS
  PlatformTypeOK
  SameAnswer
  StreamExact
  CountedOnce
  SleepsListening
PROPERTIES
  DeliveredStays
  DeliveryEnds
  WaitAnswers
  SamplesReduced
  RevocationConverges
  SignalArrives
  CloseStops
  ListensAgain
