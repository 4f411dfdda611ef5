SPECIFICATION HooksSpec
CONSTANTS
  Subscriptions = {h1}
  Announcements = {e1}
  MaxSubscriptions = 1
  Deliverers = {p1}
  Nobody = Nobody
  MaxAttempts = 2
  MaxStalls = 0
  MaxHookCrashes = 0
  MaxToggles = 2
  MaxRetries = 0
CHECK_DEADLOCK FALSE
PROPERTIES
  PausedResumes
