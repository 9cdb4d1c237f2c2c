SPECIFICATION FairLinkSpec
CONSTANTS
  MaxDials = 3
  MaxFailures = 0
  Interval = 1
  MaxDelay = 1
PROPERTIES
  AlwaysReconnects
