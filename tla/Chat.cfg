SPECIFICATION ChatSpec
CONSTANTS
  Party = {customer, guard}
  Watcher = {customer}
  Starter = {guard}
  Conv = {v1}
  MaxMessages = 2
  MaxOpens = 2
  NoConv = NoConv
INVARIANTS
  ScreensShowOnce
  AnnouncementsAreTrue
PROPERTIES
  SettledScreensHear
CHECK_DEADLOCK FALSE
