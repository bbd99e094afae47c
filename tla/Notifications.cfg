SPECIFICATION NotificationsSpec
CONSTANTS
  MaxNotifications <- MCMaxNotifications
  MaxCalls <- MCMaxCalls
  MaxMishaps <- MCMaxMishaps
  Limit <- MCLimit
INVARIANTS
  NotificationsTypeOK
  ScreenCurrent
PROPERTIES
  BadgeCatchesUp
