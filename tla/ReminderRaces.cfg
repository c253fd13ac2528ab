SPECIFICATION FairSpec
CONSTANTS
  Job = {j1, j2}
  Fee = {f1}
  Guardian = {g1, g2}
  Threshold <- Scaled
  g1 = g1
  g2 = g2
  FirstContact <- HalfConnected
  SmsEnabled = TRUE
  MaxDay = 1
  MaxEvents = 1
INVARIANTS RemindersAreDue
PROPERTIES MessagesAccountedFor ReportNeverGoesBack EveryStageReached
