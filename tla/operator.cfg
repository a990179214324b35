SPECIFICATION FairSpec
CONSTANTS
  Cron <- Crons
  Parses <- Understood
  MaxEdits = 2
  MaxFaults = 1
  MaxChanges = 2
PROPERTIES ScheduleFollows ProvidersFollow
CHECK_DEADLOCK FALSE
