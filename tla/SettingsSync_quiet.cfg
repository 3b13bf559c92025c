SPECIFICATION SyncSpec
CONSTANTS
  Zones = {"UTC", "Local"}
  UTC = "UTC"
  MaxWrites = 2
  MaxShows = 1
  MaxQueue = 2
INVARIANTS HooksConverge ReminderFollowsSettings
