CONSTANTS
  Providers = {"WebDAV", "Dropbox"}
  Push = {"WebDAV"}
  Interval = TRUE
  Slots = {1, 2}
  MaxChanges = 2
  MaxResumes = 1
  MaxCommandRuns = 1
  MaxTrouble = 1
SPECIFICATION TriggerFairSpec
INVARIANTS TriggerTypeOK LockIsARun
PROPERTIES EverythingSynced
