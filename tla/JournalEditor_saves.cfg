SPECIFICATION FairSpec
CONSTANTS
  Texts = {t1, t2, t3}
  NoText = NoText
  MaxMounts = 2
  MaxEdits = 3
  MaxHides = 2
INVARIANTS DirtyIsArmed LastTypedIsStored HiddenIsDurable
PROPERTY OlderNeverLands StaleWriteIsSilent EventuallyStored
CHECK_DEADLOCK FALSE
