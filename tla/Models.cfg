CONSTANTS
  Calls       <- MCCalls
  Provider    <- MCProvider
  Override    <- MCOverride
  Configs     <- MCConfigs
  Others      <- MCOthers
  Keys        <- MCKeys
  Values      <- MCValues
  InitKeys    <- MCInitKeys
  MaxGoogleKeys = 2
  MaxChanges  = 1
  MaxAttempts = 2
  MaxRetries  = 1
  MaxTokens   = 2
  MaxCached   = 2
  None        = None
SPECIFICATION Spec
INVARIANTS CacheInv NoEntryUntried CappedByTokensOnly
PROPERTIES BuildsWhenKeyed CallsEnd
CHECK_DEADLOCK FALSE
