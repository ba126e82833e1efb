CONSTANTS
  Sdks <- AllSdks
  Keys <- AllKeys
  MaxAttempts = 2
SPECIFICATION Spec
INVARIANTS TypeOK TakesEffectOnce
PROPERTIES RetriesDoNotShow
\* A hand-over whose hosts have all their answers, or have given up, is over.
CHECK_DEADLOCK FALSE
