\* Two attempts per loss, so that one may time out and the next succeed; two
\* losses, so that a second round follows a first; one call that fails
\* by itself (timeouts are not counted).
SPECIFICATION FairSpec
CONSTANTS
  Retry = 2
  MaxPuts = 3
  MaxLosses = 2
  MaxFails = 1
INVARIANTS KeepsTheKey
PROPERTIES OrphanDisappears RegisteredAgain
CHECK_DEADLOCK FALSE
