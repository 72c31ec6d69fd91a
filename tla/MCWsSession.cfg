\* Channels of one slot, so that every blocking send can block, with
\* messages before, in and after a full in.
SPECIFICATION FairSpec
CONSTANTS
  InCap = 1
  OutCap = 1
  MaxIn = 3
  MaxSend = 1
INVARIANTS WriteExclusive
PROPERTIES CloseCompletes HandlerTold
CHECK_DEADLOCK FALSE
