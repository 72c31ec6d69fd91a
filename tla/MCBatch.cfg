\* Two keys share a worker, so that their values mix in a channel and in a
\* batch; the other worker gets nothing but the nils of two Stops.
SPECIFICATION FairSpec
CONSTANTS
  k1 = k1
  k2 = k2
  Keys = {k1, k2}
  Sharding <- MCSharding
  Worker = 2
  Size = 2
  Num = 2
  Stoppers = {s1, s2}
  Nil = Nil
  MaxAdds = 2
INVARIANTS LeftBehindIsLate
PROPERTIES FlushedAtReturn ImplementsFifo EventuallyExecuted StopTerminates
CHECK_DEADLOCK FALSE
