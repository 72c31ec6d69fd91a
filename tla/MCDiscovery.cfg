\* Two changes, two breaks of the watch and one failed call: a change may
\* fall before, between and after the breaks and a read may fail in each place.
\* A subset of one address is shown, of up to two that are live.
SPECIFICATION FairSpec
CONSTANTS
  s1 = s1
  s2 = s2
  s3 = s3
  s4 = s4
  s5 = s5
  NoAddr = NoAddr
  Services <- MCServices
  Name <- MCName
  Addr <- MCAddr
  Size = 1
  MaxChanges = 2
  MaxBreaks = 2
  MaxFails = 1
INVARIANTS NoChangeLost
PROPERTIES Converges CloseEnds
CHECK_DEADLOCK FALSE
