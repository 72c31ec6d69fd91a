\* Four nodes of weights 1, 0, 2 and 3; every sequence of connections and
\* filters.  The weights have no bound of their own: that they stay finite is
\* part of what is shown.  Three calls of each user of a stream: one that ends
\* it, calls before it and after.
SPECIFICATION MCSpec
CONSTANTS
  n1 = n1
  n2 = n2
  n3 = n3
  n4 = n4
  Nodes = {n1, n2, n3, n4}
  Weight <- MCWeight
  MaxCalls = 3
  MaxIndex = 9
  Interfaces <- MCInterfaces
  Apps <- MCApps
  OptionLists <- MCOptionLists
  Objects <- MCObjects
CHECK_DEADLOCK FALSE
INVARIANTS SumZero Proportional AnswerJustified AdvertisedIsBest ReachesItsServer
PROPERTIES NotStarved NothingLeaks BothEnd
