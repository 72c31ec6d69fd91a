\* Two members, one of two workers and one of one, with one-slot channels and
\* four messages, the first of a topic without handler: channels can be full
\* with their workers busy, and one member can take over from the other.  A
\* producer sends two messages, which fill a chunk.
SPECIFICATION MCSpec
CONSTANTS
  c1 = c1
  c2 = c2
  Members <- MCMembers
  NoMember = NoMember
  Worker <- MCWorker
  Cap = 1
  MaxMsg = 4
  Key <- MCKey
  Unregistered = {1}
  AutoCommit = TRUE
  MaxEvents = 2
  Sends = {s1, s2}
  ChunkSize = 2
INVARIANTS KeyInOrder LossBound
PROPERTIES EventuallyHandled Accounted
CHECK_DEADLOCK FALSE
