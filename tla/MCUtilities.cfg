\* The ring has two callers: their Adds and Deletes interleave, of one node or
\* of two; a list of eight points has room for all nodes and one inserted
\* twice.  Forms have one or two keys.  Durations have 8 bits: delays next to
\* the powers of two and retries beyond the last shift.  Two callers of the
\* cache, who may start again, make the three steps of a stale row possible.
SPECIFICATION MCSpec
CONSTANTS
  a = a
  b = b
  c = c
  Nodes = {a, b, c}
  NoNode = NoNode
  VN = 2
  Hash <- MCHash
  MaxHash = 5
  Rehash <- MCRehash
  Callers = {g1, g2}
  MaxPoints = 8
  MaxErrors = 4
  MaxWiths = 2
  Texts = {"t"}
  Hidden = {"go"}
  Frames <- MCFrames
  Width = 8
  Delays <- MCDelays
  RoundsUp = {63, 127}
  MaxDelays = {0, 5, 100}
  Jitters = {0, 3}
  Funcs <- MCFuncs
  MaxRetry = 9
  Clients = {g1, g2}
  Fills = {TRUE}
  MaxVersion = 2
  MaxLapses = 1
  Users = {u1, u2, u3}
  LockObjects = {o1, o2, o3}
INVARIANTS FetchIsOwner OrderIndependent SoundUntilReused StaleOnlyByIndex LeaseExclusive
PROPERTIES WaitsGrow
CHECK_DEADLOCK FALSE
