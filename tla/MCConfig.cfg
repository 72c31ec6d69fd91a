\* Two changes of four documents, two readers: the second may come while the
\* first is on its way.
SPECIFICATION Spec
CONSTANTS
  Paths <- MCPaths
  Docs <- MCDocs
  JsonStrings <- MCJsonStrings
  Null <- MCNull
  Json <- MCJson
  Readers = {r1, r2}
  MaxWrites = 2
INVARIANTS CacheFresh
PROPERTIES LastWriteLoaded
CHECK_DEADLOCK FALSE
