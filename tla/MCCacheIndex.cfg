\* One caller is enough: fn stores the key only, as the comment on FetchIndex
\* says.
SPECIFICATION Spec
CONSTANTS
  Callers = {c1}
  Fills = {FALSE}
  MaxVersion = 1
  MaxLapses = 0
INVARIANTS RowReturned
CHECK_DEADLOCK FALSE
