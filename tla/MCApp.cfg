\* Two servers, of all four kinds between the two deployments; up to four
\* signals: one per receiver of c and one more.
SPECIFICATION FairSpec
CONSTANTS
  a = a
  b = b
  Servers = {a, b}
  Deployments <- MCDeployments
  MaxSignals = 4
INVARIANTS DrainedAtReturn
PROPERTIES SignalsSuffice
CHECK_DEADLOCK FALSE
