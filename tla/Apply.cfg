\* Two shells at once, slow daemons and users who delete the pid file; no pid is
\* reused within the seconds of a stop().
SPECIFICATION ApplySpec
CONSTANTS
  n1 = n1  n2 = n2  c1 = c1  c2 = c2
  port1 = port1  None = None
  Commands = {c1, c2}
  Pids = {n1, n2}
  Ports = {port1}
  ConfigPort = port1
  Mishaps = {"slow", "delete"}
SYMMETRY SymmetryOfBoth
INVARIANTS SignalsOnlyDaemons UpToDate
