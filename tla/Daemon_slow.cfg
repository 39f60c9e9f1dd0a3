\* A daemon that comes up slowly, and a second start.
SPECIFICATION Spec
CONSTANTS
  n1 = n1  n2 = n2  n3 = n3  c1 = c1  c2 = c2
  port1 = port1  port2 = port2  None = None
  Commands = {c1}
  Pids = {n1, n2, n3}
  Ports = {port1}
  ConfigPort = port1
  Mishaps = {"slow"}
INVARIANTS ServingIsOnFile
