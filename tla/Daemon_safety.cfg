\* One command after another, while daemons are killed, terminated and drain
\* for as long as they like, and users delete the pid file.
SPECIFICATION FairSpec
CONSTANTS
  n1 = n1  n2 = n2  n3 = n3  c1 = c1  c2 = c2
  port1 = port1  port2 = port2  None = None
  Commands = {c1}
  Pids = {n1, n2, n3}
  Ports = {port1, port2}
  ConfigPort = port1
  Mishaps = {"crash", "term", "delete", "ps"}
INVARIANTS TypeOK AtMostOneDaemon NeverDoubled ClearsOnlyTheDead
PROPERTIES KeepsItsPidFile CommandsEnd
