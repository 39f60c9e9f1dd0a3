\* Three commands or edits by hand, from every layout.
SPECIFICATION Spec
CONSTANTS
  c1 = c1  c2 = c2  p1 = p1  p2 = p2  m1 = m1  url1 = url1  url2 = url2
  pkey1 = pkey1  key1 = key1  fresh1 = fresh1  gw1 = gw1  gw2 = gw2
  None = None  Ancient = Ancient  Corrupt = Corrupt  NotAMapping = NotAMapping
  Torn = Torn  Unreadable = Unreadable
  Commands = {c1, c2}
  Providers = {p1, p2}
  Models = {m1}
  Urls = {url1, url2}
  ProviderKeys = {pkey1}
  UserKeys = {key1}
  FreshKeys = {fresh1}
  Gateways = {gw1, gw2}
  DefaultGateway = gw1
  Rejected <- MCRejected
  Disks <- MCDisks
  Mishaps = {"crash", "edit"}
  MaxTurns = 3
INVARIANTS TypeOK NothingLeftBehind
PROPERTIES CommentsKept ImplementsSettings
CHECK_DEADLOCK FALSE
