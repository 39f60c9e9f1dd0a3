SPECIFICATION Spec
CONSTANTS
  p1 = p1  p2 = p2  p3 = p3
  r1 = r1  r2 = r2  m1 = m1  gone = gone  None = None
  Providers = {p1, p2, p3}
  Blocked = {p3}
  Models = {m1}
  Dangling = {gone}
  Requests = {r1, r2}
  Cooldown = 2
  KeyConfigured = TRUE
  Protocol <- MCProtocol
  Bindings <- MCBindings
  Inputs <- MCLiveInputs
  Statuses <- MCStatuses
PROPERTIES EveryFailureMarksDown
