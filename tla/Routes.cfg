SPECIFICATION Spec
CONSTANTS
  None = None
  Providers = {"p", "q"}
  Models = {"m", "n"}
  Upstreams = {"m", "u"}
  EntryForms <- Written
  ValueForms <- ModelValues
  MaxEntries = 3
INVARIANT WarningsAreRight
PROPERTIES EditsTakeEffect OtherRoutesStay
