SPECIFICATION InventorySpec
CONSTANTS
  Watches = {w1, w2}
  Transport <- MCTransport
  Keys = {"first", "second"}
  Delays = {1000, 3000}
  Items <- MCItems
  None = None
  Unhurried = TRUE
INVARIANTS StateHonest
CHECK_DEADLOCK FALSE
