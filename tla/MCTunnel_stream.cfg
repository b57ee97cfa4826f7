SPECIFICATION Spec
CONSTANTS
  StartState = "Connected"
  Scenarios <- StreamScenarios
  Policies = {"Bypass", "Batch", "Drain"}
  CoalesceCap = 2
  WireCap = 3
INVARIANTS TypeOK StreamInv 
PROPERTIES StreamContract TerminalIsFinal
