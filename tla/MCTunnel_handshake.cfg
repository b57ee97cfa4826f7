SPECIFICATION Spec
CONSTANTS
  StartState = "None"
  Scenarios <- OpenScenarios
  Policies = {"Bypass"}
  CoalesceCap = 1
  WireCap = 1
INVARIANTS PeerTold NothingStranded IdReturned
PROPERTY IdReleaseSafe
