SPECIFICATION FairSpec
CONSTANTS
  StartState = "Connected"
  Scenarios <- ProgressScenarios
  Policies = {"Bypass", "Batch"}
  CoalesceCap = 2
  WireCap = 2
PROPERTIES IdsComeBack BytesLeave
