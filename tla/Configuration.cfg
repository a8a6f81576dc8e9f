SPECIFICATION ConfigurationSpec
CONSTANTS
  Launches <- MCLaunches
  Numbers <- MCNumbers
  Ports <- MCPorts
  Many <- MCMany
  Files <- MCFiles
CHECK_DEADLOCK FALSE
INVARIANTS
  GatewayFollowsLauncher
  HelpersAreThere
