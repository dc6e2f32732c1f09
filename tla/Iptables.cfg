SPECIFICATION Spec
CONSTANTS
  Flags <- MCFlags
  Ports <- MCPorts
INVARIANTS
  TypeOK
  NothingElseRedirected
  AllRedirected
  InstalledInOrder
CHECK_DEADLOCK FALSE
