SPECIFICATION Spec
CONSTANTS
  Policies = {"PUBLIC", "STATIC", "RESOLVABLE"}
  gd_acl = {TRUE, FALSE}
  Devices = {"device"}
  MaxCalls = 3
INVARIANTS
  PausedInFact
  
  HostAgrees
CHECK_DEADLOCK FALSE
