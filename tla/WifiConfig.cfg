SPECIFICATION Spec
CONSTANTS
  Default <- MCDefault
  Requests <- MCRequests
  Networks <- MCNetworks
  SsidMax = 3
  PasswdMax = 3
  SlipPrio = 8
  NetPrio = 1
  MaxRequests = 3
  MaxFaults = 2
INVARIANTS TypeOK NeverTorn
PROPERTIES EndsOnRequested Reconnects
