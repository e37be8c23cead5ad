SPECIFICATION FairSpec
CONSTANTS
  Nodes = {n1, n2}
  Gone = Gone
  leaderInterval = 4
  grantedLeaderInterval = 6
  electionRandomInterval = 1
  leaderClockSkew = 1
  MaxDelay = 1
  MaxElections = 4
  MaxStops = 1
  MaxEvents = 1
INVARIANTS
  OneLeader
  ViewFollows
PROPERTIES
  NoNeedlessElection
  LeaderInCharge
CHECK_DEADLOCK FALSE
