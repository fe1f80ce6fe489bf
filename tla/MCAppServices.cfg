SPECIFICATION FairSpec
CONSTANTS
  MaxInbox = 6
  MaxDeaths = 2
  MaxLeaving = 2
CHECK_DEADLOCK FALSE
INVARIANTS
  ServicesTypeOK
  OneEngine
  NoStrayTunnel
  EngagementStands
PROPERTIES
  EngageWorks
  EngineComesBack
