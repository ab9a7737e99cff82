SPECIFICATION FairSpec
CONSTANTS
  l1 = l1
  l2 = l2
  None = None
  Locos = {l1, l2}
  N = 4
  Tracks <- CircleTracks
  TrackOf <- CircleTrackOf
  StartAt <- CircleStart
  FreeingTracks = {"a"}
  MaxStateCounter = 2
  MaxLength = 2
  MaxReports = 2
  Spots = {0}
INVARIANTS
  TypeOK
  
  FreeIsClear
  DelayedFits
  
PROPERTIES
  
  BecomesFree
