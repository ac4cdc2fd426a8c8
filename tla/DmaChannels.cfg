SPECIFICATION Spec
CONSTANTS
  Channels = {1, 2, 3}
  Sound = {1, 2}
  Controls <- MCControls
  None = None
INVARIANTS
  SlotsFollowFlags
PROPERTY
  ImplementsGbaDma
