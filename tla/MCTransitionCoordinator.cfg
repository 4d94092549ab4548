SPECIFICATION FairSpec
CONSTANTS
  Milli = 2
  Duration = 3
  Frame <- MCFrame
  Shape <- MCShape
  BridgeLimit = 6
  Window = 10
  Capacity = 8
  Deadline = 24
  Tick = 6
  LongestAge = 24
  MaxFill = 1
  Bursts <- MCBursts
  LastDts = 9
  MaxRequests = 3
  None = None
INVARIANTS NeverRegresses
PROPERTIES SwitchDecodes SoundContinuous HoldingIsSilent TimelineTight TransitionEnds
CHECK_DEADLOCK FALSE
