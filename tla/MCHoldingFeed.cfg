SPECIFICATION FeedSpec
CONSTANTS
  Configs = {config, other}
  Dts <- MCDts
  Sizes <- MCSizes
  Readiness = 2
  QueueDuration = 1
  QueueBytes = 4
  QueuePackets = 3
  None = None
SYMMETRY MCSymmetry
PROPERTIES DrainsAreOneStream FailsOnlyWhenFull
