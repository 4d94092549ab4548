SPECIFICATION FairCaptureSpec
CONSTANTS
  Configs = {config}
  Config = config
  Dts <- MCDts
  Sizes <- MCSizes
  Readiness = 2
  QueueDuration = 1
  QueueBytes = 2
  QueuePackets = 2
  MaxRounds = 2
  None = None
INVARIANTS CaptureSound
PROPERTIES QuietStop StartupResolves CaptureStopEnds
