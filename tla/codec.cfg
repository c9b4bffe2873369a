CONSTANTS
  Frames <- SomeFrames
  Ticks = {6}
  Damageable <- FewFrames
  Glitches <- TwoGlitches
  Gaps = {40}
  Chunks = {13, 60}
  TimeMod = 65536
  Discards = TRUE
  MaxFrames = 2
  MaxFaults = 1
SPECIFICATION Spec
INVARIANTS OnlyWhatWasSent NoneMissed
CHECK_DEADLOCK FALSE
