SPECIFICATION BSpec
CONSTANTS
  Caller = {c1, c2, c3}
  maxConcurrent = 0
  AutoLimits = {1, 2}
  Samples = {1, 7}
INVARIANT BTypeOK
PROPERTIES ImplementsAtomic LoopsEnd SpeedConverges SpeedTracks
