SPECIFICATION ScSpec
CONSTANTS
  Job = {j1, j2}
  Name = {"m1", "m2"}
  Hosts <- MCOneHost
  none = none
PROPERTY LearnedSurvives
