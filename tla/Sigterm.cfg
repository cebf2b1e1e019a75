\* One rotation, two signals or failures.
SPECIFICATION FairProcess
CONSTANTS
  MaxRotations = 1
  Nothing = Nothing
  Disturbances = {"Interruptions"}
  MaxInterruptions = 2
PROPERTIES
  TerminationEndsProcess
