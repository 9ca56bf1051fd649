SPECIFICATION FairSpec
CONSTANTS
  Masks <- ButtonMasks
  Chord <- ChordMask
  Hold = 1
  NumIfs = 2
  Speaker = 2
  QueueLen = 1
  Events = {}
PROPERTY SameChordResumes
CHECK_DEADLOCK FALSE
