\* Filler and runs of frames whose delimiters were lost overflow the parser.
CONSTANTS
  FrameMax = 6
  Messages <- MCFitting
  MaxFaults = 2
  MaxFiller = 2
SPECIFICATION LinkSpec
INVARIANTS IntactIsTaken LosesOneAtMost OneStrayAtMost
