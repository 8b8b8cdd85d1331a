CONSTANTS
  Limit = 2
  Chance = 1
  InitFrames = 1
  MaxStall = 1
  MaxLate = 1
  Budgets <- World
SPECIFICATION FairSpec
INVARIANTS
  HooksAreSound
  OutageIsBounded
PROPERTIES
  NoReplaceInPresent
  NoAccidentalRehook
  DrawsInTheEnd
  MessagesReturn
